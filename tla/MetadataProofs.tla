--------------------------- MODULE MetadataProofs ---------------------------
(***************************************************************************)
(* Theorems about Metadata, for every set of projects, names, defaults and *)
(* PATCH bodies and every bound on the table.                              *)
(*                                                                         *)
(* The inductive invariant says of every project that exists that one item *)
(* is its default, is active, and is the only default; and that no item    *)
(* belongs to a project that does not exist (createProject must not find   *)
(* items, or it would seed a second default).  All requests but setDefault *)
(* and createProject only extend the table in the sense of Extends below.  *)
(***************************************************************************)
EXTENDS Metadata, FiniteSetTheorems, TLAPS

OneOf(its, p) ==
    \E d \in DOMAIN its :
        /\ its[d].project = p
        /\ its[d].isDefault
        /\ ~its[d].archived
        /\ \A i \in DOMAIN its : its[i].project = p /\ its[i].isDefault => i = d

AllOwned == \A i \in DOMAIN items : items[i].project \in created

IInv ==
    /\ TypeOK
    /\ AllOwned
    /\ \A p \in created : OneOf(items, p)

\* The old items keep their project and default flag, no active default is
\* archived, and new items are defaults of nothing.
Extends(its, new) ==
    /\ DOMAIN its \subseteq DOMAIN new
    /\ \A i \in DOMAIN its :
         /\ new[i].project = its[i].project
         /\ new[i].isDefault <=> its[i].isDefault
         /\ its[i].isDefault /\ ~its[i].archived => ~new[i].archived
    /\ \A i \in DOMAIN new \ DOMAIN its :
         /\ ~new[i].isDefault
         /\ new[i].project \in created

\* Extending a table keeps the one active default of every project.
LEMMA ExtendsKeepsDefault ==
    ASSUME NEW its, NEW new, NEW p, Extends(its, new), OneOf(its, p)
    PROVE  OneOf(new, p)
<1>1. PICK d \in DOMAIN its :
        /\ its[d].project = p
        /\ its[d].isDefault
        /\ ~its[d].archived
        /\ \A i \in DOMAIN its : its[i].project = p /\ its[i].isDefault => i = d
  BY DEF OneOf
<1>2. /\ d \in DOMAIN new
      /\ new[d].project = p
      /\ new[d].isDefault
      /\ ~new[d].archived
  BY <1>1, Zenon DEF Extends
<1>3. ASSUME NEW i \in DOMAIN new, new[i].project = p, new[i].isDefault
      PROVE  i = d
  <2>1. i \in DOMAIN its
    BY <1>3 DEF Extends
  <2> QED
    BY <1>1, <1>3, <2>1 DEF Extends
<1> QED
  BY <1>2, <1>3, Zenon DEF OneOf

\* A request that extends the table keeps the invariant.
LEMMA ExtendsStep ==
    ASSUME IInv, items' \in Seq(Item), Extends(items, items'),
           created' = created, reply' \in Reply
    PROVE  IInv'
<1>0. TypeOK'
  BY DEF IInv, TypeOK
<1>1. AllOwned'
  <2> SUFFICES ASSUME NEW i \in DOMAIN items' PROVE items'[i].project \in created
    BY Zenon DEF AllOwned
  <2> QED
    BY Zenon DEF IInv, AllOwned, Extends
<1>2. ASSUME NEW p \in created PROVE OneOf(items', p)
  BY ExtendsKeepsDefault, Zenon DEF IInv
<1> QED
  BY <1>0, <1>1, <1>2, Zenon DEF IInv
-----------------------------------------------------------------------------
(* Sequences of items                                                      *)

\* A function on 1..n is a sequence of length n.
LEMMA FunctionIsSeq ==
    ASSUME NEW T, NEW n \in Nat, NEW f \in [1..n -> T]
    PROVE  f \in Seq(T) /\ Len(f) = n /\ DOMAIN f = 1..n
  OBVIOUS

\* Where the items of a concatenation come from.
LEMMA ConcatItems ==
    ASSUME NEW s \in Seq(Item), NEW t \in Seq(Item)
    PROVE  /\ s \o t \in Seq(Item)
           /\ DOMAIN s \subseteq DOMAIN (s \o t)
           /\ \A i \in DOMAIN s : (s \o t)[i] = s[i]
           /\ \A i \in DOMAIN (s \o t) \ DOMAIN s :
                \E j \in DOMAIN t : (s \o t)[i] = t[j] /\ i = Len(s) + j
<1>1. /\ s \o t \in Seq(Item)
      /\ DOMAIN s = 1..Len(s)
      /\ DOMAIN t = 1..Len(t)
      /\ Len(s) \in Nat /\ Len(t) \in Nat
      /\ DOMAIN (s \o t) = 1..(Len(s) + Len(t))
  OBVIOUS
<1>2. \A i \in DOMAIN s : (s \o t)[i] = s[i]
  OBVIOUS
<1>3. ASSUME NEW i \in DOMAIN (s \o t) \ DOMAIN s
      PROVE  \E j \in DOMAIN t : (s \o t)[i] = t[j] /\ i = Len(s) + j
  <2>1. i - Len(s) \in DOMAIN t /\ (s \o t)[i] = t[i - Len(s)]
    BY <1>1
  <2>2. i = Len(s) + (i - Len(s))
    BY <1>1
  <2> QED
    BY <2>1, <2>2
<1> QED
  BY <1>1, <1>2, <1>3

\* Adding items that are no defaults to a table that extends another one.
LEMMA ConcatExtends ==
    ASSUME NEW its, NEW mid \in Seq(Item), Extends(its, mid),
           NEW t \in Seq(Item),
           \A j \in DOMAIN t : ~t[j].isDefault /\ t[j].project \in created
    PROVE  mid \o t \in Seq(Item) /\ Extends(its, mid \o t)
<1> DEFINE new == mid \o t
<1>1. /\ new \in Seq(Item)
      /\ DOMAIN mid \subseteq DOMAIN new
      /\ \A i \in DOMAIN mid : new[i] = mid[i]
      /\ \A i \in DOMAIN new \ DOMAIN mid : \E j \in DOMAIN t : new[i] = t[j]
  BY ConcatItems
<1> HIDE DEF new
<1>2. DOMAIN its \subseteq DOMAIN new
  BY <1>1 DEF Extends
<1>3. ASSUME NEW i \in DOMAIN its
      PROVE  /\ new[i].project = its[i].project
             /\ new[i].isDefault <=> its[i].isDefault
             /\ its[i].isDefault /\ ~its[i].archived => ~new[i].archived
  <2>1. i \in DOMAIN mid /\ new[i] = mid[i]
    BY <1>1 DEF Extends
  <2> QED
    BY <2>1, Zenon DEF Extends
<1>4. ASSUME NEW i \in DOMAIN new \ DOMAIN its
      PROVE  ~new[i].isDefault /\ new[i].project \in created
  <2>1. CASE i \in DOMAIN mid
    <3>1. new[i] = mid[i] /\ i \in DOMAIN mid \ DOMAIN its
      BY <1>1, <1>4, <2>1
    <3> QED
      BY <3>1, Zenon DEF Extends
  <2>2. CASE i \notin DOMAIN mid
    <3>1. PICK j \in DOMAIN t : new[i] = t[j]
      BY <1>1, <1>4, <2>2
    <3> QED
      BY <3>1, Zenon
  <2> QED
    BY <2>1, <2>2
<1>5. Extends(its, new)
  BY <1>2, <1>3, <1>4, Zenon DEF Extends
<1> QED
  BY <1>1, <1>5 DEF new

\* A table extends itself.
LEMMA ExtendsItself ==
    ASSUME NEW its
    PROVE  Extends(its, its)
  BY Zenon DEF Extends

\* Append is the concatenation of one item.
LEMMA AppendExtends ==
    ASSUME TypeOK, NEW e \in Item, ~e.isDefault, e.project \in created
    PROVE  Append(items, e) \in Seq(Item) /\ Extends(items, Append(items, e))
<1>1. <<e>> \in Seq(Item) /\ DOMAIN <<e>> = {1} /\ <<e>>[1] = e
  OBVIOUS
<1>2. Append(items, e) = items \o <<e>> /\ items \in Seq(Item)
  BY DEF TypeOK
<1>3. \A j \in DOMAIN <<e>> : ~<<e>>[j].isDefault /\ <<e>>[j].project \in created
  <2> SUFFICES ASSUME NEW j \in DOMAIN <<e>>
               PROVE  ~<<e>>[j].isDefault /\ <<e>>[j].project \in created
    OBVIOUS
  <2>1. <<e>>[j] = e
    BY <1>1
  <2> QED
    BY <2>1, Zenon
<1>4. Extends(items, items)
  BY ExtendsItself
<1>5. items \o <<e>> \in Seq(Item) /\ Extends(items, items \o <<e>>)
  BY <1>1, <1>2, <1>3, <1>4, ConcatExtends
<1> QED
  BY <1>2, <1>5

-----------------------------------------------------------------------------
(* Type correctness                                                        *)

\* A row added by createItem, reset, copy or import is no default.
LEMMA FreshItem ==
    ASSUME NEW p \in Projects, NEW n \in Names, NEW o \in Int, NEW c \in BOOLEAN
    PROVE  /\ NewItem(p, n, o, FALSE, c) \in Item
           /\ ~NewItem(p, n, o, FALSE, c).isDefault
           /\ NewItem(p, n, o, FALSE, c).project = p
<1>1. (c /\ HasClosed) \in BOOLEAN /\ FALSE \in BOOLEAN
  OBVIOUS
<1> QED
  BY <1>1 DEF NewItem, Item

LEMMA DefaultsType ==
    /\ DOMAIN Defaults = 1..Len(Defaults)
    /\ Len(Defaults) \in Nat
    /\ DOMAIN Defaults \subseteq Int
    /\ \A k \in DOMAIN Defaults :
         Defaults[k].name \in Names /\ Defaults[k].closed \in BOOLEAN
<1>1. Defaults \in Seq(DefaultSpec)
  BY MetadataAssumption, Zenon DEF MetadataAssumption
<1>2. \A k \in DOMAIN Defaults : Defaults[k] \in DefaultSpec
  BY <1>1
<1> QED
  BY <1>1, <1>2 DEF DefaultSpec

\* A subset of 1..n is finite and has a size.
LEMMA SizeType ==
    ASSUME NEW n \in Nat, NEW S \in SUBSET (1..n)
    PROVE  IsFiniteSet(S) /\ Cardinality(S) \in Nat
<1>1. 0 \in Int /\ n \in Int /\ 1 \in Int
  OBVIOUS
<1>2. IsFiniteSet(1..n)
  BY <1>1, FS_Interval
<1>3. IsFiniteSet(S)
  BY <1>2, FS_Subset
<1>4. Cardinality(S) \in Nat
  BY <1>3, FS_CardinalityType
<1> QED
  BY <1>3, <1>4

\* Orders are integers.
LEMMA MaxOrderType ==
    ASSUME TypeOK, NEW p, NEW o \in MaxOrder(p)
    PROVE  o \in Int
<1>1. \A i \in DOMAIN items : items[i] \in Item
  BY DEF TypeOK
<1>2. \A i \in Of(p) : items[i].order \in Int
  BY <1>1 DEF Of, Item
<1> QED
  BY <1>2 DEF MaxOrder

LEMMA AnswerType ==
    ASSUME NEW op \in {"project", "create", "patch", "archive", "reset", "copy", "import"},
           NEW p \in Projects, NEW ok \in BOOLEAN, Answer(op, p, ok)
    PROVE  reply' \in Reply
  BY DEF Answer, Reply

LEMMA RefuseStep ==
    ASSUME IInv, NEW op \in {"create", "patch", "archive", "copy"},
           NEW p \in Projects, Refuse(op, p)
    PROVE  IInv'
<1>1. reply' \in Reply
  BY AnswerType DEF Refuse
<1>2. items' = items /\ created' = created
  BY DEF Refuse
<1>3. items' \in Seq(Item)
  BY <1>2 DEF IInv, TypeOK
<1>4. Extends(items, items')
  BY <1>2, ExtendsItself
<1> QED
  BY <1>1, <1>2, <1>3, <1>4, ExtendsStep

-----------------------------------------------------------------------------
(* The writes of a PATCH                                                   *)

\* Same rows, with the same project and flags.
SameFlags(its, new) ==
    /\ DOMAIN new = DOMAIN its
    /\ \A j \in DOMAIN its :
         /\ new[j].project = its[j].project
         /\ new[j].isDefault = its[j].isDefault
         /\ new[j].archived = its[j].archived

LEMMA SameFlagsExtends ==
    ASSUME NEW its, NEW new, SameFlags(its, new)
    PROVE  Extends(its, new)
  BY DEF SameFlags, Extends

LEMMA SameFlagsTransitive ==
    ASSUME NEW a, NEW b, NEW c, SameFlags(a, b), SameFlags(b, c)
    PROVE  SameFlags(a, c)
  BY Zenon DEF SameFlags

\* Writing one item of a table.
LEMMA WriteItem ==
    ASSUME NEW its \in Seq(Item), NEW i \in DOMAIN its, NEW e \in Item,
           e.project = its[i].project, e.isDefault = its[i].isDefault,
           e.archived = its[i].archived
    PROVE  /\ [its EXCEPT ![i] = e] \in Seq(Item)
           /\ SameFlags(its, [its EXCEPT ![i] = e])
  BY DEF SameFlags

LEMMA RenamedFlags ==
    ASSUME NEW its \in Seq(Item), NEW i \in DOMAIN its, NEW n \in Names \cup {Absent}
    PROVE  Renamed(its, i, n) \in Seq(Item) /\ SameFlags(its, Renamed(its, i, n))
<1>1. CASE n = Absent
  BY <1>1 DEF Renamed, SameFlags
<1>2. CASE n # Absent
  <2> DEFINE e == [its[i] EXCEPT !.name = n]
  <2>1. its[i] \in Item
    OBVIOUS
  <2>2. /\ e \in Item /\ e.project = its[i].project
        /\ e.isDefault = its[i].isDefault /\ e.archived = its[i].archived
    BY <1>2, <2>1 DEF Item
  <2>3. Renamed(its, i, n) = [its EXCEPT ![i] = e]
    BY <1>2 DEF Renamed
  <2> HIDE DEF e
  <2>4. /\ [its EXCEPT ![i] = e] \in Seq(Item)
        /\ SameFlags(its, [its EXCEPT ![i] = e])
    BY <2>2, WriteItem
  <2> QED
    BY <2>3, <2>4, Zenon
<1> QED
  BY <1>1, <1>2

LEMMA ReorderedFlags ==
    ASSUME NEW its \in Seq(Item), NEW i \in DOMAIN its, NEW o \in Int \cup {Absent}
    PROVE  Reordered(its, i, o) \in Seq(Item) /\ SameFlags(its, Reordered(its, i, o))
<1>1. CASE o = Absent
  BY <1>1 DEF Reordered, SameFlags
<1>2. CASE o # Absent
  <2> DEFINE e == [its[i] EXCEPT !.order = o]
  <2>1. its[i] \in Item
    OBVIOUS
  <2>2. /\ e \in Item /\ e.project = its[i].project
        /\ e.isDefault = its[i].isDefault /\ e.archived = its[i].archived
    BY <1>2, <2>1 DEF Item
  <2>3. Reordered(its, i, o) = [its EXCEPT ![i] = e]
    BY <1>2 DEF Reordered
  <2> HIDE DEF e
  <2>4. /\ [its EXCEPT ![i] = e] \in Seq(Item)
        /\ SameFlags(its, [its EXCEPT ![i] = e])
    BY <2>2, WriteItem
  <2> QED
    BY <2>3, <2>4, Zenon
<1> QED
  BY <1>1, <1>2

LEMMA ClosedFlags ==
    ASSUME NEW its \in Seq(Item), NEW i \in DOMAIN its, NEW c \in BOOLEAN \cup {Absent}
    PROVE  Closed(its, i, c) \in Seq(Item) /\ SameFlags(its, Closed(its, i, c))
<1>1. CASE c = Absent
  BY <1>1 DEF Closed, SameFlags
<1>2. CASE c # Absent
  <2> DEFINE e == [its[i] EXCEPT !.closed = c]
  <2>1. its[i] \in Item
    OBVIOUS
  <2>2. /\ e \in Item /\ e.project = its[i].project
        /\ e.isDefault = its[i].isDefault /\ e.archived = its[i].archived
    BY <1>2, <2>1 DEF Item
  <2>3. Closed(its, i, c) = [its EXCEPT ![i] = e]
    BY <1>2 DEF Closed
  <2> HIDE DEF e
  <2>4. /\ [its EXCEPT ![i] = e] \in Seq(Item)
        /\ SameFlags(its, [its EXCEPT ![i] = e])
    BY <2>2, WriteItem
  <2> QED
    BY <2>3, <2>4, Zenon
<1> QED
  BY <1>1, <1>2

\* Re-pointing the default of p to an active item of p.
LEMMA WithDefaultItems ==
    ASSUME NEW its \in Seq(Item), NEW p \in Projects, NEW i \in DOMAIN its
    PROVE  LET new == WithDefault(its, p, i)
           IN  /\ new \in Seq(Item)
               /\ DOMAIN new = DOMAIN its
               /\ \A j \in DOMAIN its :
                    /\ new[j].project = its[j].project
                    /\ new[j].archived = its[j].archived
                    /\ its[j].project = p => new[j].isDefault = (j = i)
                    /\ its[j].project # p => new[j] = its[j]
<1> DEFINE new == WithDefault(its, p, i)
<1>1. /\ DOMAIN its = 1..Len(its) /\ Len(its) \in Nat
      /\ \A j \in DOMAIN its : its[j] \in Item
  OBVIOUS
<1>2. DOMAIN new = DOMAIN its
  BY DEF WithDefault
<1>3. ASSUME NEW j \in DOMAIN its
      PROVE  /\ new[j] \in Item
             /\ new[j].project = its[j].project
             /\ new[j].archived = its[j].archived
             /\ its[j].project = p => new[j].isDefault = (j = i)
             /\ its[j].project # p => new[j] = its[j]
  <2>1. new[j] = IF its[j].project = p THEN [its[j] EXCEPT !.isDefault = (j = i)]
                                       ELSE its[j]
    BY DEF WithDefault
  <2>2. CASE its[j].project = p
    <3>1. new[j] = [its[j] EXCEPT !.isDefault = (j = i)]
      BY <2>1, <2>2, Zenon
    <3>2. (j = i) \in BOOLEAN /\ its[j] \in Item
      BY <1>1
    <3> HIDE DEF new
    <3> QED
      BY <3>1, <3>2, <2>2 DEF Item
  <2>3. CASE its[j].project # p
    BY <2>1, <2>3, <1>1, Zenon
  <2> QED
    BY <2>2, <2>3, Zenon
<1>4. new \in [1..Len(its) -> Item]
  BY <1>1, <1>2, <1>3, Zenon DEF WithDefault
<1>5. new \in Seq(Item)
  BY <1>1, <1>4, FunctionIsSeq, Zenon
<1> QED
  BY <1>2, <1>3, <1>5, Zenon

LEMMA WithDefaultOne ==
    ASSUME NEW its \in Seq(Item), NEW p \in Projects, NEW i \in DOMAIN its,
           its[i].project = p, ~its[i].archived
    PROVE  /\ OneOf(WithDefault(its, p, i), p)
           /\ \A q : q # p /\ OneOf(its, q) => OneOf(WithDefault(its, p, i), q)
<1> DEFINE new == WithDefault(its, p, i)
<1>1. /\ DOMAIN new = DOMAIN its
      /\ \A j \in DOMAIN its :
                    /\ new[j].project = its[j].project
                    /\ new[j].archived = its[j].archived
                    /\ its[j].project = p => new[j].isDefault = (j = i)
                    /\ its[j].project # p => new[j] = its[j]
  BY WithDefaultItems
<1> HIDE DEF new
<1>2. OneOf(new, p)
  <2>1. new[i].isDefault /\ new[i].project = p /\ ~new[i].archived /\ i \in DOMAIN new
    BY <1>1
  <2>2. \A j \in DOMAIN new : new[j].project = p /\ new[j].isDefault => j = i
    BY <1>1
  <2> QED
    BY <2>1, <2>2, Zenon DEF OneOf
<1>3. ASSUME NEW q, q # p, OneOf(its, q)
      PROVE  OneOf(new, q)
  <2>1. \A j \in DOMAIN its : its[j].project = q => new[j] = its[j]
    BY <1>1, <1>3
  <2>2. \A j \in DOMAIN its : new[j].project = q => its[j].project = q
    BY <1>1
  <2> QED
    BY <1>1, <1>3, <2>1, <2>2, ZenonT(30) DEF OneOf
<1> QED
  BY <1>2, <1>3 DEF new

\* What a PATCH writes when every check passes.
LEMMA PatchStep ==
    ASSUME IInv, NEW p \in created, NEW i \in DOMAIN items, NEW patch \in Patch,
           PatchItem(p, i, patch), Fits(p, i, patch)
    PROVE  IInv'
<1> DEFINE named == Renamed(items, i, patch.name)
           moved == Reordered(named, i, patch.order)
           pointed == IF patch.isDefault THEN WithDefault(moved, p, i) ELSE moved
<1>1. /\ items \in Seq(Item) /\ p \in Projects
      /\ patch.name \in Names \cup {Absent} /\ patch.order \in Int \cup {Absent}
      /\ patch.closed \in BOOLEAN \cup {Absent} /\ patch.isDefault \in BOOLEAN
  BY DEF IInv, TypeOK, Patch
<1>2. /\ items' = Closed(pointed, i, patch.closed)
      /\ Answer("patch", p, TRUE)
      /\ created' = created
  BY Zenon DEF PatchItem
<1>3. reply' \in Reply
  BY <1>1, <1>2, AnswerType
<1>4. items[i].project = p /\ (patch.isDefault => ~items[i].archived)
  BY Zenon DEF Fits
<1>5. named \in Seq(Item) /\ SameFlags(items, named)
  BY <1>1, RenamedFlags
<1>6. i \in DOMAIN named
  BY <1>5 DEF SameFlags
<1> HIDE DEF named
<1>7. moved \in Seq(Item) /\ SameFlags(named, moved)
  BY <1>1, <1>5, <1>6, ReorderedFlags
<1>8. SameFlags(items, moved) /\ i \in DOMAIN moved
  BY <1>5, <1>6, <1>7, SameFlagsTransitive, Zenon DEF SameFlags
<1> HIDE DEF moved
<1>9. CASE patch.isDefault
  <2> DEFINE new == WithDefault(moved, p, i)
  <2>1. pointed = new
    BY <1>9
  <2>2. moved[i].project = p /\ ~moved[i].archived
    BY <1>4, <1>8, <1>9, Zenon DEF SameFlags
  <2>3. /\ new \in Seq(Item) /\ DOMAIN new = DOMAIN moved
        /\ \A j \in DOMAIN moved : new[j].project = moved[j].project
    BY <1>1, <1>7, <1>8, WithDefaultItems
  <2>4. OneOf(new, p) /\ \A q : q # p /\ OneOf(moved, q) => OneOf(new, q)
    BY <1>1, <1>7, <1>8, <2>2, WithDefaultOne
  <2> HIDE DEF new
  <2>5. /\ Closed(new, i, patch.closed) \in Seq(Item)
        /\ SameFlags(new, Closed(new, i, patch.closed))
    BY <1>1, <1>8, <2>3, ClosedFlags
  <2>6. items' \in Seq(Item) /\ SameFlags(new, items')
    BY <1>2, <2>1, <2>5
  <2>7. TypeOK'
    BY <1>2, <1>3, <2>6 DEF IInv, TypeOK
  <2>8. AllOwned'
    <3> SUFFICES ASSUME NEW j \in DOMAIN items' PROVE items'[j].project \in created
      BY <1>2, Zenon DEF AllOwned
    <3>1. j \in DOMAIN items /\ items'[j].project = items[j].project
      BY <1>8, <2>3, <2>6, Zenon DEF SameFlags
    <3> QED
      BY <3>1, Zenon DEF IInv, AllOwned
  <2>9. ASSUME NEW q \in created PROVE OneOf(items', q)
    <3>1. Extends(items, moved)
      BY <1>8, SameFlagsExtends
    <3>2. OneOf(moved, q)
      BY <3>1, ExtendsKeepsDefault, Zenon DEF IInv
    <3>3. OneOf(new, q)
      BY <2>4, <3>2, Zenon
    <3>4. Extends(new, items')
      BY <2>6, SameFlagsExtends
    <3> QED
      BY <3>3, <3>4, ExtendsKeepsDefault
  <2> QED
    BY <1>2, <2>7, <2>8, <2>9, Zenon DEF IInv
<1>10. CASE ~patch.isDefault
  <2>1. pointed = moved
    BY <1>10
  <2>2. /\ Closed(moved, i, patch.closed) \in Seq(Item)
        /\ SameFlags(moved, Closed(moved, i, patch.closed))
    BY <1>1, <1>7, <1>8, ClosedFlags
  <2>3. items' \in Seq(Item) /\ SameFlags(moved, items')
    BY <1>2, <2>1, <2>2
  <2>4. Extends(items, items')
    BY <1>8, <2>3, SameFlagsTransitive, SameFlagsExtends, Zenon
  <2> QED
    BY <1>2, <1>3, <2>3, <2>4, ExtendsStep
<1> QED
  BY <1>9, <1>10

-----------------------------------------------------------------------------
(* The other requests                                                      *)

LEMMA CreateItemStep ==
    ASSUME IInv, NEW p \in Projects, NEW n \in Names, NEW c \in BOOLEAN,
           CreateItem(p, n, c)
    PROVE  IInv'
<1>1. CASE NameFree(p, n, 0)
  <2>1. PICK top \in MaxOrder(p) :
          items' = Append(items, NewItem(p, n, top + 1, FALSE, c))
    BY <1>1, Zenon DEF CreateItem
  <2>2. p \in created /\ created' = created /\ Answer("create", p, TRUE)
    BY <1>1, Zenon DEF CreateItem
  <2> DEFINE e == NewItem(p, n, top + 1, FALSE, c)
  <2>3. top + 1 \in Int
    BY MaxOrderType DEF IInv
  <2>4. e \in Item /\ ~e.isDefault /\ e.project = p
    BY <2>3, FreshItem
  <2> HIDE DEF e
  <2>5. items' = Append(items, e)
    BY <2>1 DEF e
  <2>6. items' \in Seq(Item) /\ Extends(items, items')
    BY <2>2, <2>4, <2>5, AppendExtends DEF IInv
  <2>7. reply' \in Reply
    BY <2>2, AnswerType
  <2> QED
    BY <2>2, <2>6, <2>7, ExtendsStep
<1>2. CASE ~NameFree(p, n, 0)
  <2>1. Refuse("create", p)
    BY <1>2, Zenon DEF CreateItem
  <2> QED
    BY <2>1, RefuseStep
<1> QED
  BY <1>1, <1>2

\* Setting one archived flag to a value: of the default only to FALSE.
LEMMA ArchivedFlag ==
    ASSUME IInv, NEW i \in DOMAIN items, NEW a \in BOOLEAN,
           a => items[i].archived \/ ~items[i].isDefault,
           items' = [items EXCEPT ![i].archived = a]
    PROVE  items' \in Seq(Item) /\ Extends(items, items')
<1>1. items \in Seq(Item)
  BY DEF IInv, TypeOK
<1>2. \A j \in DOMAIN items : items[j] \in Item
  BY <1>1
<1>3. [items[i] EXCEPT !.archived = a] \in Item
  BY <1>2 DEF Item
<1>4. items' \in Seq(Item)
  BY <1>1, <1>3
<1>5. /\ DOMAIN items' = DOMAIN items
      /\ \A j \in DOMAIN items : j # i => items'[j] = items[j]
      /\ items'[i] = [items[i] EXCEPT !.archived = a]
  BY <1>1
<1>6. /\ items'[i].project = items[i].project
      /\ items'[i].isDefault = items[i].isDefault
      /\ items'[i].archived = a
  BY <1>2, <1>5 DEF Item
<1>7. ASSUME NEW j \in DOMAIN items
      PROVE  /\ items'[j].project = items[j].project
             /\ items'[j].isDefault <=> items[j].isDefault
             /\ items[j].isDefault /\ ~items[j].archived => ~items'[j].archived
  <2>1. CASE j = i
    BY <1>6, <2>1, Zenon
  <2>2. CASE j # i
    BY <1>5, <2>2, Zenon
  <2> QED
    BY <2>1, <2>2
<1>8. Extends(items, items')
  BY <1>5, <1>7, Zenon DEF Extends
<1> QED
  BY <1>4, <1>8

LEMMA ArchiveItemStep ==
    ASSUME IInv, NEW p \in Projects, NEW i \in DOMAIN items, ArchiveItem(p, i)
    PROVE  IInv'
<1> DEFINE may == /\ items[i].project = p
                  /\ \/ items[i].archived
                     \/ ~items[i].isDefault /\ Cardinality(Active(p)) > 1
<1>1. CASE may
  <2>1. /\ items' = [items EXCEPT ![i].archived = TRUE]
        /\ Answer("archive", p, TRUE)
        /\ created' = created
    BY <1>1, Zenon DEF ArchiveItem, Archivable
  <2>2. items[i].archived \/ ~items[i].isDefault
    BY <1>1, Zenon
  <2>3. items' \in Seq(Item) /\ Extends(items, items')
    BY <2>1, <2>2, ArchivedFlag
  <2>4. reply' \in Reply
    BY <2>1, AnswerType
  <2> QED
    BY <2>1, <2>3, <2>4, ExtendsStep
<1>2. CASE ~may
  <2>1. Refuse("archive", p)
    BY <1>2, Zenon DEF ArchiveItem, Archivable
  <2> QED
    BY <2>1, RefuseStep
<1> QED
  BY <1>1, <1>2

\* Unarchiving items extends the table.
LEMMA RestoredExtends ==
    ASSUME IInv, NEW p \in Projects
    PROVE  Restored(p) \in Seq(Item) /\ Extends(items, Restored(p))
<1> DEFINE new == Restored(p)
<1>1. /\ DOMAIN items = 1..Len(items) /\ Len(items) \in Nat
      /\ \A j \in DOMAIN items : items[j] \in Item
  BY DEF IInv, TypeOK
<1>2. DOMAIN new = DOMAIN items
  BY DEF Restored
<1>3. \A i \in DOMAIN items :
         new[i] = items[i] \/ new[i] = [items[i] EXCEPT !.archived = FALSE]
  BY Zenon DEF Restored
<1>4. new \in [DOMAIN items -> {new[i] : i \in DOMAIN items}]
  BY Zenon DEF Restored
<1> HIDE DEF new
<1>5. ASSUME NEW i \in DOMAIN items
      PROVE  /\ new[i] \in Item
             /\ new[i].project = items[i].project
             /\ new[i].isDefault = items[i].isDefault
             /\ ~items[i].archived => ~new[i].archived
  <2>1. CASE new[i] = items[i]
    BY <1>1, <2>1, Zenon
  <2>2. CASE new[i] = [items[i] EXCEPT !.archived = FALSE]
    <3>1. items[i] \in Item
      BY <1>1
    <3> QED
      BY <2>2, <3>1 DEF Item
  <2> QED
    BY <1>3, <2>1, <2>2
<1>6. new \in [1..Len(items) -> Item]
  BY <1>1, <1>2, <1>4, <1>5, Zenon
<1>7. new \in Seq(Item)
  BY <1>1, <1>6, FunctionIsSeq
<1>8. Extends(items, new)
  BY <1>2, <1>5, Zenon DEF Extends
<1> QED
  BY <1>7, <1>8 DEF new

\* Where the project has an active default, reset re-points nothing.
LEMMA NothingToRepoint ==
    ASSUME NEW its, NEW p, OneOf(its, p)
    PROVE  Repointed(its, p) = {its}
  BY Zenon DEF Repointed, OneOf

\* The rows reset appends: one of the project for each missing default name.
LEMMA RecreatedRows ==
    ASSUME NEW p \in Projects, NEW ks \in Listed(Missing(p), <)
    PROVE  /\ Recreated(p, ks) \in Seq(Item)
           /\ DOMAIN Recreated(p, ks) = DOMAIN ks
           /\ \A j \in DOMAIN ks :
                /\ ks[j] \in Missing(p)
                /\ Recreated(p, ks)[j].project = p
                /\ Recreated(p, ks)[j].name = Defaults[ks[j]].name
                /\ ~Recreated(p, ks)[j].isDefault
                /\ ~Recreated(p, ks)[j].archived
<1> DEFINE f == Recreated(p, ks)
           n == Cardinality(Missing(p))
<1>1. n \in Nat
  <2>1. Missing(p) \in SUBSET (1..Len(Defaults)) /\ Len(Defaults) \in Nat
    BY DefaultsType DEF Missing
  <2> QED
    BY <2>1, SizeType
<1>2. DOMAIN ks = 1..n /\ \A j \in 1..n : ks[j] \in Missing(p) /\ ks[j] \in DOMAIN Defaults
  BY DEF Listed, Missing
<1>3. ASSUME NEW j \in 1..n
      PROVE  /\ f[j] \in Item /\ ~f[j].isDefault /\ ~f[j].archived /\ f[j].project = p
             /\ f[j].name = Defaults[ks[j]].name
  <2>1. ks[j] \in DOMAIN Defaults
    BY <1>2
  <2>2. /\ ks[j] \in Int
        /\ Defaults[ks[j]].name \in Names
        /\ Defaults[ks[j]].closed \in BOOLEAN
    BY <2>1, DefaultsType, Zenon
  <2> DEFINE e == NewItem(p, Defaults[ks[j]].name, ks[j], FALSE, Defaults[ks[j]].closed)
  <2>3. f[j] = e
    BY <1>2 DEF Recreated
  <2>4. e \in Item /\ ~e.isDefault /\ e.project = p
    BY <2>2, FreshItem, Zenon
  <2>5. ~e.archived /\ e.name = Defaults[ks[j]].name
    BY DEF NewItem
  <2> HIDE DEF e, f
  <2> QED
    BY <2>3, <2>4, <2>5, Zenon
<1>4. f \in [1..n -> Item]
  BY <1>2, <1>3 DEF Recreated
<1>5. f \in Seq(Item) /\ DOMAIN f = 1..n
  BY <1>1, <1>4, FunctionIsSeq, Zenon
<1> HIDE DEF f, n
<1> QED
  BY <1>2, <1>3, <1>5, Zenon DEF f

\* Reset restores and appends, and re-points nothing.
LEMMA ResetWrites ==
    ASSUME IInv, NEW p \in Projects, ResetToDefaults(p)
    PROVE  \E ks \in Listed(Missing(p), <) :
              /\ items' = Restored(p) \o Recreated(p, ks)
              /\ items' \in Seq(Item)
              /\ Extends(items, items')
<1>1. PICK ks \in Listed(Missing(p), <) :
        items' \in Repointed(Restored(p) \o Recreated(p, ks), p)
  BY Zenon DEF ResetToDefaults
<1>2. p \in created
  BY Zenon DEF ResetToDefaults
<1> DEFINE f == Recreated(p, ks)
<1>3. /\ f \in Seq(Item)
      /\ \A j \in DOMAIN f : ~f[j].isDefault /\ f[j].project \in created
  BY <1>2, RecreatedRows, Zenon
<1> HIDE DEF f
<1>4. Restored(p) \in Seq(Item) /\ Extends(items, Restored(p))
  BY RestoredExtends
<1>5. Restored(p) \o f \in Seq(Item) /\ Extends(items, Restored(p) \o f)
  BY <1>3, <1>4, ConcatExtends
<1>6. OneOf(Restored(p) \o f, p)
  BY <1>2, <1>5, ExtendsKeepsDefault DEF IInv
<1>7. items' = Restored(p) \o f
  BY <1>1, <1>6, NothingToRepoint, Zenon DEF f
<1> QED
  BY <1>5, <1>7, Zenon DEF f

LEMMA ResetStep ==
    ASSUME IInv, NEW p \in Projects, ResetToDefaults(p)
    PROVE  IInv'
<1>1. created' = created /\ Answer("reset", p, TRUE)
  BY Zenon DEF ResetToDefaults
<1>2. items' \in Seq(Item) /\ Extends(items, items')
  BY ResetWrites, Zenon
<1>3. reply' \in Reply
  BY <1>1, AnswerType
<1> QED
  BY <1>1, <1>2, <1>3, ExtendsStep

\* The rows copy appends: one for each active item of src with a name that the
\* project has in no case.
LEMMA PastedRows ==
    ASSUME TypeOK, NEW p \in Projects, NEW src,
           NEW is \in Listed(Copied(src, p), Before), NEW top \in MaxOrder(p)
    PROVE  /\ Pasted(p, is, top) \in Seq(Item)
           /\ DOMAIN Pasted(p, is, top) = DOMAIN is
           /\ \A j \in DOMAIN is :
                /\ is[j] \in Copied(src, p)
                /\ Pasted(p, is, top)[j].project = p
                /\ Pasted(p, is, top)[j].name = items[is[j]].name
                /\ ~Pasted(p, is, top)[j].isDefault
<1> DEFINE f == Pasted(p, is, top)
           n == Cardinality(Copied(src, p))
<1>1. n \in Nat
  <2>1. Copied(src, p) \in SUBSET (1..Len(items)) /\ Len(items) \in Nat
    BY DEF Copied, Active, Of, TypeOK
  <2> QED
    BY <2>1, SizeType
<1>2. DOMAIN is = 1..n /\ \A j \in 1..n : is[j] \in Copied(src, p) /\ is[j] \in DOMAIN items
  BY DEF Listed, Copied, Active, Of
<1>3. ASSUME NEW j \in 1..n
      PROVE  /\ f[j] \in Item /\ ~f[j].isDefault /\ f[j].project = p
             /\ f[j].name = items[is[j]].name
  <2>1. items[is[j]] \in Item
    BY <1>2 DEF TypeOK
  <2>2. items[is[j]].name \in Names /\ items[is[j]].closed \in BOOLEAN
    BY <2>1 DEF Item
  <2>3. top + j \in Int
    BY <1>1, MaxOrderType
  <2> DEFINE e == NewItem(p, items[is[j]].name, top + j, FALSE, items[is[j]].closed)
  <2>4. f[j] = e
    BY <1>2 DEF Pasted
  <2>5. e \in Item /\ ~e.isDefault /\ e.project = p
    BY <2>2, <2>3, FreshItem, Zenon
  <2>6. e.name = items[is[j]].name
    BY DEF NewItem
  <2> HIDE DEF e, f
  <2> QED
    BY <2>4, <2>5, <2>6, Zenon
<1>4. f \in [1..n -> Item]
  BY <1>2, <1>3 DEF Pasted
<1>5. f \in Seq(Item) /\ DOMAIN f = 1..n
  BY <1>1, <1>4, FunctionIsSeq, Zenon
<1> HIDE DEF f, n
<1> QED
  BY <1>2, <1>3, <1>5, Zenon DEF f

LEMMA CopyStep ==
    ASSUME IInv, NEW p \in Projects, NEW src \in created, CopyFromProject(src, p)
    PROVE  IInv'
<1>1. CASE src = p
  <2>1. Refuse("copy", p)
    BY <1>1, Zenon DEF CopyFromProject
  <2> QED
    BY <2>1, RefuseStep
<1>2. CASE src # p
  <2>1. PICK is \in Listed(Copied(src, p), Before), top \in MaxOrder(p) :
          items' = items \o Pasted(p, is, top)
    BY <1>2, Zenon DEF CopyFromProject
  <2>2. p \in created /\ created' = created /\ Answer("copy", p, TRUE)
    BY <1>2, Zenon DEF CopyFromProject
  <2> DEFINE f == Pasted(p, is, top)
  <2>3. /\ f \in Seq(Item)
        /\ \A j \in DOMAIN f : ~f[j].isDefault /\ f[j].project \in created
    <3>1. TypeOK
      BY DEF IInv
    <3>2. /\ f \in Seq(Item)
          /\ DOMAIN f = DOMAIN is
          /\ \A j \in DOMAIN is : f[j].project = p /\ ~f[j].isDefault
      BY <3>1, PastedRows
    <3> HIDE DEF f
    <3> QED
      BY <2>2, <3>2, Zenon
  <2> HIDE DEF f
  <2>4. items \in Seq(Item) /\ Extends(items, items)
    BY ExtendsItself DEF IInv, TypeOK
  <2>5. items \o f \in Seq(Item) /\ Extends(items, items \o f)
    BY <2>3, <2>4, ConcatExtends
  <2>6. items' = items \o f
    BY <2>1 DEF f
  <2>7. reply' \in Reply
    BY <2>2, AnswerType
  <2> QED
    BY <2>2, <2>5, <2>6, <2>7, ExtendsStep
<1> QED
  BY <1>1, <1>2

LEMMA ImportStep ==
    ASSUME IInv, NEW p \in Projects, NEW n \in Names, ImportName(p, n)
    PROVE  IInv'
<1> DEFINE same == {i \in Of(p) : Key[items[i].name] = Key[n]}
<1>1. p \in created /\ created' = created /\ Answer("import", p, TRUE)
  BY Zenon DEF ImportName
<1>2. reply' \in Reply
  BY <1>1, AnswerType
<1>3. CASE \E i \in same : items' = [items EXCEPT ![i].archived = FALSE]
  <2>1. PICK i \in same : items' = [items EXCEPT ![i].archived = FALSE]
    BY <1>3
  <2>2. i \in DOMAIN items
    BY DEF Of
  <2>3. items' \in Seq(Item) /\ Extends(items, items')
    BY <2>1, <2>2, ArchivedFlag
  <2> QED
    BY <1>1, <1>2, <2>3, ExtendsStep
<1>4. CASE \E top \in MaxOrder(p) :
             items' = Append(items, NewItem(p, n, top + 1, FALSE, FALSE))
  <2>1. PICK top \in MaxOrder(p) :
          items' = Append(items, NewItem(p, n, top + 1, FALSE, FALSE))
    BY <1>4
  <2> DEFINE e == NewItem(p, n, top + 1, FALSE, FALSE)
  <2>2. top + 1 \in Int
    BY MaxOrderType DEF IInv
  <2>3. e \in Item /\ ~e.isDefault /\ e.project = p
    BY <2>2, FreshItem
  <2> HIDE DEF e
  <2>4. items' = Append(items, e)
    BY <2>1 DEF e
  <2>5. items' \in Seq(Item) /\ Extends(items, items')
    BY <1>1, <2>3, <2>4, AppendExtends DEF IInv
  <2> QED
    BY <1>1, <1>2, <2>5, ExtendsStep
<1> QED
  BY <1>3, <1>4, Zenon DEF ImportName

\* createProject: the seeded items are the only ones of the new project, and
\* one of them is its default.
LEMMA CreateProjectStep ==
    ASSUME IInv, NEW p \in Projects, CreateProject(p)
    PROVE  IInv'
<1> DEFINE f == [k \in DOMAIN Defaults |->
                   NewItem(p, Defaults[k].name, k, Defaults[k].isDefault, Defaults[k].closed)]
<1>1. /\ p \notin created
      /\ created' = created \cup {p}
      /\ items' = items \o f
      /\ Answer("project", p, TRUE)
  BY Zenon DEF CreateProject, Seeded
<1>2. reply' \in Reply
  BY <1>1, AnswerType
<1>3. ASSUME NEW k \in DOMAIN Defaults
      PROVE  /\ f[k] \in Item
             /\ f[k].isDefault = Defaults[k].isDefault
             /\ f[k].project = p
             /\ f[k].archived = FALSE
  <2>1. Defaults \in Seq(DefaultSpec)
    BY MetadataAssumption, Zenon DEF MetadataAssumption
  <2>2. Defaults[k] \in DefaultSpec
    BY <2>1
  <2>3. k \in Int
    BY DefaultsType
  <2>4. /\ Defaults[k].name \in Names /\ Defaults[k].isDefault \in BOOLEAN
        /\ Defaults[k].closed \in BOOLEAN
    BY <2>2 DEF DefaultSpec
  <2> DEFINE e == NewItem(p, Defaults[k].name, k, Defaults[k].isDefault, Defaults[k].closed)
  <2>5. f[k] = e
    OBVIOUS
  <2>6. /\ e \in Item /\ e.isDefault = Defaults[k].isDefault
        /\ e.project = p /\ e.archived = FALSE
    <3> DEFINE dd == Defaults[k].isDefault
               cc == Defaults[k].closed
               nn == Defaults[k].name
    <3>1. nn \in Names /\ dd \in BOOLEAN /\ cc \in BOOLEAN
      BY <2>4
    <3> HIDE DEF dd, cc, nn
    <3>0. (cc /\ HasClosed) \in BOOLEAN
      OBVIOUS
    <3>2. /\ NewItem(p, nn, k, dd, cc) \in Item
          /\ NewItem(p, nn, k, dd, cc).isDefault = dd
          /\ NewItem(p, nn, k, dd, cc).project = p
          /\ NewItem(p, nn, k, dd, cc).archived = FALSE
      BY <2>3, <3>1, <3>0 DEF NewItem, Item
    <3> QED
      BY <3>2 DEF dd, cc, nn
  <2> HIDE DEF f, e
  <2> QED
    BY <2>5, <2>6, Zenon
<1>4. DOMAIN f = DOMAIN Defaults
  OBVIOUS
<1>5. f \in [1..Len(Defaults) -> Item]
  BY <1>3, <1>4, DefaultsType, Zenon
<1> HIDE DEF f
<1>6. f \in Seq(Item)
  BY <1>5, DefaultsType, FunctionIsSeq, Zenon
<1>7. /\ items \in Seq(Item)
      /\ \A i \in DOMAIN items : items[i].project \in created
  BY Zenon DEF IInv, TypeOK, AllOwned
<1>8. /\ items' \in Seq(Item)
      /\ DOMAIN items \subseteq DOMAIN items'
      /\ \A i \in DOMAIN items : items'[i] = items[i]
      /\ \A i \in DOMAIN items' \ DOMAIN items :
           \E k \in DOMAIN f : items'[i] = f[k] /\ i = Len(items) + k
  BY <1>1, <1>6, <1>7, ConcatItems
<1>9. TypeOK'
  BY <1>1, <1>2, <1>8 DEF IInv, TypeOK
<1>10. \A i \in DOMAIN items' \ DOMAIN items : items'[i].project = p
  BY <1>3, <1>4, <1>8, ZenonT(30)
<1>11. AllOwned'
  <2> SUFFICES ASSUME NEW i \in DOMAIN items' PROVE items'[i].project \in created'
    BY Zenon DEF AllOwned
  <2>1. CASE i \in DOMAIN items
    BY <1>1, <1>7, <1>8, <2>1
  <2>2. CASE i \notin DOMAIN items
    BY <1>1, <1>10, <2>2
  <2> QED
    BY <2>1, <2>2
<1>12. OneOf(items', p)
  <2>1. PICK d \in DOMAIN Defaults :
          \A l \in DOMAIN Defaults : Defaults[l].isDefault <=> l = d
    BY MetadataAssumption, Zenon DEF MetadataAssumption
  <2> DEFINE h == Len(items) + d
  <2>2. Len(items) \in Nat /\ d \in Nat \ {0} /\ d <= Len(Defaults)
    BY <1>7, DefaultsType
  <2>3. h \in DOMAIN items' /\ items'[h] = f[d]
    <3>1. /\ DOMAIN f = 1..Len(f) /\ Len(f) = Len(Defaults)
      BY <1>5, DefaultsType, FunctionIsSeq
    <3>2. h \in DOMAIN (items \o f) /\ (items \o f)[h] = f[d]
      BY <1>6, <1>7, <2>2, <3>1
    <3> QED
      BY <1>1, <3>2
  <2> HIDE DEF h
  <2>4. items'[h].project = p /\ items'[h].isDefault /\ ~items'[h].archived
    BY <1>3, <2>1, <2>3, Zenon
  <2>5. ASSUME NEW i \in DOMAIN items', items'[i].project = p, items'[i].isDefault
        PROVE  i = h
    <3>1. i \notin DOMAIN items
      BY <1>1, <1>7, <1>8, <2>5, Zenon
    <3>2. PICK k \in DOMAIN f : items'[i] = f[k] /\ i = Len(items) + k
      BY <1>8, <3>1, Zenon
    <3>3. Defaults[k].isDefault
      BY <1>3, <1>4, <2>5, <3>2, Zenon
    <3>4. k = d
      BY <1>4, <2>1, <3>3, Zenon
    <3> QED
      BY <3>2, <3>4 DEF h
  <2> QED
    BY <2>3, <2>4, <2>5, Zenon DEF OneOf
<1>13. ASSUME NEW q \in created PROVE OneOf(items', q)
  <2>1. q # p
    BY <1>1
  <2>2. PICK d \in DOMAIN items :
          /\ items[d].project = q
          /\ items[d].isDefault
          /\ ~items[d].archived
          /\ \A i \in DOMAIN items : items[i].project = q /\ items[i].isDefault => i = d
    BY Zenon DEF IInv, OneOf
  <2>3. /\ d \in DOMAIN items'
        /\ items'[d].project = q /\ items'[d].isDefault /\ ~items'[d].archived
    BY <1>8, <2>2, Zenon
  <2>4. ASSUME NEW i \in DOMAIN items', items'[i].project = q, items'[i].isDefault
        PROVE  i = d
    <3>1. i \in DOMAIN items
      BY <1>10, <2>1, <2>4, Zenon
    <3> QED
      BY <1>8, <2>2, <2>4, <3>1, Zenon
  <2> QED
    BY <2>3, <2>4, Zenon DEF OneOf
<1>14. \A q \in created' : OneOf(items', q)
  BY <1>1, <1>12, <1>13, Zenon
<1> QED
  BY <1>9, <1>11, <1>14, Zenon DEF IInv

-----------------------------------------------------------------------------
(* The theorems                                                            *)

LEMMA InvInit ==
    ASSUME Init
    PROVE  IInv
<1>1. TypeOK
  BY DEF Init, TypeOK, Reply
<1>2. AllOwned
  BY DEF Init, AllOwned
<1>3. \A p \in created : OneOf(items, p)
  BY DEF Init
<1> QED
  BY <1>1, <1>2, <1>3 DEF IInv

LEMMA InvStep ==
    ASSUME IInv, [Next]_vars
    PROVE  IInv'
<1>1. CASE UNCHANGED vars
  <2>1. items' = items /\ created' = created /\ reply' = reply
    BY <1>1 DEF vars
  <2> QED
    BY <2>1 DEF IInv, TypeOK, AllOwned, OneOf
<1>2. CASE Next
  <2>1. PICK p \in Projects :
          \/ CreateProject(p)
          \/ \E n \in Names, c \in BOOLEAN : CreateItem(p, n, c)
          \/ \E i \in 1..MaxItems, patch \in Patches : PatchItem(p, i, patch)
          \/ \E i \in 1..MaxItems : ArchiveItem(p, i)
          \/ ResetToDefaults(p)
          \/ \E src \in created : CopyFromProject(src, p)
          \/ \E n \in Names : ImportName(p, n)
    BY <1>2, Zenon DEF Next
  <2>2. CASE CreateProject(p)
    BY <2>2, CreateProjectStep
  <2>3. CASE \E n \in Names, c \in BOOLEAN : CreateItem(p, n, c)
    BY <2>3, CreateItemStep
  <2>4. CASE \E i \in 1..MaxItems, patch \in Patches : PatchItem(p, i, patch)
    <3>1. PICK i \in 1..MaxItems, patch \in Patches : PatchItem(p, i, patch)
      BY <2>4
    <3>2. p \in created /\ i \in DOMAIN items
      BY <3>1, Zenon DEF PatchItem
    <3>3. patch \in Patch
      BY MetadataAssumption DEF MetadataAssumption
    <3>4. CASE Fits(p, i, patch)
      BY <3>1, <3>2, <3>3, <3>4, PatchStep
    <3>5. CASE ~Fits(p, i, patch)
      <4>1. Refuse("patch", p)
        BY <3>1, <3>5, Zenon DEF PatchItem
      <4> QED
        BY <4>1, RefuseStep
    <3> QED
      BY <3>4, <3>5
  <2>5. CASE \E i \in 1..MaxItems : ArchiveItem(p, i)
    <3>1. PICK i \in 1..MaxItems : ArchiveItem(p, i)
      BY <2>5
    <3>2. i \in DOMAIN items
      BY <3>1, Zenon DEF ArchiveItem
    <3> QED
      BY <3>1, <3>2, ArchiveItemStep
  <2>6. CASE ResetToDefaults(p)
    BY <2>6, ResetStep
  <2>7. CASE \E src \in created : CopyFromProject(src, p)
    BY <2>7, CopyStep
  <2>8. CASE \E n \in Names : ImportName(p, n)
    BY <2>8, ImportStep
  <2> QED
    BY <2>1, <2>2, <2>3, <2>4, <2>5, <2>6, <2>7, <2>8, Zenon
<1> QED
  BY <1>1, <1>2

THEOREM Invariance == Spec => []IInv
<1>1. Init => IInv
  BY InvInit
<1>2. IInv /\ [Next]_vars => IInv'
  BY InvStep
<1> QED
  BY <1>1, <1>2, PTL DEF Spec

\* Type correctness of the metadata tables through every request.
THEOREM TypeCorrect == Spec => []TypeOK
<1>1. IInv => TypeOK
  BY DEF IInv
<1> QED
  BY <1>1, Invariance, PTL

\* In every reachable state every project has exactly one default, and it is
\* active: no sequence of rename, archive, default, reset, copy and import
\* requests leaves a project without a status for its next issue.
THEOREM AlwaysOneActiveDefault == Spec => []OneActiveDefault
<1>1. ASSUME IInv PROVE OneActiveDefault
  <2> SUFFICES ASSUME NEW p \in created
               PROVE  \E d \in Active(p) : Default(p) = {d}
    BY <1>1 DEF OneActiveDefault, IInv
  <2>1. PICK d \in DOMAIN items :
          /\ items[d].project = p
          /\ items[d].isDefault
          /\ ~items[d].archived
          /\ \A i \in DOMAIN items : items[i].project = p /\ items[i].isDefault => i = d
    BY <1>1, Zenon DEF IInv, OneOf
  <2>2. d \in Active(p)
    BY <2>1 DEF Active, Of
  <2>3. Default(p) = {d}
    BY <2>1 DEF Default, Of
  <2> QED
    BY <2>2, <2>3
<1> QED
  BY <1>1, Invariance, PTL

-----------------------------------------------------------------------------
(***************************************************************************)
(* What Metadata promises of the names, for every set of projects, names,  *)
(* defaults and PATCH bodies and every bound on the table.                 *)
(*                                                                         *)
(* NamesUnique is inductive once items belong to projects that exist       *)
(* (IInv): the rows a request appends have names of their own (Appended)   *)
(* and every other write but a rename leaves the names alone (SameNames).  *)
(* ResetRestores also needs that the Map of reset finds an item for every  *)
(* default name that some item has: of the items of one name, finitely     *)
(* many, one is listed last (LastListed).                                  *)
(***************************************************************************)

\* No two items of one project have the same name.
Distinct(its) ==
    \A i, j \in DOMAIN its :
        its[i].project = its[j].project /\ its[i].name = its[j].name => i = j

SameNames(its, new) ==
    /\ DOMAIN new = DOMAIN its
    /\ \A i \in DOMAIN its : new[i].project = its[i].project /\ new[i].name = its[i].name

LEMMA SameNamesDistinct ==
    ASSUME NEW its, NEW new, Distinct(its), SameNames(its, new)
    PROVE  Distinct(new)
  BY DEF Distinct, SameNames

LEMMA SameNamesTransitive ==
    ASSUME NEW a, NEW b, NEW c, SameNames(a, b), SameNames(b, c)
    PROVE  SameNames(a, c)
  BY Zenon DEF SameNames

\* Rows of the project p that can be appended to a table.
Appended(its, t, p) ==
    /\ \A k \in DOMAIN t : t[k].project = p
    /\ \A k, l \in DOMAIN t : t[k].name = t[l].name => k = l
    /\ \A i \in DOMAIN its, k \in DOMAIN t :
         its[i].project = p => its[i].name # t[k].name

LEMMA AppendedDistinct ==
    ASSUME NEW its \in Seq(Item), NEW t \in Seq(Item), NEW p,
           Distinct(its), Appended(its, t, p)
    PROVE  Distinct(its \o t)
<1> DEFINE new == its \o t
<1>1. /\ DOMAIN its \subseteq DOMAIN new
      /\ \A i \in DOMAIN its : new[i] = its[i]
      /\ \A i \in DOMAIN new \ DOMAIN its :
           \E k \in DOMAIN t : new[i] = t[k] /\ i = Len(its) + k
  BY ConcatItems
<1> HIDE DEF new
<1>2. SUFFICES ASSUME NEW i \in DOMAIN new, NEW j \in DOMAIN new,
                      new[i].project = new[j].project, new[i].name = new[j].name
               PROVE  i = j
  BY Zenon DEF Distinct, new
<1>3. CASE i \in DOMAIN its /\ j \in DOMAIN its
  BY <1>1, <1>2, <1>3, Zenon DEF Distinct
<1>4. CASE i \in DOMAIN its /\ j \notin DOMAIN its
  <2>1. PICK k \in DOMAIN t : new[j] = t[k]
    BY <1>1, <1>4, Zenon
  <2>2. its[i].project = p /\ its[i].name = t[k].name
    BY <1>1, <1>2, <1>4, <2>1, Zenon DEF Appended
  <2> QED
    BY <1>4, <2>2, Zenon DEF Appended
<1>5. CASE i \notin DOMAIN its /\ j \in DOMAIN its
  <2>1. PICK k \in DOMAIN t : new[i] = t[k]
    BY <1>1, <1>5, Zenon
  <2>2. its[j].project = p /\ its[j].name = t[k].name
    BY <1>1, <1>2, <1>5, <2>1, Zenon DEF Appended
  <2> QED
    BY <1>5, <2>2, Zenon DEF Appended
<1>6. CASE i \notin DOMAIN its /\ j \notin DOMAIN its
  <2>1. PICK k \in DOMAIN t : new[i] = t[k] /\ i = Len(its) + k
    BY <1>1, <1>6, Zenon
  <2>2. PICK l \in DOMAIN t : new[j] = t[l] /\ j = Len(its) + l
    BY <1>1, <1>6, Zenon
  <2>3. k = l
    BY <1>2, <2>1, <2>2, Zenon DEF Appended
  <2> QED
    BY <2>1, <2>2, <2>3, Zenon
<1> QED
  BY <1>3, <1>4, <1>5, <1>6, Zenon

\* Append is the concatenation of one row.
LEMMA AppendDistinct ==
    ASSUME NEW its \in Seq(Item), NEW e \in Item, Distinct(its),
           \A i \in DOMAIN its : its[i].project = e.project => its[i].name # e.name
    PROVE  Distinct(Append(its, e))
<1> DEFINE t == <<e>>
<1>1. t \in Seq(Item) /\ DOMAIN t = {1} /\ t[1] = e /\ Append(its, e) = its \o t
  OBVIOUS
<1> HIDE DEF t
<1>2. Appended(its, t, e.project)
  BY <1>1 DEF Appended
<1>3. Distinct(its \o t)
  BY <1>1, <1>2, AppendedDistinct
<1> QED
  BY <1>1, <1>3, Zenon

-----------------------------------------------------------------------------
(* The writes that keep names                                              *)

LEMMA ReorderedNames ==
    ASSUME NEW its \in Seq(Item), NEW i \in DOMAIN its, NEW o \in Int \cup {Absent}
    PROVE  SameNames(its, Reordered(its, i, o))
<1>1. \A j \in DOMAIN its : its[j] \in Item
  OBVIOUS
<1>2. CASE o = Absent
  BY <1>2 DEF Reordered, SameNames
<1>3. CASE o # Absent
  BY <1>1, <1>3 DEF Reordered, SameNames, Item
<1> QED
  BY <1>2, <1>3

LEMMA ClosedNames ==
    ASSUME NEW its \in Seq(Item), NEW i \in DOMAIN its, NEW c \in BOOLEAN \cup {Absent}
    PROVE  SameNames(its, Closed(its, i, c))
<1>1. \A j \in DOMAIN its : its[j] \in Item
  OBVIOUS
<1>2. CASE c = Absent
  BY <1>2 DEF Closed, SameNames
<1>3. CASE c # Absent
  BY <1>1, <1>3 DEF Closed, SameNames, Item
<1> QED
  BY <1>2, <1>3

LEMMA WithDefaultNames ==
    ASSUME NEW its \in Seq(Item), NEW p \in Projects, NEW i \in DOMAIN its
    PROVE  SameNames(its, WithDefault(its, p, i))
<1> DEFINE new == WithDefault(its, p, i)
<1>1. DOMAIN new = DOMAIN its
  BY DEF WithDefault
<1>2. ASSUME NEW j \in DOMAIN its
      PROVE  new[j].project = its[j].project /\ new[j].name = its[j].name
  <2>1. its[j] \in Item
    OBVIOUS
  <2>2. new[j] = its[j] \/ new[j] = [its[j] EXCEPT !.isDefault = (j = i)]
    BY DEF WithDefault
  <2> HIDE DEF new
  <2> QED
    BY <2>1, <2>2 DEF Item
<1> QED
  BY <1>1, <1>2, Zenon DEF SameNames

\* Renaming an item to a name the constraint lets it have.
LEMMA RenamedDistinct ==
    ASSUME TypeOK, NamesUnique, NEW i \in DOMAIN items, NEW n \in Names \cup {Absent},
           n # Absent => NameFree(items[i].project, n, i)
    PROVE  Distinct(Renamed(items, i, n))
<1>1. Distinct(items)
  BY Zenon DEF NamesUnique, Distinct
<1>2. CASE n = Absent
  BY <1>1, <1>2 DEF Renamed
<1>3. CASE n # Absent
  <2> DEFINE new == Renamed(items, i, n)
  <2>1. \A j \in DOMAIN items : items[j] \in Item
    BY DEF TypeOK
  <2>2. /\ DOMAIN new = DOMAIN items
        /\ \A j \in DOMAIN items : j # i => new[j] = items[j]
        /\ new[i] = [items[i] EXCEPT !.name = n]
    BY <1>3 DEF Renamed, TypeOK
  <2>3. new[i].project = items[i].project /\ new[i].name = n
    BY <2>1, <2>2 DEF Item
  <2>4. \A j \in DOMAIN items :
          items[j].project = items[i].project /\ items[j].name = n => j = i
    BY <1>3 DEF NameFree, Of
  <2> HIDE DEF new
  <2> QED
    BY <1>1, <2>2, <2>3, <2>4 DEF Distinct, new
<1> QED
  BY <1>2, <1>3

\* Archiving and unarchiving keep the names.
LEMMA ArchivedNames ==
    ASSUME TypeOK, NEW i \in DOMAIN items, NEW a \in BOOLEAN
    PROVE  SameNames(items, [items EXCEPT ![i].archived = a])
<1>1. \A j \in DOMAIN items : items[j] \in Item
  BY DEF TypeOK
<1> QED
  BY <1>1 DEF SameNames, TypeOK, Item

\* What reset does to an old item.
LEMMA RestoredItem ==
    ASSUME TypeOK, NEW p, NEW i \in DOMAIN items
    PROVE  /\ Restored(p)[i] \in {items[i], [items[i] EXCEPT !.archived = FALSE]}
           /\ Restored(p)[i].project = items[i].project
           /\ Restored(p)[i].name = items[i].name
           /\ (\E k \in DOMAIN Defaults : i \in FoundBy(p, Defaults[k].name))
                => ~Restored(p)[i].archived
<1>1. items[i] \in Item
  BY DEF TypeOK
<1>2. Restored(p)[i] =
        IF \E k \in DOMAIN Defaults : i \in FoundBy(p, Defaults[k].name)
          THEN [items[i] EXCEPT !.archived = FALSE] ELSE items[i]
  BY Zenon DEF Restored
<1>3. /\ [items[i] EXCEPT !.archived = FALSE].project = items[i].project
      /\ [items[i] EXCEPT !.archived = FALSE].name = items[i].name
      /\ ~[items[i] EXCEPT !.archived = FALSE].archived
  BY <1>1 DEF Item
<1>4. CASE \E k \in DOMAIN Defaults : i \in FoundBy(p, Defaults[k].name)
  <2>1. Restored(p)[i] = [items[i] EXCEPT !.archived = FALSE]
    BY <1>2, <1>4, Zenon
  <2> QED
    BY <1>3, <2>1, Zenon
<1>5. CASE ~\E k \in DOMAIN Defaults : i \in FoundBy(p, Defaults[k].name)
  <2>1. Restored(p)[i] = items[i]
    BY <1>2, <1>5, Zenon
  <2> QED
    BY <1>5, <2>1, Zenon
<1> QED
  BY <1>4, <1>5, Zenon

LEMMA RestoredNames ==
    ASSUME TypeOK, NEW p
    PROVE  SameNames(items, Restored(p))
<1>1. DOMAIN Restored(p) = DOMAIN items
  BY Zenon DEF Restored
<1> QED
  BY <1>1, RestoredItem, Zenon DEF SameNames

-----------------------------------------------------------------------------
(* One step per request                                                    *)

LEMMA CreateProjectNames ==
    ASSUME IInv, NamesUnique, NEW p \in Projects, CreateProject(p)
    PROVE  NamesUnique'
<1> DEFINE f == Seeded(p)
<1>1. /\ p \notin created
      /\ items' = items \o f
      /\ items' \in Seq(Item)
  <2>1. IInv'
    BY CreateProjectStep
  <2> QED
    BY <2>1, Zenon DEF CreateProject, IInv, TypeOK
<1>2. DOMAIN f = DOMAIN Defaults /\ DOMAIN Defaults = 1..Len(Defaults) /\ Len(Defaults) \in Nat
  BY DefaultsType DEF Seeded
<1>3. \A k \in DOMAIN f : f[k].project = p /\ f[k].name = Defaults[k].name
  BY <1>2 DEF Seeded, NewItem
<1>4. f \in Seq(Item)
  <2>1. ASSUME NEW k \in DOMAIN Defaults PROVE f[k] \in Item
    <3>1. Defaults[k] \in DefaultSpec
      <4>1. Defaults \in Seq(DefaultSpec)
        BY MetadataAssumption, Zenon DEF MetadataAssumption
      <4> QED
        BY <4>1
    <3>2. /\ Defaults[k].name \in Names /\ Defaults[k].isDefault \in BOOLEAN
          /\ (Defaults[k].closed /\ HasClosed) \in BOOLEAN /\ k \in Int
      BY <1>2, <3>1 DEF DefaultSpec
    <3>3. f[k] = NewItem(p, Defaults[k].name, k, Defaults[k].isDefault, Defaults[k].closed)
      BY DEF Seeded
    <3> HIDE DEF f
    <3> QED
      BY <3>2, <3>3 DEF NewItem, Item
  <2>2. f \in [1..Len(Defaults) -> Item]
    BY <1>2, <2>1 DEF Seeded
  <2> QED
    BY <1>2, <2>2, FunctionIsSeq, Zenon
<1> HIDE DEF f
<1>5. \A k, l \in DOMAIN Defaults : Defaults[k].name = Defaults[l].name => k = l
  BY MetadataAssumption, Zenon DEF MetadataAssumption
<1>6. \A i \in DOMAIN items : items[i].project # p
  BY <1>1, Zenon DEF IInv, AllOwned
<1>7. Appended(items, f, p)
  BY <1>2, <1>3, <1>5, <1>6, Zenon DEF Appended
<1>8. Distinct(items)
  BY Zenon DEF NamesUnique, Distinct
<1>9. Distinct(items')
  BY <1>1, <1>4, <1>7, <1>8, AppendedDistinct DEF IInv, TypeOK
<1> QED
  BY <1>9, Zenon DEF NamesUnique, Distinct

\* createItem and the importer append a row whose name is free.
LEMMA AppendedName ==
    ASSUME IInv, NamesUnique, NEW p \in Projects, NEW n \in Names, NEW o \in Int,
           NEW c \in BOOLEAN, \A i \in Of(p) : items[i].name # n,
           items' = Append(items, NewItem(p, n, o, FALSE, c))
    PROVE  NamesUnique'
<1> DEFINE e == NewItem(p, n, o, FALSE, c)
<1>1. e \in Item /\ e.project = p /\ e.name = n
  BY FreshItem DEF NewItem
<1> HIDE DEF e
<1>2. Distinct(items)
  BY Zenon DEF NamesUnique, Distinct
<1>3. \A i \in DOMAIN items : items[i].project = e.project => items[i].name # e.name
  BY <1>1 DEF Of
<1>4. Distinct(Append(items, e))
  BY <1>1, <1>2, <1>3, AppendDistinct DEF IInv, TypeOK
<1> QED
  BY <1>4, Zenon DEF NamesUnique, Distinct, e

LEMMA CreateItemNames ==
    ASSUME IInv, NamesUnique, NEW p \in Projects, NEW n \in Names, NEW c \in BOOLEAN,
           CreateItem(p, n, c)
    PROVE  NamesUnique'
<1>1. CASE NameFree(p, n, 0)
  <2>1. PICK top \in MaxOrder(p) :
          items' = Append(items, NewItem(p, n, top + 1, FALSE, c))
    BY <1>1, Zenon DEF CreateItem
  <2>2. top + 1 \in Int
    BY MaxOrderType DEF IInv
  <2>3. \A i \in Of(p) : items[i].name # n
    BY <1>1 DEF NameFree, Of, IInv, TypeOK
  <2> QED
    BY <2>1, <2>2, <2>3, AppendedName
<1>2. CASE ~NameFree(p, n, 0)
  <2>1. items' = items
    BY <1>2, Zenon DEF CreateItem, Refuse
  <2> QED
    BY <2>1 DEF NamesUnique
<1> QED
  BY <1>1, <1>2

LEMMA PatchNames ==
    ASSUME IInv, NamesUnique, NEW p \in Projects, NEW i \in DOMAIN items,
           NEW patch \in Patch, PatchItem(p, i, patch)
    PROVE  NamesUnique'
<1>1. CASE ~Fits(p, i, patch)
  <2>1. items' = items
    BY <1>1, Zenon DEF PatchItem, Refuse
  <2> QED
    BY <2>1 DEF NamesUnique
<1>2. CASE Fits(p, i, patch)
  <2> DEFINE named == Renamed(items, i, patch.name)
             moved == Reordered(named, i, patch.order)
             pointed == IF patch.isDefault THEN WithDefault(moved, p, i) ELSE moved
  <2>1. /\ TypeOK /\ items \in Seq(Item)
        /\ patch.name \in Names \cup {Absent} /\ patch.order \in Int \cup {Absent}
        /\ patch.closed \in BOOLEAN \cup {Absent}
    BY DEF IInv, TypeOK, Patch
  <2>2. items' = Closed(pointed, i, patch.closed)
    BY <1>2, Zenon DEF PatchItem
  <2>3. named \in Seq(Item) /\ i \in DOMAIN named
    BY <2>1, RenamedFlags DEF SameFlags
  <2>4. patch.name # Absent => NameFree(items[i].project, patch.name, i)
    BY <1>2, Zenon DEF Fits
  <2>5. Distinct(named)
    BY <2>1, <2>4, RenamedDistinct
  <2> HIDE DEF named
  <2>6. /\ moved \in Seq(Item) /\ i \in DOMAIN moved
        /\ SameNames(named, moved)
    <3>1. moved \in Seq(Item) /\ SameFlags(named, moved)
      BY <2>1, <2>3, ReorderedFlags
    <3>2. SameNames(named, moved)
      BY <2>1, <2>3, ReorderedNames
    <3> HIDE DEF moved
    <3> QED
      BY <2>3, <3>1, <3>2, Zenon DEF SameFlags
  <2> HIDE DEF moved
  <2>7. /\ pointed \in Seq(Item) /\ i \in DOMAIN pointed
        /\ SameNames(moved, pointed)
    <3>1. CASE patch.isDefault
      <4>1. pointed = WithDefault(moved, p, i)
        BY <3>1
      <4>2. /\ WithDefault(moved, p, i) \in Seq(Item)
            /\ DOMAIN WithDefault(moved, p, i) = DOMAIN moved
        BY <2>6, WithDefaultItems
      <4>3. SameNames(moved, WithDefault(moved, p, i))
        BY <2>6, WithDefaultNames
      <4> HIDE DEF pointed
      <4> QED
        BY <2>6, <4>1, <4>2, <4>3, Zenon
    <3>2. CASE ~patch.isDefault
      BY <2>6, <3>2 DEF SameNames
    <3> QED
      BY <3>1, <3>2
  <2> HIDE DEF pointed
  <2>8. SameNames(pointed, items')
    BY <2>1, <2>2, <2>7, ClosedNames
  <2>9. Distinct(items')
    <3>1. Distinct(moved)
      BY <2>5, <2>6, SameNamesDistinct
    <3>2. Distinct(pointed)
      BY <2>7, <3>1, SameNamesDistinct
    <3> QED
      BY <2>8, <3>2, SameNamesDistinct
  <2> QED
    BY <2>9, Zenon DEF NamesUnique, Distinct
<1> QED
  BY <1>1, <1>2

LEMMA ArchiveNames ==
    ASSUME IInv, NamesUnique, NEW p \in Projects, NEW i \in DOMAIN items, ArchiveItem(p, i)
    PROVE  NamesUnique'
<1>1. items' = items \/ items' = [items EXCEPT ![i].archived = TRUE]
  BY Zenon DEF ArchiveItem, Refuse
<1>2. SameNames(items, items')
  <2>1. CASE items' = items
    BY <2>1, Zenon DEF SameNames
  <2>2. CASE items' = [items EXCEPT ![i].archived = TRUE]
    BY <2>2, ArchivedNames DEF IInv
  <2> QED
    BY <1>1, <2>1, <2>2, Zenon
<1>3. Distinct(items)
  BY Zenon DEF NamesUnique, Distinct
<1>4. Distinct(items')
  BY <1>2, <1>3, SameNamesDistinct
<1> QED
  BY <1>4, Zenon DEF NamesUnique, Distinct

\* An ascending sequence lists nothing twice.
LEMMA AscendingOnce ==
    ASSUME NEW n \in Nat, NEW ks \in [1..n -> Int],
           \A j, l \in 1..n : j < l => ks[j] < ks[l]
    PROVE  \A j, l \in 1..n : ks[j] = ks[l] => j = l
<1>1. \A j \in 1..n : ks[j] \in Int
  OBVIOUS
<1>2. \A j, l \in 1..n : j = l \/ j < l \/ l < j
  OBVIOUS
<1> QED
  BY <1>1, <1>2

\* So reset enumerates the missing default names.
LEMMA MissingListed ==
    ASSUME NEW p, NEW ks \in Listed(Missing(p), <)
    PROVE  /\ DOMAIN ks = 1..Cardinality(Missing(p))
           /\ ks \in [DOMAIN ks -> Missing(p)]
           /\ \A j, l \in DOMAIN ks : ks[j] = ks[l] => j = l
<1> DEFINE n == Cardinality(Missing(p))
<1>1. n \in Nat /\ Missing(p) \subseteq Int
  <2>1. Missing(p) \in SUBSET (1..Len(Defaults)) /\ Len(Defaults) \in Nat
    BY DefaultsType DEF Missing
  <2>2. n \in Nat
    BY <2>1, SizeType, Zenon
  <2>3. Missing(p) \subseteq Int
    BY DefaultsType, Zenon DEF Missing
  <2> QED
    BY <2>2, <2>3, Zenon
<1>2. ks \in [1..n -> Missing(p)]
  BY Zenon DEF Listed
<1>3. DOMAIN ks = 1..n
  BY <1>2, Zenon
<1>4. \A j, l \in DOMAIN ks : j < l => ks[j] < ks[l]
  BY Zenon DEF Listed
<1>5. ks \in [1..n -> Int]
  <2> HIDE DEF n
  <2> QED
    BY <1>1, <1>2
<1> HIDE DEF n
<1>6. \A j, l \in 1..n : ks[j] = ks[l] => j = l
  BY <1>1, <1>3, <1>4, <1>5, AscendingOnce, Zenon
<1> QED
  BY <1>2, <1>3, <1>6, Zenon DEF n

\* The default names have different keys, and no item has the key of one that is
\* missing.
LEMMA ResetNames ==
    ASSUME IInv, NamesUnique, NEW p \in Projects, ResetToDefaults(p)
    PROVE  NamesUnique'
<1>1. PICK ks \in Listed(Missing(p), <) : items' = Restored(p) \o Recreated(p, ks)
  BY ResetWrites, Zenon
<1> DEFINE f == Recreated(p, ks)
           its == Restored(p)
<1>2. /\ f \in Seq(Item)
      /\ DOMAIN f = DOMAIN ks
      /\ \A j \in DOMAIN ks : ks[j] \in Missing(p)
      /\ \A j \in DOMAIN ks : f[j].project = p /\ f[j].name = Defaults[ks[j]].name
  <2>1. \A j \in DOMAIN ks : /\ ks[j] \in Missing(p)
                             /\ f[j].project = p
                             /\ f[j].name = Defaults[ks[j]].name
                             /\ ~f[j].isDefault
                             /\ ~f[j].archived
    BY RecreatedRows, Zenon
  <2>2. f \in Seq(Item) /\ DOMAIN f = DOMAIN ks
    BY RecreatedRows, ZenonT(30)
  <2> HIDE DEF f
  <2> QED
    BY <2>1, <2>2, Zenon
<1>3. its \in Seq(Item) /\ SameNames(items, its)
  BY RestoredExtends, RestoredNames DEF IInv
<1>4. Distinct(its)
  <2>1. Distinct(items)
    BY Zenon DEF NamesUnique, Distinct
  <2> QED
    BY <1>3, <2>1, SameNamesDistinct
<1>5. \A j, l \in DOMAIN ks : ks[j] = ks[l] => j = l
  BY MissingListed, Zenon
<1>6. ASSUME NEW j \in DOMAIN f, NEW l \in DOMAIN f, f[j].name = f[l].name
      PROVE  j = l
  <2>1. ks[j] \in DOMAIN Defaults /\ ks[l] \in DOMAIN Defaults
    BY <1>2 DEF Missing
  <2>2. Key[Defaults[ks[j]].name] = Key[Defaults[ks[l]].name]
    BY <1>2, <1>6, Zenon
  <2>3. ks[j] = ks[l]
    BY <2>1, <2>2, MetadataAssumption, Zenon DEF MetadataAssumption
  <2> QED
    BY <1>2, <1>5, <2>3, Zenon
<1> HIDE DEF f, its
<1>7. ASSUME NEW i \in DOMAIN its, NEW j \in DOMAIN f, its[i].project = p
      PROVE  its[i].name # f[j].name
  <2>1. i \in Of(p) /\ its[i].name = items[i].name
    BY <1>3, <1>7, Zenon DEF SameNames, Of
  <2>2. Key[items[i].name] # Key[Defaults[ks[j]].name]
    BY <1>2, <2>1, Zenon DEF Missing
  <2> QED
    BY <1>2, <2>1, <2>2, Zenon
<1>8. Appended(its, f, p)
  BY <1>2, <1>6, <1>7, Zenon DEF Appended
<1>9. Distinct(items')
  BY <1>1, <1>2, <1>3, <1>4, <1>8, AppendedDistinct DEF f, its
<1> QED
  BY <1>9, Zenon DEF NamesUnique, Distinct

\* The names of two active items of src differ, and no item of the project has
\* the key of one that is copied.
LEMMA CopyNames ==
    ASSUME IInv, NamesUnique, NEW p \in Projects, NEW src \in created,
           CopyFromProject(src, p)
    PROVE  NamesUnique'
<1>1. CASE src = p
  <2>1. items' = items
    BY <1>1, Zenon DEF CopyFromProject, Refuse
  <2> QED
    BY <2>1 DEF NamesUnique
<1>2. CASE src # p
  <2>1. PICK is \in Listed(Copied(src, p), Before), top \in MaxOrder(p) :
          items' = items \o Pasted(p, is, top)
    BY <1>2, Zenon DEF CopyFromProject
  <2> DEFINE f == Pasted(p, is, top)
  <2>2. /\ f \in Seq(Item)
        /\ DOMAIN f = DOMAIN is
        /\ \A j \in DOMAIN is : /\ is[j] \in Copied(src, p)
                                /\ f[j].project = p
                                /\ f[j].name = items[is[j]].name
    BY PastedRows DEF IInv
  <2> HIDE DEF f
  <2>3. \A j, l \in DOMAIN is : is[j] = is[l] => j = l
    <3>1. /\ DOMAIN is = 1..Cardinality(Copied(src, p))
          /\ \A j, l \in DOMAIN is : j < l => Before(is[j], is[l])
      BY DEF Listed
    <3>2. \A i \in DOMAIN items : i \in Int /\ items[i].order \in Int
      <4>1. \A i \in DOMAIN items : items[i] \in Item
        BY DEF IInv, TypeOK
      <4> QED
        BY <4>1 DEF Item, IInv, TypeOK
    <3>3. \A j \in DOMAIN is : j \in Int /\ is[j] \in DOMAIN items
      BY <2>2, <3>1 DEF Copied, Active, Of
    <3>4. ASSUME NEW i \in DOMAIN items PROVE ~Before(i, i)
      <4> DEFINE o == items[i].order
      <4>1. o \in Int /\ i \in Int
        BY <3>2
      <4>2. Before(i, i) <=> o < o \/ (o = o /\ i < i)
        BY Zenon DEF Before, Precedes
      <4> HIDE DEF o
      <4> QED
        BY <4>1, <4>2
    <3>5. \A j, l \in DOMAIN is : j = l \/ j < l \/ l < j
      <4>1. Copied(src, p) \in SUBSET (1..Len(items)) /\ Len(items) \in Nat
        BY DEF Copied, Active, Of, IInv, TypeOK
      <4>2. Cardinality(Copied(src, p)) \in Nat
        BY <4>1, SizeType
      <4> QED
        BY <3>1, <4>2
    <3> QED
      BY <3>1, <3>3, <3>4, <3>5, Zenon
  <2>4. ASSUME NEW j \in DOMAIN f, NEW l \in DOMAIN f, f[j].name = f[l].name
        PROVE  j = l
    <3>1. /\ is[j] \in DOMAIN items /\ items[is[j]].project = src
          /\ is[l] \in DOMAIN items /\ items[is[l]].project = src
      BY <2>2 DEF Copied, Active, Of
    <3>2. is[j] = is[l]
      BY <2>2, <2>4, <3>1, Zenon DEF NamesUnique
    <3> QED
      BY <2>2, <2>3, <3>2, Zenon
  <2>5. ASSUME NEW i \in DOMAIN items, NEW j \in DOMAIN f, items[i].project = p
        PROVE  items[i].name # f[j].name
    <3>1. Key[items[i].name] # Key[items[is[j]].name]
      BY <2>2, <2>5, Zenon DEF Copied, Of
    <3> QED
      BY <2>2, <3>1, Zenon
  <2>6. Appended(items, f, p)
    BY <2>2, <2>4, <2>5, Zenon DEF Appended
  <2>7. Distinct(items)
    BY Zenon DEF NamesUnique, Distinct
  <2>8. Distinct(items')
    BY <2>1, <2>2, <2>6, <2>7, AppendedDistinct DEF f, IInv, TypeOK
  <2> QED
    BY <2>8, Zenon DEF NamesUnique, Distinct
<1> QED
  BY <1>1, <1>2

LEMMA ImportNames ==
    ASSUME IInv, NamesUnique, NEW p \in Projects, NEW n \in Names, ImportName(p, n)
    PROVE  NamesUnique'
<1> DEFINE same == {i \in Of(p) : Key[items[i].name] = Key[n]}
<1>1. CASE \E i \in same : items' = [items EXCEPT ![i].archived = FALSE]
  <2>1. PICK i \in DOMAIN items : items' = [items EXCEPT ![i].archived = FALSE]
    BY <1>1 DEF Of
  <2>2. SameNames(items, items')
    BY <2>1, ArchivedNames DEF IInv
  <2>3. Distinct(items)
    BY Zenon DEF NamesUnique, Distinct
  <2>4. Distinct(items')
    BY <2>2, <2>3, SameNamesDistinct
  <2> QED
    BY <2>4, Zenon DEF NamesUnique, Distinct
<1>2. CASE /\ same = {}
           /\ \E top \in MaxOrder(p) :
                items' = Append(items, NewItem(p, n, top + 1, FALSE, FALSE))
  <2>1. PICK top \in MaxOrder(p) :
          items' = Append(items, NewItem(p, n, top + 1, FALSE, FALSE))
    BY <1>2, Zenon
  <2>2. top + 1 \in Int
    BY MaxOrderType DEF IInv
  <2>3. \A i \in Of(p) : items[i].name # n
    BY <1>2
  <2> QED
    BY <2>1, <2>2, <2>3, AppendedName
<1> QED
  BY <1>1, <1>2, Zenon DEF ImportName

LEMMA NamesStep ==
    ASSUME IInv, NamesUnique, [Next]_vars
    PROVE  NamesUnique'
<1>1. CASE UNCHANGED vars
  BY <1>1 DEF vars, NamesUnique
<1>2. CASE Next
  <2>1. PICK p \in Projects :
          \/ CreateProject(p)
          \/ \E n \in Names, c \in BOOLEAN : CreateItem(p, n, c)
          \/ \E i \in 1..MaxItems, patch \in Patches : PatchItem(p, i, patch)
          \/ \E i \in 1..MaxItems : ArchiveItem(p, i)
          \/ ResetToDefaults(p)
          \/ \E src \in created : CopyFromProject(src, p)
          \/ \E n \in Names : ImportName(p, n)
    BY <1>2, Zenon DEF Next
  <2>2. CASE CreateProject(p)
    BY <2>2, CreateProjectNames
  <2>3. CASE \E n \in Names, c \in BOOLEAN : CreateItem(p, n, c)
    BY <2>3, CreateItemNames
  <2>4. CASE \E i \in 1..MaxItems, patch \in Patches : PatchItem(p, i, patch)
    <3>1. PICK i \in 1..MaxItems, patch \in Patches : PatchItem(p, i, patch)
      BY <2>4
    <3>2. i \in DOMAIN items /\ patch \in Patch
      BY <3>1, MetadataAssumption, Zenon DEF PatchItem, MetadataAssumption
    <3> QED
      BY <3>1, <3>2, PatchNames
  <2>5. CASE \E i \in 1..MaxItems : ArchiveItem(p, i)
    <3>1. PICK i \in 1..MaxItems : ArchiveItem(p, i)
      BY <2>5
    <3>2. i \in DOMAIN items
      BY <3>1, Zenon DEF ArchiveItem
    <3> QED
      BY <3>1, <3>2, ArchiveNames
  <2>6. CASE ResetToDefaults(p)
    BY <2>6, ResetNames
  <2>7. CASE \E src \in created : CopyFromProject(src, p)
    BY <2>7, CopyNames
  <2>8. CASE \E n \in Names : ImportName(p, n)
    BY <2>8, ImportNames
  <2> QED
    BY <2>1, <2>2, <2>3, <2>4, <2>5, <2>6, <2>7, <2>8, Zenon
<1> QED
  BY <1>1, <1>2

\* No sequence of requests gives two items of a project the same name: none of
\* the rows that create, reset, copy and import insert, having compared names in
\* lower case or not, trips over the UNIQUE constraint.
THEOREM AlwaysNamesUnique == Spec => []NamesUnique
<1>1. Init => NamesUnique
  BY DEF Init, NamesUnique
<1>2. IInv /\ NamesUnique /\ [Next]_vars => NamesUnique'
  BY NamesStep
<1> QED
  BY <1>1, <1>2, Invariance, PTL DEF Spec

-----------------------------------------------------------------------------
(* Resets                                                                  *)

LEMMA ConcatEnd ==
    ASSUME NEW s \in Seq(Item), NEW t \in Seq(Item), NEW j \in DOMAIN t
    PROVE  /\ Len(s) + j \in DOMAIN (s \o t)
           /\ (s \o t)[Len(s) + j] = t[j]
  OBVIOUS

\* Of the items of one name in whatever case the Map of reset finds one: the list
\* order is total, so one of them has none behind it.
LEMMA LastListed ==
    ASSUME TypeOK, NEW p, NEW n, NEW h \in Of(p), Key[items[h].name] = Key[n]
    PROVE  FoundBy(p, n) # {}
<1> DEFINE D == DOMAIN items
           T == {i \in Of(p) : Key[items[i].name] = Key[n]}
           Behind(j) == {i \in T : Before(j, i)}
           F == {Behind(j) : j \in T}
<1>1. /\ D = 1..Len(items) /\ Len(items) \in Nat /\ T \subseteq D
      /\ \A i \in D : i \in Int /\ items[i].order \in Int
  <2>1. /\ D = 1..Len(items) /\ Len(items) \in Nat
        /\ \A i \in D : items[i] \in Item
    BY DEF TypeOK
  <2>2. T \subseteq D
    BY Zenon DEF Of
  <2> QED
    BY <2>1, <2>2 DEF Item
<1>2. ASSUME NEW i \in D, NEW j \in D, NEW k \in D
      PROVE  /\ ~Before(i, i)
             /\ i = j \/ Before(i, j) \/ Before(j, i)
             /\ Before(i, j) /\ Before(j, k) => Before(i, k)
  <2> DEFINE o(l) == items[l].order
  <2>1. \A l, m \in D : Before(l, m) <=> o(l) < o(m) \/ (o(l) = o(m) /\ l < m)
    BY Zenon DEF Before, Precedes
  <2>2. /\ o(i) \in Int /\ o(j) \in Int /\ o(k) \in Int
        /\ i \in Int /\ j \in Int /\ k \in Int
    BY <1>1
  <2> HIDE DEF o, D
  <2> QED
    BY <2>1, <2>2
<1> HIDE DEF D
<1>3. IsFiniteSet(D)
  <2>1. 1 \in Int /\ Len(items) \in Int
    BY <1>1
  <2> QED
    BY <1>1, <2>1, FS_Interval
<1>4. F \subseteq FiniteSubsetsOf(D) /\ F # {}
  <2>1. \A j \in T : Behind(j) \in SUBSET D
    BY <1>1, Zenon
  <2>2. F \subseteq SUBSET D
    BY <2>1, Zenon
  <2>3. h \in T
    BY Zenon
  <2>4. F # {}
    BY <2>3, Zenon
  <2>5. FiniteSubsetsOf(D) = SUBSET D
    BY <1>3, FS_FiniteSubsetsOfFinite
  <2> QED
    BY <2>2, <2>4, <2>5, Zenon
<1>5. IsWellFoundedOn(StrictSubsetOrdering(D), FiniteSubsetsOf(D))
  BY FS_StrictSubsetOrderingWellFounded
<1>6. PICK u \in F : \A v \in F : ~(<<v, u>> \in StrictSubsetOrdering(D))
  <2> HIDE DEF F
  <2> QED
    BY <1>4, <1>5, WFMin
<1>7. PICK j \in T : u = Behind(j)
  BY <1>6, Zenon
<1>8. ASSUME NEW i \in T, i # j PROVE Before(i, j)
  <2>1. SUFFICES ASSUME ~Before(i, j) PROVE FALSE
    BY Zenon
  <2>2. i \in D /\ j \in D
    BY <1>1, Zenon
  <2>3. Before(j, i)
    BY <1>2, <1>8, <2>1, <2>2, Zenon
  <2>4. i \in Behind(j) /\ i \notin Behind(i)
    BY <1>2, <2>2, <2>3, Zenon
  <2>5. Behind(i) \subseteq Behind(j)
    BY <1>1, <1>2, <2>2, <2>3, Zenon
  <2>6. Behind(i) \in SUBSET D /\ Behind(j) \in SUBSET D
    BY <1>1, Zenon
  <2>7. <<Behind(i), Behind(j)>> \in StrictSubsetOrdering(D)
    BY <2>4, <2>5, <2>6 DEF StrictSubsetOrdering
  <2>8. Behind(i) \in F
    BY Zenon
  <2> HIDE DEF F, Behind
  <2> QED
    BY <1>6, <1>7, <2>7, <2>8, Zenon
<1>9. j \in FoundBy(p, n)
  BY <1>8, Zenon DEF FoundBy
<1> QED
  BY <1>9, Zenon

LEMMA IntervalSize ==
    ASSUME NEW n \in Nat
    PROVE  IsFiniteSet(1..n) /\ Cardinality(1..n) = n
<1>1. 1 \in Int /\ n \in Int
  OBVIOUS
<1>2. IsFiniteSet(1..n) /\ Cardinality(1..n) = (IF 1 > n THEN 0 ELSE n - 1 + 1)
  BY <1>1, FS_Interval
<1> QED
  BY <1>2

LEMMA MissingSize ==
    ASSUME NEW p
    PROVE  IsFiniteSet(Missing(p)) /\ Cardinality(Missing(p)) \in Nat
<1>1. Missing(p) \in SUBSET (1..Len(Defaults)) /\ Len(Defaults) \in Nat
  BY DefaultsType DEF Missing
<1> QED
  BY <1>1, SizeType

\* Every missing default name is enumerated.
LEMMA MissingAllListed ==
    ASSUME NEW p, NEW ks \in Listed(Missing(p), <), NEW k \in Missing(p)
    PROVE  \E j \in DOMAIN ks : ks[j] = k
<1> DEFINE S == Missing(p)
           n == Cardinality(S)
           D == 1..n
<1>1. IsFiniteSet(S) /\ n \in Nat
  BY MissingSize, Zenon
<1>2. IsFiniteSet(D) /\ Cardinality(D) = n
  BY <1>1, IntervalSize, Zenon
<1>3. ks \in [D -> S] /\ \A j, l \in D : ks[j] = ks[l] => j = l
  BY MissingListed, Zenon
<1> HIDE DEF S, n, D
<1>4. ks \in Injection(D, S)
  BY <1>3, Zenon DEF Injection, IsInjective
<1>5. ks \in Surjection(D, S)
  BY <1>1, <1>2, <1>4, FS_Injection, Zenon DEF n
<1>6. k \in S /\ DOMAIN ks = D
  BY <1>3, Zenon DEF S
<1> QED
  BY <1>5, <1>6, Zenon DEF Surjection

LEMMA ResetRestoresStep ==
    ASSUME IInv, NEW p \in Projects, ResetToDefaults(p)
    PROVE  Restores
<1>1. PICK ks \in Listed(Missing(p), <) :
        /\ items' = Restored(p) \o Recreated(p, ks)
        /\ items' \in Seq(Item)
  BY ResetWrites, Zenon
<1> DEFINE f == Recreated(p, ks)
           its == Restored(p)
<1>2. reply'.project = p
  BY DEF ResetToDefaults, Answer
<1>3. TypeOK /\ its \in Seq(Item) /\ DOMAIN its = DOMAIN items
  BY RestoredExtends, RestoredNames, Zenon DEF IInv, SameNames
<1>4. /\ f \in Seq(Item)
      /\ DOMAIN f = DOMAIN ks
      /\ \A j \in DOMAIN ks : /\ f[j].project = p
                               /\ f[j].name = Defaults[ks[j]].name
                               /\ ~f[j].archived
  <2>1. \A j \in DOMAIN ks : /\ ks[j] \in Missing(p)
                             /\ f[j].project = p
                             /\ f[j].name = Defaults[ks[j]].name
                             /\ ~f[j].isDefault
                             /\ ~f[j].archived
    BY RecreatedRows, Zenon
  <2>2. f \in Seq(Item) /\ DOMAIN f = DOMAIN ks
    BY RecreatedRows, ZenonT(30)
  <2> HIDE DEF f
  <2> QED
    BY <2>1, <2>2, Zenon
<1> HIDE DEF f
<1>5. /\ DOMAIN its \subseteq DOMAIN items'
      /\ \A i \in DOMAIN its : items'[i] = its[i]
      /\ \A j \in DOMAIN f : Len(its) + j \in DOMAIN items' /\ items'[Len(its) + j] = f[j]
  <2>1. items' = its \o f
    BY <1>1, Zenon DEF f
  <2> HIDE DEF its
  <2>2. \A j \in DOMAIN f : /\ Len(its) + j \in DOMAIN (its \o f)
                            /\ (its \o f)[Len(its) + j] = f[j]
    BY <1>3, <1>4, ConcatEnd, Zenon
  <2> QED
    BY <1>3, <1>4, <2>1, <2>2, ConcatItems, Zenon
<1>6. ASSUME NEW k \in DOMAIN Defaults
      PROVE  \E i \in DOMAIN items' :
                /\ items'[i].project = p
                /\ ~items'[i].archived
                /\ Key[items'[i].name] = Key[Defaults[k].name]
  <2>1. CASE k \in Missing(p)
    <3>1. PICK j \in DOMAIN ks : ks[j] = k
      BY <2>1, MissingAllListed, Zenon
    <3> DEFINE i == Len(its) + j
    <3>2. i \in DOMAIN items' /\ items'[i] = f[j]
      BY <1>4, <1>5, Zenon
    <3> HIDE DEF i
    <3>3. items'[i].project = p /\ ~items'[i].archived /\ items'[i].name = Defaults[k].name
      BY <1>4, <3>1, <3>2, Zenon
    <3> QED
      BY <3>2, <3>3, Zenon
  <2>2. CASE k \notin Missing(p)
    <3>1. PICK h \in Of(p) : Key[items[h].name] = Key[Defaults[k].name]
      BY <2>2, Zenon DEF Missing
    <3>2. PICK i \in FoundBy(p, Defaults[k].name) : TRUE
      BY <1>3, <3>1, LastListed, Zenon
    <3>3. /\ i \in DOMAIN items /\ items[i].project = p
          /\ Key[items[i].name] = Key[Defaults[k].name]
      BY <3>2, Zenon DEF FoundBy, Of
    <3>4. /\ its[i].project = p /\ its[i].name = items[i].name /\ ~its[i].archived
      BY <1>3, <3>2, <3>3, RestoredItem, ZenonT(30)
    <3> HIDE DEF its
    <3> QED
      BY <1>3, <1>5, <3>3, <3>4, Zenon
  <2> QED
    BY <2>1, <2>2, Zenon
<1>7. \A i \in DOMAIN items : items'[i] \in {items[i], [items[i] EXCEPT !.archived = FALSE]}
  BY <1>3, <1>5, RestoredItem, Zenon
<1> QED
  BY <1>2, <1>6, <1>7, Zenon DEF Restores

\* Every reset leaves an active item for each default name, in some case, and
\* changes nothing else about the items the project had.
THEOREM AlwaysResetRestores == Spec => ResetRestores
<1>1. IInv /\ [Next]_vars => [Restores]_vars
  <2>1. SUFFICES ASSUME IInv, Next, reply'.op = "reset" PROVE Restores
    BY Zenon DEF Restores
  <2>2. PICK p \in Projects :
          \/ CreateProject(p)
          \/ \E n \in Names, c \in BOOLEAN : CreateItem(p, n, c)
          \/ \E i \in 1..MaxItems, patch \in Patches : PatchItem(p, i, patch)
          \/ \E i \in 1..MaxItems : ArchiveItem(p, i)
          \/ ResetToDefaults(p)
          \/ \E src \in created : CopyFromProject(src, p)
          \/ \E n \in Names : ImportName(p, n)
    BY <2>1, Zenon DEF Next
  <2>3. ResetToDefaults(p)
    <3>1. CreateProject(p) => reply'.op = "project"
      BY DEF CreateProject, Answer
    <3>2. ASSUME NEW n, NEW c, CreateItem(p, n, c) PROVE reply'.op = "create"
      <4>1. \E ok : Answer("create", p, ok)
        BY <3>2, Zenon DEF CreateItem, Refuse
      <4> QED
        BY <4>1 DEF Answer
    <3>3. ASSUME NEW i, NEW patch, PatchItem(p, i, patch) PROVE reply'.op = "patch"
      <4>1. \E ok : Answer("patch", p, ok)
        BY <3>3, Zenon DEF PatchItem, Refuse
      <4> QED
        BY <4>1 DEF Answer
    <3>4. ASSUME NEW i, ArchiveItem(p, i) PROVE reply'.op = "archive"
      <4>1. \E ok : Answer("archive", p, ok)
        BY <3>4, Zenon DEF ArchiveItem, Refuse
      <4> QED
        BY <4>1 DEF Answer
    <3>5. ASSUME NEW src, CopyFromProject(src, p) PROVE reply'.op = "copy"
      <4>1. \E ok : Answer("copy", p, ok)
        BY <3>5, Zenon DEF CopyFromProject, Refuse
      <4> QED
        BY <4>1 DEF Answer
    <3>6. ASSUME NEW n, ImportName(p, n) PROVE reply'.op = "import"
      <4>1. \E ok : Answer("import", p, ok)
        BY <3>6, Zenon DEF ImportName, Refuse
      <4> QED
        BY <4>1 DEF Answer
    <3>7. /\ "reset" # "project" /\ "reset" # "create" /\ "reset" # "patch"
          /\ "reset" # "archive" /\ "reset" # "copy" /\ "reset" # "import"
      OBVIOUS
    <3> QED
      BY <2>1, <2>2, <3>1, <3>2, <3>3, <3>4, <3>5, <3>6, <3>7, Zenon
  <2> QED
    BY <2>1, <2>3, ResetRestoresStep
<1> QED
  BY <1>1, Invariance, PTL DEF Spec, ResetRestores
=============================================================================
