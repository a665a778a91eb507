-------------------------- MODULE PagesProofs --------------------------
(***************************************************************************)
(* Two pages of the client: the issue page (IssueDetail) and the issue     *)
(* list (IssueList), whose definitions have names of their own.            *)
(*                                                                         *)
(* What one issue page promises, however many of its handlers await        *)
(* answers at the same time, in whatever order these arrive, whatever      *)
(* fails and whatever other users do.                                      *)
(*                                                                         *)
(* Neither "settled shows own writes" nor "never goes back" is inductive:  *)
(* both are about the answer that comes last, and the page drops answers.  *)
(* The invariant counts the GETs: two under way never have the same        *)
(* number, the newest was answered after what is shown was (Ahead), and    *)
(* what was acknowledged is on the page or will be, by the newest GET or   *)
(* by uploads that are followed by one (Own).  That a handler writes only  *)
(* once the page is loaded (Loaded), that no flag is shared (Alone), that  *)
(* nothing is newer than the server (Past) and that a patch is what its    *)
(* user typed (Patches) is what these rest on.  Of the watch button, whose *)
(* toggle has no number: what crosses no toggle was answered after the     *)
(* watch state on show was (Fresh), since what is under way beside a       *)
(* toggle crosses it (Apart).                                              *)
(*                                                                         *)
(* Of the list: that what has settled is the list of the filters and the   *)
(* page wanted now.  An answer is taken up long after it was asked for, so *)
(* the invariant says what the newest request asks for (Wanted), what its  *)
(* answer says (Truthful) and what the list on show is (OnShow), unless a  *)
(* debounced fetch is due.  Restorable says how the URL and storage have   *)
(* the filters between them: the URL has only those that are not defaults. *)
(***************************************************************************)
EXTENDS IssueDetail, IssueList, FiniteSetTheorems, TLAPS

\* Every handler is one, every flag is that of a handler, every GET has a number.
Typed ==
    /\ calls \in [Calls -> Call \cup {None}]
    /\ busy \subseteq Flagged
    /\ busy = {calls[c].kind : c \in {d \in Calls : calls[d] # None}} \cap Flagged
    /\ \A c \in Calls : calls[c] # None /\ calls[c].at = "get" => calls[c].seq \in 1..seq
    /\ seq \in Nat

\* The rest of the type invariant.
PageTyped ==
    /\ server \in Snapshot /\ issue \in Snapshot \cup {None} /\ failed \in BOOLEAN
    /\ pendingPatch \in [Fields -> Values \cup {None}] /\ note \in BOOLEAN
    /\ typed \in BOOLEAN /\ staged \in BOOLEAN
    /\ acked \in 0..server.rev
    /\ {starts, edits, elsewhere, faults} \subseteq Nat

\* A handler that sets a flag is not started again before it ends.
Alone ==
    \A c, d \in Calls :
        /\ calls[c] # None /\ calls[d] # None
        /\ calls[c].kind = calls[d].kind /\ calls[c].kind \in Flagged
        => c = d

\* The first load only reads, and all else waits for it.
Loaded ==
    \A c \in Calls : calls[c] # None =>
        /\ calls[c].kind = "load" => calls[c].at = "get"
        /\ calls[c].kind # "load" => issue # None

\* A patch holds what its user typed.
Patches ==
    /\ pendingPatch \in [Fields -> Mine \cup {None}]
    /\ \A c \in Calls : calls[c] # None => calls[c].patch \in [Fields -> Mine \cup {None}]

\* What is shown or arrives is the issue of now or of before.
Past ==
    /\ issue # None => issue.rev <= server.rev
    /\ \A c \in Calls : calls[c] # None =>
         /\ calls[c].answer = "ok" => calls[c].got # None /\ calls[c].got.rev <= server.rev
         /\ calls[c].answer = "error" => faults # 0

\* Of the GETs under way one at most is the newest, and it was answered after
\* what is shown was.
Ahead ==
    /\ \A c, d \in Calls :
         /\ calls[c] # None /\ calls[c].at = "get" /\ calls[d] # None /\ calls[d].at = "get"
         /\ calls[c].seq = calls[d].seq
         => c = d
    /\ \A c \in Calls :
         /\ calls[c] # None /\ calls[c].at = "get" /\ calls[c].seq = seq
         /\ calls[c].answer = "ok" /\ issue # None
         => issue.rev <= calls[c].got.rev

\* Files on their way, which are followed by a GET.
Uploading == \E c \in Calls : calls[c] # None /\ calls[c].at = "files"

\* The newest GET, which brings what was acknowledged.
Coming ==
    \E c \in Calls :
        /\ calls[c] # None /\ calls[c].at = "get" /\ calls[c].seq = seq
        /\ calls[c].answer = "none" \/ (calls[c].answer = "ok" /\ calls[c].got.rev >= acked)

\* What was acknowledged is shown, or will be.
Own == faults = 0 => Uploading \/ Coming \/ (issue # None /\ issue.rev >= acked)

\* What the page or a handler knows of the watch state is that of now or before.
Seen ==
    /\ issue # None => issue.wrev <= server.wrev
    /\ \A c \in Calls : calls[c] # None /\ calls[c].answer = "ok" => calls[c].got.wrev <= server.wrev

\* A watch toggle and what is under way beside it cross.
Apart ==
    \A c, d \in Calls :
        c # d /\ calls[c] # None /\ calls[d] # None /\ calls[d].kind = "watch"
        => c \in crossing /\ d \in crossing

\* What crosses no toggle, or is one that crosses nothing, was answered after the
\* watch state on show was.
Fresh ==
    \A c \in Calls :
        /\ calls[c] # None /\ calls[c].answer = "ok" /\ c \notin crossing /\ issue # None
        /\ \/ calls[c].at = "get" /\ calls[c].seq = seq
           \/ calls[c].at = "write" /\ calls[c].kind = "watch"
        => issue.wrev <= calls[c].got.wrev

\* The invariant of the watch button.
Watched == crossing \subseteq Calls /\ Seen /\ Apart /\ Fresh

IInv ==
    /\ Typed /\ PageTyped
    /\ Alone /\ Loaded /\ Patches /\ Past /\ Ahead /\ Own
-----------------------------------------------------------------------------
(* Handlers                                                                *)

\* The fields of a handler that is under way.
LEMMA CallType ==
    ASSUME Typed, NEW c \in Calls, calls[c] # None
    PROVE  /\ calls[c] \in Call
           /\ calls[c].kind \in Kinds \cup {"load"} /\ calls[c].on \in BOOLEAN
           /\ calls[c].patch \in [Fields -> Values \cup {None}]
           /\ calls[c].got # None => calls[c].got \in Snapshot /\ calls[c].got.rev \in Nat
  BY DEF Typed, Call, Snapshot

\* What the steps make of a handler is a handler: when it is answered,
LEMMA AnsweredCall ==
    ASSUME NEW k \in Call, NEW g \in Snapshot
    PROVE  LET l == [k EXCEPT !.answer = "ok", !.got = g]
           IN  /\ l \in Call /\ l.kind = k.kind /\ l.at = k.at /\ l.seq = k.seq
               /\ l.patch = k.patch /\ l.answer = "ok" /\ l.got = g
  BY DEF Call

\* So it is when its request fails,
LEMMA FailedCall ==
    ASSUME NEW k \in Call
    PROVE  LET l == [k EXCEPT !.answer = "error"]
           IN  /\ l \in Call /\ l.kind = k.kind /\ l.at = k.at /\ l.seq = k.seq
               /\ l.patch = k.patch /\ l.answer = "error"
  BY DEF Call

\* when it goes on to its GET,
LEMMA RefetchingCall ==
    ASSUME NEW k \in Call, NEW n \in Nat
    PROVE  LET l == [k EXCEPT !.at = "get", !.seq = n, !.answer = "none"]
           IN  /\ l \in Call /\ l.kind = k.kind /\ l.at = "get" /\ l.seq = n
               /\ l.patch = k.patch /\ l.answer = "none"
  BY DEF Call

\* when it does so after its uploads,
LEMMA SentCall ==
    ASSUME NEW k \in Call, NEW n \in Nat
    PROVE  LET l == [k EXCEPT !.at = "get", !.seq = n, !.answer = "none", !.sent = TRUE]
           IN  /\ l \in Call /\ l.kind = k.kind /\ l.at = "get" /\ l.seq = n
               /\ l.patch = k.patch /\ l.answer = "none"
  BY DEF Call

\* and when it goes on to its uploads.
LEMMA UploadingCall ==
    ASSUME NEW k \in Call
    PROVE  LET l == [k EXCEPT !.at = "files"]
           IN  /\ l \in Call /\ l.kind = k.kind /\ l.at = "files"
               /\ l.patch = k.patch /\ l.answer = k.answer /\ l.got = k.got
  BY DEF Call

\* A handler that goes on remains what it is.
LEMMA GoesOn ==
    ASSUME IInv, NEW c \in Calls, calls[c] # None, NEW l \in Call,
           l.kind = calls[c].kind, l.patch = calls[c].patch, l.kind = "load" => l.at = "get",
           l.at = "get" => l.seq \in 1..seq', seq' \in Nat, seq <= seq', busy' = busy,
           calls' = [calls EXCEPT ![c] = l],
           issue # None => issue' # None, pendingPatch' \in [Fields -> Mine \cup {None}]
    PROVE  /\ calls'[c] = l /\ calls'[c] # None
           /\ \A d \in Calls : d # c => calls'[d] = calls[d]
           /\ Typed' /\ Alone' /\ Loaded' /\ Patches'
<1>1. calls \in [Calls -> Call \cup {None}] /\ seq \in Nat
  BY DEF IInv, Typed, PageTyped
<1>2. /\ calls'[c] = l /\ calls'[c] # None
      /\ \A d \in Calls : d # c => calls'[d] = calls[d]
  BY <1>1, NoneAssumption
<1>3. \A d \in Calls : /\ calls'[d] # None <=> calls[d] # None
                       /\ calls'[d] # None => calls'[d].kind = calls[d].kind
                                              /\ calls'[d].patch = calls[d].patch
  BY <1>2
<1>4. Typed'
  <2>1. busy = {calls'[d].kind : d \in {e \in Calls : calls'[e] # None}} \cap Flagged
    BY <1>3 DEF IInv, Typed, PageTyped
  <2>2. \A d \in Calls : calls'[d] # None /\ calls'[d].at = "get" => calls'[d].seq \in 1..seq'
    BY <1>1, <1>2 DEF IInv, Typed, PageTyped
  <2>3. calls' \in [Calls -> Call \cup {None}]
    BY <1>1
  <2> QED
    BY <2>1, <2>2, <2>3 DEF IInv, PageTyped, Typed
<1>5. Alone'
  BY <1>3 DEF IInv, Alone
<1>6. Loaded'
  BY <1>2 DEF IInv, Loaded
<1>7. Patches'
  BY <1>3 DEF IInv, Patches
<1> QED
  BY <1>2, <1>4, <1>5, <1>6, <1>7

\* A handler that ends takes its flag with it.
LEMMA EndsWell ==
    ASSUME IInv, NEW c \in Calls, calls[c] # None, busy' = busy \ {calls[c].kind},
           calls' = [calls EXCEPT ![c] = None], seq' = seq,
           issue # None => issue' # None, pendingPatch' \in [Fields -> Mine \cup {None}]
    PROVE  /\ calls'[c] = None
           /\ \A d \in Calls : d # c => calls'[d] = calls[d]
           /\ Typed' /\ Alone' /\ Loaded' /\ Patches'
<1>1. calls \in [Calls -> Call \cup {None}] /\ seq \in Nat
  BY DEF IInv, Typed, PageTyped
<1>2. /\ calls'[c] = None
      /\ \A d \in Calls : d # c => calls'[d] = calls[d]
  BY <1>1
<1>3. Typed'
  <2>1. busy' = {calls'[d].kind : d \in {e \in Calls : calls'[e] # None}} \cap Flagged
    <3>1. busy = {calls[d].kind : d \in {e \in Calls : calls[e] # None}} \cap Flagged
      BY DEF IInv, Typed, PageTyped
    <3>2. \A d \in Calls : d # c /\ calls[d] # None /\ calls[d].kind \in Flagged =>
              calls[d].kind # calls[c].kind
      BY DEF IInv, Alone
    <3> QED
      BY <1>2, <3>1, <3>2
  <2>2. \A d \in Calls : calls'[d] # None /\ calls'[d].at = "get" => calls'[d].seq \in 1..seq'
    BY <1>2 DEF IInv, Typed, PageTyped
  <2>3. calls' \in [Calls -> Call \cup {None}]
    BY <1>1
  <2> QED
    BY <1>1, <2>1, <2>2, <2>3 DEF IInv, PageTyped, Typed
<1>4. Alone'
  BY <1>2 DEF IInv, Alone
<1>5. Loaded'
  BY <1>2 DEF IInv, Loaded
<1>6. Patches'
  BY <1>2 DEF IInv, Patches
<1> QED
  BY <1>2, <1>3, <1>4, <1>5, <1>6

-----------------------------------------------------------------------------
(* The user and other users                                                *)

\* Steps that leave the handlers and the numbers alone.
LEMMA SameHandlers ==
    ASSUME IInv, UNCHANGED <<calls, busy, seq>>, issue # None => issue' # None,
           pendingPatch' \in [Fields -> Mine \cup {None}]
    PROVE  Typed' /\ Alone' /\ Loaded' /\ Patches'
  BY DEF IInv, PageTyped, Typed, Alone, Loaded, Patches

\* What the user does before the page sends anything.
LEMMA PageKeeps ==
    ASSUME IInv,
           \/ \E f \in Fields, v \in Mine : Commit(f, v)
           \/ \E f \in Fields : Shown /\ Commit(f, issue.field[f])
           \/ Discard
           \/ Type
    PROVE  IInv'
<1> USE DEF Commit, Discard, Type, Counts, Render
<1>1. UNCHANGED <<server, issue, failed, calls, busy, seq, acked, starts, elsewhere, faults>>
  OBVIOUS
<1>2. edits' \in Nat /\ typed' \in BOOLEAN /\ staged' \in BOOLEAN /\ note' \in BOOLEAN
  <2>1. edits' = edits \/ edits' = edits + 1
    OBVIOUS
  <2>2. /\ typed' = typed \/ typed' = TRUE \/ typed' = FALSE
        /\ staged' = staged \/ staged' = TRUE \/ staged' = FALSE
        /\ note' = note \/ note' = TRUE \/ note' = FALSE
    OBVIOUS
  <2>3. edits \in Nat /\ typed \in BOOLEAN /\ staged \in BOOLEAN /\ note \in BOOLEAN
    BY DEF IInv, PageTyped
  <2>4. edits' \in Nat
    BY <2>1, <2>3
  <2>5. typed' \in BOOLEAN /\ staged' \in BOOLEAN
    BY <2>2, <2>3
  <2>6. note' \in BOOLEAN
    BY <2>2, <2>3
  <2> QED
    BY <2>4, <2>5, <2>6
<1>3. pendingPatch' \in [Fields -> Mine \cup {None}]
  <2>1. pendingPatch \in [Fields -> Mine \cup {None}]
    BY DEF IInv, Patches
  <2> QED
    BY <2>1 DEF Empty
<1>4. PageTyped'
  BY <1>1, <1>2, <1>3 DEF IInv, Typed, PageTyped, Values
<1>5. Past' /\ Ahead' /\ Own'
  BY <1>1 DEF IInv, Past, Ahead, Own, Uploading, Coming
<1> QED
  BY <1>1, <1>3, <1>4, <1>5, SameHandlers DEF IInv

\* Other users change the issue: what is shown or on its way gets older.
LEMMA ElsewhereKeeps ==
    ASSUME IInv, NEW f \in Fields, NEW v \in Theirs, ChangeElsewhere(f, v)
    PROVE  IInv'
<1>1. /\ UNCHANGED <<pageVars, calls, acked, starts, edits, faults>>
      /\ server' = [server EXCEPT !.field[f] = v, !.rev = @ + 1]
      /\ elsewhere' = elsewhere + 1
  BY DEF ChangeElsewhere
<1>2. server' \in Snapshot /\ server.rev \in Nat /\ server'.rev = server.rev + 1
  <2>1. /\ server \in [field : [Fields -> Values], watching : BOOLEAN, rev : Nat, wrev : Nat]
        /\ v \in Values
    BY DEF IInv, PageTyped, Snapshot, Values
  <2>2. server' = [field |-> [server.field EXCEPT ![f] = v], watching |-> server.watching,
                   rev |-> server.rev + 1, wrev |-> server.wrev]
    BY <1>1, <2>1
  <2> QED
    BY <2>1, <2>2 DEF Snapshot
<1>3. Typed' /\ Alone' /\ Loaded' /\ Patches'
  <2>1. pendingPatch \in [Fields -> Mine \cup {None}]
    BY DEF IInv, Patches
  <2> QED
    BY <1>1, <2>1, SameHandlers DEF pageVars
<1>4. PageTyped'
  BY <1>1, <1>2 DEF IInv, Typed, PageTyped, pageVars
<1>5. Past'
  <2>1. \A c \in Calls : calls[c] # None /\ calls[c].answer = "ok" => calls[c].got.rev \in Nat
    BY CallType DEF IInv, Past
  <2>2. issue # None => issue.rev \in Nat
    BY DEF IInv, Typed, PageTyped, Snapshot
  <2> QED
    BY <1>1, <1>2, <2>1, <2>2 DEF IInv, Past, pageVars
<1>6. Ahead' /\ Own'
  BY <1>1 DEF IInv, Ahead, Own, Uploading, Coming, pageVars
<1> QED
  BY <1>3, <1>4, <1>5, <1>6 DEF IInv

\* A handler starts.
LEMMA BeginKeeps ==
    ASSUME IInv, NEW c \in Calls, NEW k \in Call, k.at = "write", k.answer = "none",
           k.kind # "load", k.patch \in [Fields -> Mine \cup {None}],
           Begin(c, k), typed' \in BOOLEAN, staged' \in BOOLEAN
    PROVE  IInv'
<1>1. /\ calls[c] = None /\ issue # None /\ k.kind \in Kinds \ busy
      /\ calls' = [calls EXCEPT ![c] = k] /\ busy' = busy \cup ({k.kind} \cap Flagged)
      /\ starts' = starts + 1
      /\ UNCHANGED <<server, issue, failed, pendingPatch, note, seq, acked,
                     edits, elsewhere, faults>>
  BY DEF Begin, Shown
<1>2. calls \in [Calls -> Call \cup {None}] /\ k # None
  BY NoneAssumption DEF IInv, Typed, PageTyped
<1>3. calls'[c] = k /\ \A d \in Calls : d # c => calls'[d] = calls[d]
  BY <1>1, <1>2
<1>4. Typed'
  <2>1. busy' = {calls'[d].kind : d \in {e \in Calls : calls'[e] # None}} \cap Flagged
    <3>1. busy = {calls[d].kind : d \in {e \in Calls : calls[e] # None}} \cap Flagged
      BY DEF IInv, Typed, PageTyped
    <3> QED
      BY <1>1, <1>2, <1>3, <3>1
  <2>2. \A d \in Calls : calls'[d] # None /\ calls'[d].at = "get" => calls'[d].seq \in 1..seq'
    BY <1>1, <1>3 DEF IInv, Typed, PageTyped
  <2>3. calls' \in [Calls -> Call \cup {None}]
    BY <1>1, <1>2
  <2> QED
    BY <1>1, <2>1, <2>2, <2>3 DEF IInv, PageTyped, Typed
<1>5. PageTyped'
  BY <1>1 DEF IInv, Typed, PageTyped
<1>6. Alone'
  <2>1. \A d \in Calls : calls[d] # None /\ calls[d].kind \in Flagged => calls[d].kind # k.kind
    BY <1>1 DEF IInv, Typed, PageTyped
  <2> QED
    BY <1>1, <1>2, <1>3, <2>1 DEF IInv, Alone
<1>7. Loaded' /\ Patches' /\ Past'
  BY <1>1, <1>3 DEF IInv, Loaded, Patches, Past
<1>8. Ahead'
  BY <1>1, <1>3 DEF IInv, Ahead
<1>9. Own'
  BY <1>1, <1>3 DEF IInv, Own, Uploading, Coming
<1> QED
  BY <1>4, <1>5, <1>6, <1>7, <1>8, <1>9 DEF IInv

\* The five handlers of the page start.
LEMMA Starts ==
    ASSUME IInv, NEW c \in Calls,
           Save(c) \/ Comment(c) \/ Toggle(c) \/ Archive(c) \/ Upload(c)
    PROVE  \E k \in Call :
               /\ k.at = "write" /\ k.answer = "none" /\ k.kind # "load"
               /\ k.patch \in [Fields -> Mine \cup {None}]
               /\ Begin(c, k) /\ typed' \in BOOLEAN /\ staged' \in BOOLEAN
<1>0. /\ pendingPatch \in [Fields -> Mine \cup {None}] /\ Empty \in [Fields -> Mine \cup {None}]
      /\ typed \in BOOLEAN /\ staged \in BOOLEAN
  BY DEF IInv, Patches, PageTyped, Empty
<1>1. ASSUME NEW kind \in Kinds
      PROVE  LET k == Handler(kind)
             IN  /\ k \in Call /\ k.kind = kind /\ k.kind # "load" /\ k.at = "write"
                 /\ k.answer = "none" /\ k.patch = Empty
  <2>1. kind # "load" /\ Empty \in [Fields -> Values \cup {None}]
    BY DetailAssumption DEF Flagged, Empty
  <2> QED
    BY <2>1 DEF Handler, Call
<1>2. CASE Save(c)
  <2> DEFINE k == [Handler("save") EXCEPT !.patch = Body]
  <2>1. Begin(c, k) /\ typed' \in BOOLEAN /\ staged' \in BOOLEAN
    BY <1>2 DEF Save, Render
  <2>2. k.kind = "save" /\ k.kind \in Kinds
    BY <2>1 DEF Begin, Handler
  <2>3. /\ k \in Call /\ k.kind # "load" /\ k.at = "write" /\ k.answer = "none"
        /\ k.patch = pendingPatch
    <3>1. Body \in [Fields -> Values \cup {None}]
      BY <1>0 DEF Body, Values
    <3> HIDE DEF Body
    <3>2. /\ k \in Call /\ k.kind # "load" /\ k.at = "write" /\ k.answer = "none" /\ k.patch = Body
      BY <1>1, <2>2, <3>1 DEF Call
    <3> QED
      BY <3>2 DEF Body
  <2> HIDE DEF k
  <2> QED
    BY <1>0, <2>1, <2>3
<1>3. CASE Comment(c)
  <2> DEFINE k == [Handler("comment") EXCEPT !.had = staged]
  <2>1. Begin(c, k) /\ typed' \in BOOLEAN /\ staged' \in BOOLEAN
    BY <1>3 DEF Comment, Render
  <2>2. k.kind = "comment" /\ k.kind \in Kinds
    BY <2>1 DEF Begin, Handler
  <2>3. /\ k \in Call /\ k.kind # "load" /\ k.at = "write" /\ k.answer = "none"
        /\ k.patch = Empty
    BY <1>0, <1>1, <2>2 DEF Call
  <2> HIDE DEF k
  <2> QED
    BY <1>0, <2>1, <2>3
<1>4. CASE Toggle(c)
  <2> DEFINE on == ~issue.watching
             k == [Handler("watch") EXCEPT !.on = on]
  <2>1. Begin(c, k) /\ typed' \in BOOLEAN /\ staged' \in BOOLEAN
    BY <1>4 DEF Toggle, Render
  <2>2. on \in BOOLEAN
    OBVIOUS
  <2> HIDE DEF on
  <2>3. k.kind = "watch" /\ k.kind \in Kinds
    BY <2>1 DEF Begin, Handler
  <2>4. /\ k \in Call /\ k.kind # "load" /\ k.at = "write" /\ k.answer = "none"
        /\ k.patch = Empty
    BY <1>1, <2>2, <2>3 DEF Call
  <2> HIDE DEF k
  <2> QED
    BY <1>0, <2>1, <2>4
<1>5. CASE Archive(c) \/ Upload(c)
  <2>1. PICK kind \in {"archive", "upload"} : Begin(c, Handler(kind))
    BY <1>5 DEF Archive, Upload
  <2>2. typed' \in BOOLEAN /\ staged' \in BOOLEAN
    BY <1>0, <1>5 DEF Archive, Upload, Render, NoRender
  <2>3. Handler(kind).kind = kind /\ kind \in Kinds
    BY <2>1 DEF Begin, Handler
  <2> QED
    BY <1>0, <1>1, <2>1, <2>2, <2>3
<1> QED
  BY <1>2, <1>3, <1>4, <1>5

\* They keep the invariant.
LEMMA StartsKeep ==
    ASSUME IInv, NEW c \in Calls,
           Save(c) \/ Comment(c) \/ Toggle(c) \/ Archive(c) \/ Upload(c)
    PROVE  IInv'
  BY Starts, BeginKeeps

-----------------------------------------------------------------------------
(* The server                                                              *)

\* A patch and a revision more, or neither.
LEMMA AppliedType ==
    ASSUME IInv, NEW c \in Calls, calls[c] # None
    PROVE  /\ Applied(calls[c]) \in Snapshot
           /\ server.rev \in Nat /\ Applied(calls[c]).rev \in Nat
           /\ server.rev <= Applied(calls[c]).rev
           /\ server.wrev \in Nat /\ server.wrev <= Applied(calls[c]).wrev
<1>1. /\ calls[c].patch \in [Fields -> Values \cup {None}] /\ calls[c].on \in BOOLEAN
      /\ server \in [field : [Fields -> Values], watching : BOOLEAN, rev : Nat, wrev : Nat]
  BY CallType DEF IInv, PageTyped, Snapshot
<1> DEFINE fs == [f \in Fields |-> IF calls[c].patch[f] # None THEN calls[c].patch[f]
                                   ELSE server.field[f]]
           w == IF calls[c].kind = "watch" THEN calls[c].on
                ELSE IF calls[c].kind \in {"save", "comment"} THEN TRUE ELSE server.watching
           r == IF calls[c].kind = "watch" THEN server.rev ELSE server.rev + 1
           wr == IF calls[c].kind \in {"watch", "save", "comment"} THEN server.wrev + 1
                 ELSE server.wrev
<1>2. Applied(calls[c]) = [server EXCEPT !.field = fs, !.watching = w, !.rev = r,
                                         !.wrev = wr]
  BY DEF Applied
<1>3. fs \in [Fields -> Values]
  BY <1>1
<1>4. w \in BOOLEAN
  BY <1>1
<1>5. r \in Nat /\ server.rev \in Nat /\ server.rev <= r
  BY <1>1
<1>6. wr \in Nat /\ server.wrev \in Nat /\ server.wrev <= wr
  BY <1>1
<1> HIDE DEF fs, w, r, wr
<1> QED
  BY <1>1, <1>2, <1>3, <1>4, <1>5, <1>6 DEF Snapshot

\* The revisions that handlers and the page know are numbers.
LEMMA Revisions ==
    ASSUME IInv
    PROVE  /\ server.rev \in Nat /\ acked \in Nat /\ acked <= server.rev
           /\ issue # None => issue.rev \in Nat
           /\ \A c \in Calls : calls[c] # None /\ calls[c].answer = "ok" => calls[c].got.rev \in Nat
<1>1. server.rev \in Nat /\ acked \in Nat /\ acked <= server.rev
  BY DEF IInv, PageTyped, Snapshot
<1>2. issue # None => issue.rev \in Nat
  BY DEF IInv, PageTyped, Snapshot
<1>3. \A c \in Calls : calls[c] # None /\ calls[c].answer = "ok" => calls[c].got.rev \in Nat
  BY CallType DEF IInv, Past
<1> QED
  BY <1>1, <1>2, <1>3

\* The server or the network answers a request.
LEMMA AnswerKeeps ==
    ASSUME IInv, NEW c \in Calls, calls[c] # None, calls[c].answer = "none", NEW l \in Call,
           calls' = [calls EXCEPT ![c] = l],
           l.kind = calls[c].kind, l.at = calls[c].at, l.seq = calls[c].seq,
           l.patch = calls[c].patch, l.at # "files",
           server' \in Snapshot, server.rev <= server'.rev,
           faults' \in Nat, UNCHANGED <<pageVars, acked, starts, edits, elsewhere>>,
           \/ l.answer = "ok" /\ l.got = server' /\ faults' = faults
           \/ l.answer = "error" /\ faults' = faults + 1
    PROVE  IInv'
<1>0. /\ UNCHANGED <<issue, failed, pendingPatch, note, busy, typed, staged, seq>>
      /\ server'.rev \in Nat /\ faults \in Nat /\ seq \in Nat
  BY DEF pageVars, Snapshot, IInv, PageTyped, Typed
<1>1. l.at = "get" => l.seq \in 1..seq
  BY DEF IInv, Typed
<1>2. l.kind = "load" => l.at = "get"
  BY DEF IInv, Loaded
<1>3. /\ pendingPatch' \in [Fields -> Mine \cup {None}] /\ issue' = issue
      /\ l.at = "get" => l.seq \in 1..seq'
      /\ seq' \in Nat /\ seq <= seq' /\ busy' = busy
  BY <1>0, <1>1 DEF IInv, Patches
<1>4. /\ calls'[c] = l /\ calls'[c] # None
      /\ \A d \in Calls : d # c => calls'[d] = calls[d]
      /\ Typed' /\ Alone' /\ Loaded' /\ Patches'
  BY <1>2, <1>3, GoesOn
<1>5. PageTyped'
  <2>1. acked \in 0..server'.rev
    BY <1>0, Revisions
  <2> QED
    BY <1>0, <2>1 DEF IInv, PageTyped
<1>6. Past'
  <2>1. issue # None => issue.rev <= server'.rev
    BY <1>0, Revisions DEF IInv, Past
  <2>2. ASSUME NEW d \in Calls, d # c, calls[d] # None
        PROVE  /\ calls[d].answer = "ok" => calls[d].got # None /\ calls[d].got.rev <= server'.rev
               /\ calls[d].answer = "error" => faults' # 0
    BY <1>0, <2>2, Revisions DEF IInv, Past
  <2>3. l.answer = "ok" => l.got # None /\ l.got.rev <= server'.rev
    BY <1>0, NoneAssumption
  <2> QED
    BY <1>0, <1>4, <2>1, <2>2, <2>3 DEF Past
<1>7. Ahead'
  <2>1. issue # None /\ l.answer = "ok" => issue.rev <= l.got.rev
    BY <1>0, Revisions DEF IInv, Past
  <2>2. \A d, e \in Calls :
            /\ calls'[d] # None /\ calls'[d].at = "get" /\ calls'[e] # None /\ calls'[e].at = "get"
            /\ calls'[d].seq = calls'[e].seq
            => d = e
    BY <1>4 DEF IInv, Ahead
  <2> QED
    BY <1>0, <1>4, <2>1, <2>2 DEF IInv, Ahead
<1>8. Own'
  <2>1. CASE l.answer = "error"
    BY <1>0, <2>1 DEF Own
  <2>2. CASE l.answer = "ok" /\ l.got = server' /\ faults' = faults
    <3>1. l.got.rev >= acked
      BY <1>0, <2>2, Revisions
    <3>2. Uploading => Uploading'
      BY <1>0, <1>4 DEF Uploading
    <3>3. Coming => Coming'
      BY <1>0, <1>4, <2>2, <3>1 DEF Coming
    <3> QED
      BY <1>0, <2>2, <3>2, <3>3 DEF IInv, Own
  <2> QED
    BY <2>1, <2>2
<1> QED
  BY <1>4, <1>5, <1>6, <1>7, <1>8 DEF IInv

\* The server answers, or the request is lost.
LEMMA ServeKeeps ==
    ASSUME IInv, NEW c \in Calls, ServeWrite(c) \/ ServeGet(c) \/ Lose(c)
    PROVE  IInv'
<1>1. /\ calls[c] # None /\ calls[c].answer = "none" /\ calls[c].at # "files"
      /\ UNCHANGED <<pageVars, acked, starts, edits, elsewhere>>
  BY DEF ServeWrite, ServeGet, Lose, Counts
<1>2. calls[c] \in Call
  BY <1>1, CallType DEF IInv
<1>3. server \in Snapshot /\ server.rev \in Nat /\ faults \in Nat
  BY Revisions DEF IInv, PageTyped
<1>4. /\ Applied(calls[c]) \in Snapshot /\ Applied(calls[c]).rev \in Nat
      /\ server.rev <= Applied(calls[c]).rev
  BY <1>1, AppliedType
<1>5. CASE ServeWrite(c) \/ ServeGet(c)
  <2>1. /\ server' \in Snapshot /\ server.rev <= server'.rev /\ faults' = faults
        /\ calls' = [calls EXCEPT ![c] = [calls[c] EXCEPT !.answer = "ok", !.got = server']]
    <3>1. server' = server \/ server' = Applied(calls[c])
      BY <1>5 DEF ServeWrite, ServeGet
    <3>2. calls \in [Calls -> Call \cup {None}]
      BY DEF IInv, Typed
    <3>3. calls' = [calls EXCEPT ![c] = [calls[c] EXCEPT !.answer = "ok", !.got = server']]
      BY <1>5, <3>2 DEF ServeWrite, ServeGet
    <3> QED
      BY <1>3, <1>4, <1>5, <3>1, <3>3 DEF ServeWrite, ServeGet, Counts
  <2> DEFINE l == [calls[c] EXCEPT !.answer = "ok", !.got = server']
  <2>2. /\ l \in Call /\ l.kind = calls[c].kind /\ l.at = calls[c].at /\ l.seq = calls[c].seq
        /\ l.patch = calls[c].patch /\ l.answer = "ok" /\ l.got = server'
    BY <1>2, <2>1, AnsweredCall
  <2> HIDE DEF l
  <2> QED
    BY <1>1, <1>3, <2>1, <2>2, AnswerKeeps DEF l
<1>6. CASE Lose(c)
  <2> DEFINE l == [calls[c] EXCEPT !.answer = "error"]
  <2>1. /\ server' \in Snapshot /\ server.rev <= server'.rev /\ faults' = faults + 1
        /\ calls' = [calls EXCEPT ![c] = l]
    <3>1. server' = server \/ server' = Applied(calls[c])
      BY <1>6 DEF Lose
    <3> QED
      BY <1>3, <1>4, <1>6, <3>1 DEF Lose
  <2>2. /\ l \in Call /\ l.kind = calls[c].kind /\ l.at = calls[c].at /\ l.seq = calls[c].seq
        /\ l.patch = calls[c].patch /\ l.answer = "error"
    BY <1>2, FailedCall
  <2> HIDE DEF l
  <2>3. faults' \in Nat /\ l.at # "files"
    BY <1>1, <1>3, <2>1, <2>2
  <2> QED
    BY <1>1, <2>1, <2>2, <2>3, AnswerKeeps
<1> QED
  BY <1>5, <1>6

-----------------------------------------------------------------------------
(* The answers                                                             *)

\* What a step leaves of the page besides the issue and the handlers.
PageLeft ==
    /\ failed' \in BOOLEAN /\ note' \in BOOLEAN /\ typed' \in BOOLEAN /\ staged' \in BOOLEAN
    /\ pendingPatch' \in [Fields -> Mine \cup {None}]
    /\ UNCHANGED <<starts, edits, elsewhere, faults>>

\* A handler goes on to a GET, or to the files of a comment: what it was told of
\* will be shown.
LEMMA GoOnKeeps ==
    ASSUME IInv, NEW c \in Calls, calls[c] # None, NEW l \in Call,
           l.kind = calls[c].kind, l.patch = calls[c].patch, calls[c].kind # "load",
           \/ l.at = "get" /\ l.seq = seq + 1 /\ seq' = seq + 1 /\ l.answer = "none"
           \/ /\ l.at = "files" /\ seq' = seq
              /\ l.answer = calls[c].answer /\ l.got = calls[c].got,
           calls' = [calls EXCEPT ![c] = l], busy' = busy, issue' = issue,
           server' \in Snapshot, server.rev <= server'.rev, acked' \in 0..server'.rev, PageLeft
    PROVE  IInv'
<1>0. /\ server'.rev \in Nat /\ server.rev \in Nat /\ seq \in Nat /\ l # None
  BY Revisions, NoneAssumption DEF IInv, Typed, Snapshot
<1>1. /\ calls'[c] = l /\ calls'[c] # None
      /\ \A d \in Calls : d # c => calls'[d] = calls[d]
      /\ Typed' /\ Alone' /\ Loaded' /\ Patches'
  <2>1. /\ l.at = "get" => l.seq \in 1..seq'
        /\ seq' \in Nat /\ seq <= seq'
    BY <1>0
  <2> QED
    BY <2>1, GoesOn DEF PageLeft
<1>2. PageTyped'
  BY DEF IInv, PageTyped, PageLeft, Values
<1>3. Past'
  <2>1. issue # None => issue.rev <= server'.rev
    BY <1>0, Revisions DEF IInv, Past
  <2>2. \A d \in Calls : calls[d] # None =>
            /\ calls[d].answer = "ok" => calls[d].got # None /\ calls[d].got.rev <= server'.rev
            /\ calls[d].answer = "error" => faults # 0
    BY <1>0, Revisions DEF IInv, Past
  <2> QED
    BY <1>1, <2>1, <2>2 DEF Past, PageLeft
<1>4. Ahead'
  <2>1. CASE l.at = "get"
    <3>1. \A d \in Calls : calls[d] # None /\ calls[d].at = "get" =>
              calls[d].seq \in Nat /\ calls[d].seq <= seq
      BY <1>0 DEF IInv, Typed
    <3>2. \A d \in Calls : d # c /\ calls'[d] # None /\ calls'[d].at = "get" =>
              calls'[d].seq # seq + 1
      BY <1>0, <1>1, <3>1
    <3> QED
      BY <1>1, <2>1, <3>2 DEF IInv, Ahead
  <2>2. CASE l.at = "files"
    BY <1>1, <2>2 DEF IInv, Ahead
  <2> QED
    BY <2>1, <2>2
<1>5. Own'
  BY <1>0, <1>1 DEF Own, Uploading, Coming
<1> QED
  BY <1>1, <1>2, <1>3, <1>4, <1>5 DEF IInv

\* A handler ends, with nothing to show or with the newest GET.
LEMMA EndKeeps ==
    ASSUME IInv, NEW c \in Calls, calls[c] # None, calls[c].at # "files",
           calls' = [calls EXCEPT ![c] = None], busy' = busy \ {calls[c].kind},
           UNCHANGED <<server, seq, acked>>, issue' \in Snapshot \cup {None}, PageLeft,
           \/ /\ issue' = issue \/ (issue # None /\ issue' # None /\ issue'.rev = issue.rev)
              /\ calls[c].at = "write" \/ calls[c].answer = "error" \/ calls[c].seq # seq
           \/ /\ calls[c].at = "get" /\ calls[c].seq = seq /\ calls[c].answer = "ok"
              /\ issue' = calls[c].got
    PROVE  IInv'
<1>1. /\ issue # None => issue' # None
      /\ issue' # None => issue'.rev <= server.rev
  BY DEF IInv, Past
<1>2. /\ calls'[c] = None
      /\ \A d \in Calls : d # c => calls'[d] = calls[d]
      /\ Typed' /\ Alone' /\ Loaded' /\ Patches'
  BY <1>1, EndsWell DEF PageLeft
<1>3. PageTyped'
  BY DEF IInv, PageTyped, PageLeft, Values
<1>4. Past'
  BY <1>1, <1>2 DEF IInv, Past, PageLeft
<1>5. Ahead'
  BY <1>2 DEF IInv, Ahead
<1>6. Own'
  <2>1. Uploading => Uploading'
    BY <1>2 DEF Uploading
  <2>2. CASE /\ issue' = issue \/ (issue # None /\ issue' # None /\ issue'.rev = issue.rev)
             /\ calls[c].at = "write" \/ calls[c].answer = "error" \/ calls[c].seq # seq
    <3>1. Coming => Coming'
      BY <1>2, <2>2 DEF Coming
    <3> QED
      BY <2>1, <2>2, <3>1 DEF IInv, Own, PageLeft
  <2>3. CASE /\ calls[c].at = "get" /\ calls[c].seq = seq /\ calls[c].answer = "ok"
             /\ issue' = calls[c].got
    <3>1. Coming => calls[c].got.rev >= acked
      BY <2>3 DEF IInv, Ahead, Coming
    <3>2. issue # None /\ issue.rev >= acked => calls[c].got.rev >= acked
      BY <2>3, Revisions DEF IInv, Ahead
    <3>3. issue' # None
      BY <2>3 DEF IInv, Past
    <3> QED
      BY <2>1, <2>3, <3>1, <3>2, <3>3 DEF IInv, Own, PageLeft
  <2> QED
    BY <2>2, <2>3
<1> QED
  BY <1>2, <1>3, <1>4, <1>5, <1>6 DEF IInv

\* The answer to a write: a watch toggle ends, every other handler goes on to its
\* GET, a comment with staged files to its uploads first.
LEMMA WrittenKeeps ==
    ASSUME IInv, NEW c \in Calls, Written(c)
    PROVE  IInv'
<1>1. /\ calls[c] # None /\ calls[c].at = "write" /\ calls[c].answer = "ok"
      /\ acked' = IF calls[c].kind # "watch" /\ calls[c].got.rev > acked THEN calls[c].got.rev
                  ELSE acked
      /\ UNCHANGED <<starts, edits, elsewhere, faults, server, failed>>
  BY DEF Written, Counts
<1>2. calls[c].kind # "load" /\ issue # None /\ calls[c] \in Call
  BY <1>1, CallType DEF IInv, Loaded
<1>3. acked' \in 0..server.rev
  BY <1>1, Revisions DEF IInv, Past
<1>4. PageLeft
  <2>1. pendingPatch' = pendingPatch \/ pendingPatch' = Empty
    BY DEF Written
  <2>2. pendingPatch' \in [Fields -> Mine \cup {None}]
    BY <2>1 DEF IInv, Patches, Empty
  <2>3. note' = note \/ note' = FALSE
    BY DEF Written
  <2>4. /\ typed' = typed \/ typed' = FALSE
        /\ staged' = staged \/ staged' = FALSE
    BY DEF Written, Render, NoRender
  <2>5. note' \in BOOLEAN
    BY <2>3 DEF IInv, PageTyped
  <2>6. typed' \in BOOLEAN /\ staged' \in BOOLEAN
    BY <2>4 DEF IInv, PageTyped
  <2> QED
    BY <1>1, <2>2, <2>5, <2>6 DEF IInv, PageTyped, PageLeft
<1>5. /\ server' \in Snapshot /\ server.rev <= server'.rev /\ acked' \in 0..server'.rev
      /\ seq + 1 \in Nat
  BY <1>1, <1>3, Revisions DEF IInv, PageTyped, Typed
<1>6. CASE calls[c].kind = "watch"
  <2>1. /\ issue' = [issue EXCEPT !.watching = calls[c].on, !.wrev = calls[c].got.wrev]
        /\ busy' = busy \ {"watch"}
        /\ calls' = [calls EXCEPT ![c] = None] /\ seq' = seq
    BY <1>6 DEF Written, Finish, Toggled
  <2>2. issue' \in Snapshot /\ issue' # None /\ issue'.rev = issue.rev
    <3>1. issue \in Snapshot /\ calls[c].on \in BOOLEAN /\ calls[c].got.wrev \in Nat
      BY <1>1, <1>2, CallType DEF IInv, PageTyped, Past, Snapshot
    <3> QED
      BY <2>1, <3>1, NoneAssumption DEF Snapshot
  <2>3. acked' = acked
    BY <1>1, <1>6
  <2> QED
    BY <1>1, <1>2, <1>4, <1>6, <2>1, <2>2, <2>3, EndKeeps
<1>7. CASE calls[c].kind = "comment" /\ staged
  <2> DEFINE l == [calls[c] EXCEPT !.at = "files"]
  <2>1. calls' = [calls EXCEPT ![c] = l] /\ UNCHANGED <<issue, busy, seq>>
    BY <1>7 DEF Written
  <2>2. /\ l \in Call /\ l.kind = calls[c].kind /\ l.at = "files"
        /\ l.patch = calls[c].patch /\ l.answer = calls[c].answer /\ l.got = calls[c].got
    BY <1>2, UploadingCall
  <2> HIDE DEF l
  <2> QED
    BY <1>1, <1>2, <1>4, <1>5, <2>1, <2>2, GoOnKeeps
<1>8. CASE calls[c].kind # "watch" /\ ~(calls[c].kind = "comment" /\ staged)
  <2> DEFINE l == [calls[c] EXCEPT !.at = "get", !.seq = seq + 1, !.answer = "none"]
  <2>1. Refetch(c) /\ UNCHANGED <<issue, busy>>
    BY <1>8 DEF Written
  <2>2. calls' = [calls EXCEPT ![c] = l] /\ seq' = seq + 1
    BY <2>1 DEF Refetch, IInv, Typed
  <2>3. /\ l \in Call /\ l.kind = calls[c].kind /\ l.at = "get" /\ l.seq = seq + 1
        /\ l.patch = calls[c].patch /\ l.answer = "none"
    BY <1>2, <1>5, RefetchingCall
  <2> HIDE DEF l
  <2> QED
    BY <1>1, <1>2, <1>4, <1>5, <2>1, <2>2, <2>3, GoOnKeeps
<1> QED
  BY <1>6, <1>7, <1>8

\* The uploads of a comment are over.
LEMMA FilesDoneKeeps ==
    ASSUME IInv, NEW c \in Calls, FilesDone(c)
    PROVE  IInv'
<1> DEFINE l == [calls[c] EXCEPT !.at = "get", !.seq = seq + 1, !.answer = "none", !.sent = TRUE]
<1>1. /\ calls[c] # None /\ calls[c].at = "files"
      /\ server' = [server EXCEPT !.rev = @ + 1] /\ seq' = seq + 1
      /\ staged' = FALSE
      /\ UNCHANGED <<issue, failed, pendingPatch, note, busy, acked, typed, starts, edits, elsewhere,
                     faults>>
  BY DEF FilesDone, Counts
<1>2. calls' = [calls EXCEPT ![c] = l]
  BY DEF FilesDone, IInv, Typed
<1>3. /\ calls[c] \in Call /\ calls[c].kind # "load" /\ seq + 1 \in Nat
  BY <1>1, CallType DEF IInv, Loaded, Typed
<1>4. /\ l \in Call /\ l.kind = calls[c].kind /\ l.at = "get" /\ l.seq = seq + 1
      /\ l.patch = calls[c].patch /\ l.answer = "none"
  BY <1>3, SentCall
<1> HIDE DEF l
<1>5. server' \in Snapshot /\ server'.rev = server.rev + 1
  BY <1>1 DEF IInv, PageTyped, Snapshot
<1>6. server.rev <= server'.rev /\ acked' \in 0..server'.rev
  BY <1>1, <1>5, Revisions
<1>7. PageLeft
  BY <1>1 DEF IInv, PageTyped, Patches, PageLeft
<1> QED
  BY <1>1, <1>2, <1>3, <1>4, <1>5, <1>6, <1>7, GoOnKeeps

\* A write was refused or lost: its handler tells so and ends.
LEMMA WriteFailedKeeps ==
    ASSUME IInv, NEW c \in Calls, WriteFailed(c)
    PROVE  IInv'
<1>1. /\ calls[c] # None /\ calls[c].at = "write" /\ calls[c].answer = "error"
      /\ UNCHANGED <<starts, edits, elsewhere, faults, server, issue, failed, pendingPatch,
                     note, acked>>
  BY DEF WriteFailed, Counts
<1>2. calls[c].kind # "load" /\ calls[c] \in Call
  BY <1>1, CallType DEF IInv, Loaded
<1>3. PageLeft
  <2>1. /\ typed' = typed \/ typed' = FALSE
        /\ staged' = staged \/ staged' = FALSE
    BY DEF WriteFailed, Render, NoRender
  <2>2. typed' \in BOOLEAN /\ staged' \in BOOLEAN
    BY <2>1 DEF IInv, PageTyped
  <2> QED
    BY <1>1, <2>2 DEF IInv, PageTyped, Patches, PageLeft
<1>4. /\ server' \in Snapshot /\ server.rev <= server'.rev /\ acked' \in 0..server'.rev
      /\ issue' \in Snapshot \cup {None} /\ seq + 1 \in Nat
  BY <1>1, Revisions DEF IInv, PageTyped, Typed
<1>5. CASE Finish(c) /\ busy' = busy \ {calls[c].kind} /\ UNCHANGED seq
  BY <1>1, <1>3, <1>4, <1>5, EndKeeps DEF Finish
<1>6. CASE calls[c].kind = "upload" /\ Refetch(c) /\ UNCHANGED busy
  <2> DEFINE l == [calls[c] EXCEPT !.at = "get", !.seq = seq + 1, !.answer = "none"]
  <2>1. calls' = [calls EXCEPT ![c] = l] /\ seq' = seq + 1
    BY <1>6 DEF Refetch, IInv, Typed
  <2>2. /\ l \in Call /\ l.kind = calls[c].kind /\ l.at = "get" /\ l.seq = seq + 1
        /\ l.patch = calls[c].patch /\ l.answer = "none"
    BY <1>2, <1>4, RefetchingCall, ZenonT(30)
  <2> HIDE DEF l
  <2> QED
    BY <1>1, <1>2, <1>3, <1>4, <1>6, <2>1, <2>2, GoOnKeeps
<1>7. CASE calls[c].kind = "upload" /\ Finish(c) /\ UNCHANGED <<seq, busy>>
  <2>1. busy' = busy \ {calls[c].kind}
    BY <1>7 DEF IInv, Typed, Flagged
  <2> QED
    BY <1>1, <1>3, <1>4, <1>7, <2>1, EndKeeps DEF Finish
<1> QED
  BY <1>5, <1>6, <1>7 DEF WriteFailed

\* The answer to a GET: shown if it is the newest, dropped otherwise.
LEMMA FetchedKeeps ==
    ASSUME IInv, NEW c \in Calls, Fetched(c)
    PROVE  IInv'
<1>1. /\ calls[c] # None /\ calls[c].at = "get" /\ calls[c].answer # "none"
      /\ issue' = IF calls[c].seq = seq /\ calls[c].answer = "ok" THEN calls[c].got ELSE issue
      /\ busy' = busy \ {calls[c].kind} /\ calls' = [calls EXCEPT ![c] = None]
      /\ UNCHANGED <<starts, edits, elsewhere, faults, server, pendingPatch, note, seq, acked>>
  BY DEF Fetched, Counts, Current, Finish
<1>2. calls[c].answer \in {"ok", "error"} /\ calls[c].got \in Snapshot \cup {None}
  BY <1>1, CallType DEF IInv, Call
<1>3. PageLeft
  <2>1. failed' \in BOOLEAN
    BY DEF Fetched
  <2>2. /\ typed' = typed \/ typed' = FALSE
        /\ staged' = staged \/ staged' = FALSE
    BY DEF Fetched, Render, NoRender
  <2>3. typed' \in BOOLEAN /\ staged' \in BOOLEAN
    BY <2>2 DEF IInv, PageTyped
  <2> QED
    BY <1>1, <2>1, <2>3 DEF IInv, PageTyped, Patches, PageLeft
<1>4. issue' \in Snapshot \cup {None}
  BY <1>1, <1>2 DEF IInv, PageTyped
<1> QED
  BY <1>1, <1>2, <1>3, <1>4, EndKeeps

-----------------------------------------------------------------------------
(* The watch button                                                        *)

\* The revisions of the watch state are numbers.
LEMMA WatchRevisions ==
    ASSUME IInv
    PROVE  /\ server.wrev \in Nat
           /\ issue # None => issue.wrev \in Nat
           /\ \A c \in Calls : calls[c] # None /\ calls[c].answer = "ok" => calls[c].got.wrev \in Nat
<1>1. server.wrev \in Nat
  BY DEF IInv, PageTyped, Snapshot
<1>2. issue # None => issue.wrev \in Nat
  BY DEF IInv, PageTyped, Snapshot
<1>3. \A c \in Calls : calls[c] # None /\ calls[c].answer = "ok" => calls[c].got.wrev \in Nat
  BY CallType DEF IInv, Past, Snapshot
<1> QED
  BY <1>1, <1>2, <1>3

\* A handler starts: what it crosses is noted.
LEMMA BeginWatched ==
    ASSUME IInv, Watched, NEW c \in Calls, NEW k \in Call, k.answer = "none", Begin(c, k)
    PROVE  Watched'
<1>1. /\ calls[c] = None /\ calls' = [calls EXCEPT ![c] = k]
      /\ crossing' = {d \in crossing : calls[d] # None} \cup Crossed(k.kind)
                       \cup {d \in {c} : Crossed(k.kind) # {}}
      /\ UNCHANGED <<server, issue, seq>>
  BY DEF Begin
<1>2. calls'[c] = k /\ \A d \in Calls : d # c => calls'[d] = calls[d]
  BY <1>1 DEF IInv, Typed
<1>3. crossing' \subseteq Calls /\ \A d \in crossing : calls[d] # None => d \in crossing'
  BY <1>1 DEF Crossed, Watched
<1>4. Seen'
  BY <1>1, <1>2 DEF Watched, Seen
<1>5. Apart'
  <2>1. ASSUME NEW d \in Calls, d # c, calls[d] # None,
               k.kind = "watch" \/ calls[d].kind = "watch"
        PROVE  c \in crossing' /\ d \in crossing'
    <3>1. d \in Crossed(k.kind)
      BY <2>1 DEF Crossed
    <3> QED
      BY <1>1, <3>1
  <2>2. ASSUME NEW d \in Calls, NEW e \in Calls, d # c, e # c, d # e, calls[d] # None,
               calls[e] # None, calls[e].kind = "watch"
        PROVE  d \in crossing' /\ e \in crossing'
    BY <1>3, <2>2 DEF Watched, Apart
  <2> QED
    BY <1>2, <2>1, <2>2 DEF Apart
<1>6. Fresh'
  BY <1>1, <1>2, <1>3 DEF Watched, Fresh
<1> QED
  BY <1>3, <1>4, <1>5, <1>6 DEF Watched

\* A handler is answered or goes on, and what is shown stays.
LEMMA GoOnWatched ==
    ASSUME IInv, Watched, NEW c \in Calls, calls[c] # None, NEW l \in Call,
           l.kind = calls[c].kind, calls' = [calls EXCEPT ![c] = l],
           server' \in Snapshot, server.wrev <= server'.wrev, issue' = issue,
           crossing' = crossing,
           \/ seq' = seq
           \/ seq' = seq + 1,
           \/ l.answer # "ok"
           \/ l.answer = "ok" /\ l.got = server'
           \/ l.at = "files" /\ l.answer = calls[c].answer /\ l.got = calls[c].got
    PROVE  Watched'
<1>1. calls'[c] = l /\ \A d \in Calls : d # c => calls'[d] = calls[d]
  BY DEF IInv, Typed
<1>2. server'.wrev \in Nat /\ server.wrev \in Nat
  BY WatchRevisions DEF Snapshot
<1>3. issue # None => issue.wrev <= server'.wrev
  BY <1>2, WatchRevisions DEF Watched, Seen
<1>4. Seen'
  <2>1. \A d \in Calls : calls[d] # None /\ calls[d].answer = "ok" => calls[d].got.wrev <= server'.wrev
    BY <1>2, WatchRevisions DEF Watched, Seen
  <2>2. l.answer = "ok" => l.got.wrev <= server'.wrev
    BY <1>2, <2>1
  <2> QED
    BY <1>1, <1>3, <2>1, <2>2 DEF Seen
<1>5. Apart'
  <2>1. \A d \in Calls : calls'[d] # None => calls[d] # None /\ calls'[d].kind = calls[d].kind
    BY <1>1
  <2> QED
    BY <2>1 DEF Watched, Apart
<1>6. Fresh'
  <2>1. \A d \in Calls : calls[d] # None /\ calls[d].at = "get" => calls[d].seq # seq + 1
    BY DEF IInv, Typed
  <2>2. ASSUME NEW d \in Calls, d # c, calls[d] # None, calls[d].answer = "ok", d \notin crossing,
               issue # None,
               \/ calls[d].at = "get" /\ calls[d].seq = seq'
               \/ calls[d].at = "write" /\ calls[d].kind = "watch"
        PROVE  issue.wrev <= calls[d].got.wrev
    BY <2>1, <2>2 DEF Watched, Fresh
  <2>3. issue # None /\ l.answer = "ok" /\ l.at \in {"get", "write"} => issue.wrev <= l.got.wrev
    BY <1>3
  <2> QED
    BY <1>1, <2>2, <2>3 DEF Fresh
<1> QED
  BY <1>4, <1>5, <1>6 DEF Watched

\* A handler ends, with nothing to show, with its toggle or with the newest GET:
\* what is still under way beside a toggle crosses it, and no other GET is the
\* newest.
LEMMA EndWatched ==
    ASSUME IInv, Watched, NEW c \in Calls, calls[c] # None, calls' = [calls EXCEPT ![c] = None],
           UNCHANGED <<server, seq, crossing>>,
           \/ issue' = issue
           \/ /\ calls[c].answer = "ok" /\ issue'.wrev = calls[c].got.wrev
              /\ \/ calls[c].kind = "watch"
                 \/ calls[c].at = "get" /\ calls[c].seq = seq
    PROVE  Watched'
<1>1. calls'[c] = None /\ \A d \in Calls : d # c => calls'[d] = calls[d]
  BY DEF IInv, Typed
<1>2. Seen' /\ Apart'
  <2>1. Apart'
    BY <1>1 DEF Watched, Apart
  <2>2. issue' # None => issue'.wrev <= server.wrev
    BY DEF Watched, Seen
  <2> QED
    BY <1>1, <2>1, <2>2 DEF Watched, Seen
<1>3. Fresh'
  <2>1. CASE issue' = issue
    BY <1>1, <2>1 DEF Watched, Fresh
  <2>2. CASE calls[c].kind = "watch" \/ (calls[c].at = "get" /\ calls[c].seq = seq)
    <3>1. ASSUME NEW d \in Calls, d # c, calls[d] # None, d \notin crossing
          PROVE  calls[d].kind # "watch" /\ calls[c].kind # "watch"
      BY <3>1 DEF Watched, Apart
    <3>2. ASSUME NEW d \in Calls, d # c, calls[d] # None, d \notin crossing
          PROVE  ~(calls[d].at = "get" /\ calls[d].seq = seq)
      BY <2>2, <3>1, <3>2 DEF IInv, Ahead
    <3> QED
      BY <1>1, <3>1, <3>2 DEF Fresh
  <2> QED
    BY <2>1, <2>2
<1> QED
  BY <1>2, <1>3 DEF Watched

\* What a step of one handler does to the watch button.
LEMMA HandlerWatched ==
    ASSUME IInv, Watched, NEW c \in Calls,
           Save(c) \/ Comment(c) \/ Toggle(c) \/ Archive(c) \/ Upload(c) \/ Lose(c) \/ Go(c)
    PROVE  Watched'
<1>0. calls \in [Calls -> Call \cup {None}] /\ server \in Snapshot /\ server.wrev \in Nat
  BY WatchRevisions DEF IInv, Typed, PageTyped
<1>1. CASE Save(c) \/ Comment(c) \/ Toggle(c) \/ Archive(c) \/ Upload(c)
  BY <1>1, Starts, BeginWatched
<1>2. CASE ServeWrite(c) \/ ServeGet(c) \/ Lose(c)
  <2>1. calls[c] # None /\ UNCHANGED <<issue, seq, crossing>>
    BY <1>2 DEF ServeWrite, ServeGet, Lose, Counts, pageVars
  <2>2. calls[c] \in Call
    BY <1>0, <2>1
  <2>3. server' \in Snapshot /\ server.wrev <= server'.wrev
    <3>1. server' = server \/ server' = Applied(calls[c])
      BY <1>2 DEF ServeWrite, ServeGet, Lose
    <3> QED
      BY <1>0, <2>1, <3>1, AppliedType
  <2>4. CASE ServeWrite(c) \/ ServeGet(c)
    <3> DEFINE l == [calls[c] EXCEPT !.answer = "ok", !.got = server']
    <3>1. calls' = [calls EXCEPT ![c] = l]
      BY <1>0, <2>4 DEF ServeWrite, ServeGet
    <3>2. l \in Call /\ l.kind = calls[c].kind /\ l.answer = "ok" /\ l.got = server'
      BY <2>2, <2>3, AnsweredCall
    <3> HIDE DEF l
    <3> QED
      BY <2>1, <2>3, <3>1, <3>2, GoOnWatched
  <2>5. CASE Lose(c)
    <3> DEFINE l == [calls[c] EXCEPT !.answer = "error"]
    <3>1. calls' = [calls EXCEPT ![c] = l]
      BY <1>0, <2>5 DEF Lose
    <3>2. l \in Call /\ l.kind = calls[c].kind /\ l.answer = "error"
      BY <2>2, FailedCall
    <3> HIDE DEF l
    <3> QED
      BY <2>1, <2>3, <3>1, <3>2, GoOnWatched
  <2> QED
    BY <1>2, <2>4, <2>5
<1>3. ASSUME calls[c] # None, Refetch(c), UNCHANGED <<server, issue, crossing>>
      PROVE  Watched'
  <2> DEFINE l == [calls[c] EXCEPT !.at = "get", !.seq = seq + 1, !.answer = "none"]
  <2>1. calls' = [calls EXCEPT ![c] = l] /\ seq' = seq + 1
    BY <1>3 DEF Refetch, IInv, Typed
  <2>2. calls[c] \in Call /\ seq + 1 \in Nat
    BY <1>0, <1>3 DEF IInv, Typed
  <2>3. l \in Call /\ l.kind = calls[c].kind /\ l.answer = "none"
    BY <2>2, RefetchingCall
  <2> HIDE DEF l
  <2>4. server' \in Snapshot /\ server.wrev <= server'.wrev
    BY <1>0, <1>3
  <2> QED
    BY <1>3, <2>1, <2>3, <2>4, GoOnWatched
<1>4. CASE Written(c)
  <2>1. /\ calls[c] # None /\ calls[c].at = "write" /\ calls[c].answer = "ok"
        /\ UNCHANGED <<server, crossing>>
    BY <1>4 DEF Written, Counts
  <2>2. calls[c] \in Call
    BY <1>0, <2>1
  <2>3. CASE calls[c].kind = "watch"
    <3>1. /\ issue' = [issue EXCEPT !.watching = calls[c].on, !.wrev = calls[c].got.wrev]
          /\ calls' = [calls EXCEPT ![c] = None] /\ seq' = seq
      BY <1>4, <2>3 DEF Written, Finish, Toggled
    <3>2. issue \in Snapshot
      BY <2>1, <2>3 DEF IInv, Loaded, PageTyped
    <3>3. issue'.wrev = calls[c].got.wrev
      BY <3>1, <3>2 DEF Snapshot
    <3> QED
      BY <2>1, <2>3, <3>1, <3>3, EndWatched
  <2>4. CASE calls[c].kind = "comment" /\ staged
    <3> DEFINE l == [calls[c] EXCEPT !.at = "files"]
    <3>1. calls' = [calls EXCEPT ![c] = l] /\ UNCHANGED <<issue, seq>>
      BY <1>4, <2>4 DEF Written
    <3>2. /\ l \in Call /\ l.kind = calls[c].kind /\ l.at = "files"
          /\ l.answer = calls[c].answer /\ l.got = calls[c].got
      BY <2>2, UploadingCall
    <3> HIDE DEF l
    <3>3. server' \in Snapshot /\ server.wrev <= server'.wrev
      BY <1>0, <2>1
    <3> QED
      BY <2>1, <3>1, <3>2, <3>3, GoOnWatched
  <2>5. CASE calls[c].kind # "watch" /\ ~(calls[c].kind = "comment" /\ staged)
    <3>1. Refetch(c) /\ UNCHANGED issue
      BY <1>4, <2>5 DEF Written
    <3> QED
      BY <1>3, <2>1, <3>1
  <2> QED
    BY <2>3, <2>4, <2>5
<1>5. CASE FilesDone(c)
  <2> DEFINE l == [calls[c] EXCEPT !.at = "get", !.seq = seq + 1, !.answer = "none", !.sent = TRUE]
  <2>1. /\ calls[c] # None /\ server' = [server EXCEPT !.rev = @ + 1] /\ seq' = seq + 1
        /\ UNCHANGED <<issue, crossing>>
    BY <1>5 DEF FilesDone, Counts
  <2>2. calls' = [calls EXCEPT ![c] = l]
    BY <1>0, <1>5 DEF FilesDone
  <2>3. calls[c] \in Call /\ seq + 1 \in Nat
    BY <1>0, <2>1 DEF IInv, Typed
  <2>4. l \in Call /\ l.kind = calls[c].kind /\ l.answer = "none"
    BY <2>3, SentCall
  <2> HIDE DEF l
  <2>5. server' \in Snapshot /\ server'.wrev = server.wrev
    BY <1>0, <2>1 DEF Snapshot
  <2>6. server.wrev <= server'.wrev
    BY <1>0, <2>5
  <2> QED
    BY <2>1, <2>2, <2>4, <2>5, <2>6, GoOnWatched
<1>6. CASE WriteFailed(c)
  <2>1. calls[c] # None /\ UNCHANGED <<server, issue, crossing>>
    BY <1>6 DEF WriteFailed, Counts
  <2>2. Refetch(c) \/ (calls' = [calls EXCEPT ![c] = None] /\ seq' = seq)
    BY <1>6 DEF WriteFailed, Finish
  <2> QED
    BY <1>3, <2>1, <2>2, EndWatched
<1>7. CASE Fetched(c)
  <2>1. /\ calls[c] # None /\ calls[c].at = "get" /\ UNCHANGED <<server, seq, crossing>>
        /\ calls' = [calls EXCEPT ![c] = None]
        /\ issue' = IF calls[c].seq = seq /\ calls[c].answer = "ok" THEN calls[c].got ELSE issue
    BY <1>7 DEF Fetched, Counts, Current, Finish
  <2> QED
    BY <2>1, EndWatched
<1> QED
  BY <1>1, <1>2, <1>4, <1>5, <1>6, <1>7 DEF Go

\* Every step keeps the invariant of the watch button.
LEMMA WatchedStep == IInv /\ Watched /\ [Next]_vars => Watched'
<1> SUFFICES ASSUME IInv, Watched, [Next]_vars PROVE Watched'
  OBVIOUS
<1>1. ASSUME UNCHANGED <<issue, calls, seq, crossing>>, server'.wrev = server.wrev
      PROVE  Watched'
  BY <1>1 DEF Watched, Seen, Apart, Fresh
<1>2. CASE \/ \E f \in Fields, v \in Mine : Commit(f, v)
           \/ \E f \in Fields : Shown /\ Commit(f, issue.field[f])
           \/ Discard
           \/ Type
           \/ UNCHANGED vars
  BY <1>1, <1>2 DEF Commit, Discard, Type, Counts, vars, pageVars
<1>3. ASSUME NEW f \in Fields, NEW v \in Theirs, ChangeElsewhere(f, v)
      PROVE  Watched'
  <2>1. server'.wrev = server.wrev /\ UNCHANGED <<issue, calls, seq, crossing>>
    BY <1>3 DEF ChangeElsewhere, pageVars, IInv, PageTyped, Snapshot
  <2> QED
    BY <1>1, <2>1
<1> QED
  BY <1>2, <1>3, HandlerWatched DEF Next

-----------------------------------------------------------------------------
(* The theorems                                                            *)

\* The first load is the newest GET, and nothing was acknowledged yet.
LEMMA InvInit == Init => IInv /\ Watched
<1> SUFFICES ASSUME Init PROVE IInv /\ Watched
  OBVIOUS
<1> DEFINE c == CHOOSE d \in Calls : TRUE
           l == [Handler("load") EXCEPT !.at = "get", !.seq = 1]
<1>1. c \in Calls
  BY DetailAssumption
<1>2. /\ l \in Call /\ l # None /\ l.kind = "load" /\ l.at = "get" /\ l.seq = 1
      /\ l.answer = "none" /\ l.patch = Empty
  <2>1. Empty \in [Fields -> Values \cup {None}]
    BY DEF Empty
  <2>2. l \in Call
    BY <2>1 DEF Handler, Call
  <2> QED
    BY <2>2, NoneAssumption DEF Handler
<1>3. calls = [d \in Calls |-> IF d = c THEN l ELSE None] /\ seq = 1
  BY DEF Init
<1> HIDE DEF c, l
<1>4. calls[c] = l /\ \A d \in Calls : d # c => calls[d] = None
  BY <1>1, <1>3
<1>5. Typed
  <2>1. "load" \notin Flagged /\ busy = {}
    BY DEF Flagged, Init
  <2>2. calls \in [Calls -> Call \cup {None}]
    BY <1>2, <1>3
  <2>3. \A d \in Calls : calls[d] # None => d = c
    BY <1>4
  <2> QED
    BY <1>2, <1>3, <1>4, <2>1, <2>2, <2>3 DEF Typed
<1>6. /\ issue = None /\ server.rev = 0 /\ acked = 0
      /\ \A d \in Calls : calls[d] # None => d = c /\ calls[d] = l
  BY <1>4 DEF Init
<1>7. PageTyped
  <2>1. server = [field |-> [f \in Fields |-> First], watching |-> FALSE, rev |-> 0,
                  wrev |-> 0]
    BY DEF Init
  <2>2. server \in Snapshot
    BY <2>1 DEF Snapshot, Values
  <2>3. pendingPatch \in [Fields -> Values \cup {None}]
    BY DEF Init, Empty
  <2>4. /\ failed = FALSE /\ note = FALSE /\ typed = FALSE /\ staged = FALSE
        /\ starts = 0 /\ edits = 0 /\ elsewhere = 0 /\ faults = 0
    BY DEF Init
  <2>5. acked \in 0..server.rev /\ issue \in Snapshot \cup {None}
    BY <1>6
  <2>6. {starts, edits, elsewhere, faults} \subseteq Nat
    BY <2>4
  <2> QED
    BY <2>2, <2>3, <2>4, <2>5, <2>6 DEF PageTyped
<1>8. Patches
  <2>1. pendingPatch \in [Fields -> Mine \cup {None}] /\ Empty \in [Fields -> Mine \cup {None}]
    BY DEF Init, Empty
  <2> QED
    BY <1>2, <1>6, <2>1 DEF Patches
<1> HIDE DEF Init
<1>9. Alone /\ Loaded /\ Past /\ Ahead
  <2>1. Alone /\ Loaded
    BY <1>2, <1>6 DEF Alone, Loaded
  <2>2. Past /\ Ahead
    BY <1>2, <1>6 DEF Past, Ahead
  <2> QED
    BY <2>1, <2>2
<1>10. Own
  BY <1>1, <1>2, <1>3, <1>4 DEF Own, Coming
<1>11. Watched
  <2>1. crossing = {}
    BY DEF Init
  <2>2. Seen
    BY <1>2, <1>6 DEF Seen
  <2>3. Apart
    BY <1>6 DEF Apart
  <2>4. Fresh
    BY <1>6 DEF Fresh
  <2> QED
    BY <2>1, <2>2, <2>3, <2>4 DEF Watched
<1> QED
  BY <1>5, <1>7, <1>8, <1>9, <1>10, <1>11 DEF IInv

\* Every step keeps the invariant.
LEMMA InvStep == IInv /\ [Next]_vars => IInv'
<1> SUFFICES ASSUME IInv, [Next]_vars PROVE IInv'
  OBVIOUS
<1>1. CASE \/ \E f \in Fields, v \in Mine : Commit(f, v)
           \/ \E f \in Fields : Shown /\ Commit(f, issue.field[f])
           \/ Discard
           \/ Type
  BY <1>1, PageKeeps
<1>2. ASSUME NEW c \in Calls,
             Save(c) \/ Comment(c) \/ Toggle(c) \/ Archive(c) \/ Upload(c) \/ Lose(c) \/ Go(c)
      PROVE  IInv'
  BY <1>2, StartsKeep, ServeKeeps, WrittenKeeps, FilesDoneKeeps, WriteFailedKeeps, FetchedKeeps
     DEF Go
<1>3. ASSUME NEW f \in Fields, NEW v \in Theirs, ChangeElsewhere(f, v)
      PROVE  IInv'
  BY <1>3, ElsewhereKeeps
<1>4. CASE UNCHANGED vars
  <2>1. Typed' /\ Alone' /\ Loaded' /\ Patches'
    BY <1>4 DEF vars, pageVars, IInv, Typed, Alone, Loaded, Patches
  <2>2. PageTyped' /\ Past' /\ Ahead' /\ Own'
    BY <1>4 DEF vars, pageVars, IInv, PageTyped, Past, Ahead, Own, Uploading, Coming
  <2> QED
    BY <2>1, <2>2 DEF IInv
<1> QED
  BY <1>1, <1>2, <1>3, <1>4 DEF Next

\* The invariant behind the theorems: it holds however many handlers await
\* answers, in whatever order these arrive, and whatever other users do.
THEOREM Invariance == Spec => [](IInv /\ Watched)
  BY InvInit, InvStep, WatchedStep, PTL DEF Spec

\* With nothing under way and nothing failed, the page shows its own saves,
\* comments and uploads: the requestSeq check drops no refetch whose successor
\* does not bring what it would have brought.
THEOREM SettledAlwaysShowsOwnWrites == Spec => []SettledShowsOwnWrites
<1>1. IInv /\ Watched => TypeOK
  BY DEF IInv, Watched, TypeOK, Typed, PageTyped
<1>2. IInv => (faults = 0 /\ (\A c \in Calls : calls[c] = None) => issue.rev >= acked)
  BY DEF IInv, Own, Uploading, Coming
<1> QED
  BY <1>1, <1>2, Invariance, PTL DEF SettledShowsOwnWrites

\* What is shown gets newer, whatever the order of the answers, the watch button
\* included unless a handler ends that was under way together with a toggle.
THEOREM NeverGoesBack == Spec => ShownNeverGoesBack
<1> DEFINE Forward == issue # None => /\ issue'.rev >= issue.rev
                                      /\ \/ issue'.wrev >= issue.wrev
                                         \/ \E c \in crossing : calls[c] # None /\ calls'[c] = None
<1>1. IInv /\ Watched /\ [Next]_vars => [Forward]_vars
  <2> SUFFICES ASSUME IInv, Watched, Next, issue # None PROVE Forward
    OBVIOUS
  <2>1. /\ issue.rev \in Nat /\ issue.wrev \in Nat /\ issue \in Snapshot
        /\ calls \in [Calls -> Call \cup {None}]
    BY Revisions, WatchRevisions DEF IInv, Typed, PageTyped
  <2>2. issue' = issue => Forward
    BY <2>1
  <2>3. ASSUME NEW c \in Calls, Written(c)
        PROVE  Forward
    <3>1. /\ calls[c] # None /\ calls[c].at = "write" /\ calls[c].answer = "ok"
          /\ calls[c].kind = "watch" \/ issue' = issue
      BY <2>3 DEF Written
    <3>2. CASE calls[c].kind = "watch"
      <4>1. /\ issue' = [issue EXCEPT !.watching = calls[c].on, !.wrev = calls[c].got.wrev]
            /\ calls' = [calls EXCEPT ![c] = None]
        BY <2>3, <3>2 DEF Written, Toggled, Finish
      <4>2. issue'.rev = issue.rev /\ issue'.wrev = calls[c].got.wrev
        BY <2>1, <4>1 DEF Snapshot
      <4>3. calls'[c] = None
        BY <2>1, <4>1
      <4>4. calls[c].got.wrev \in Nat /\ (c \in crossing \/ issue.wrev <= calls[c].got.wrev)
        BY <3>1, <3>2, WatchRevisions DEF Watched, Fresh
      <4> QED
        BY <2>1, <3>1, <4>2, <4>3, <4>4
    <3> QED
      BY <2>2, <3>1, <3>2
  <2>4. ASSUME NEW c \in Calls, Fetched(c)
        PROVE  Forward
    <3>1. CASE calls[c].seq = seq /\ calls[c].answer = "ok"
      <4>1. /\ issue' = calls[c].got /\ calls[c] # None /\ calls[c].at = "get"
            /\ calls'[c] = None
        BY <2>1, <2>4, <3>1 DEF Fetched, Current, Finish
      <4>2. issue'.rev >= issue.rev
        BY <3>1, <4>1, Revisions DEF IInv, Ahead
      <4>3. c \in crossing \/ issue'.wrev >= issue.wrev
        BY <3>1, <4>1, WatchRevisions DEF Watched, Fresh
      <4> QED
        BY <4>1, <4>2, <4>3
    <3>2. CASE ~(calls[c].seq = seq /\ calls[c].answer = "ok")
      BY <2>2, <2>4, <3>2 DEF Fetched, Current
    <3> QED
      BY <3>1, <3>2
  <2>5. ASSUME NEW c \in Calls,
               \/ ServeWrite(c) \/ ServeGet(c) \/ FilesDone(c) \/ WriteFailed(c) \/ Lose(c)
               \/ Save(c) \/ Comment(c) \/ Toggle(c) \/ Archive(c) \/ Upload(c)
        PROVE  issue' = issue
    BY <2>5 DEF ServeWrite, ServeGet, FilesDone, WriteFailed, Lose, Save, Comment, Toggle, Archive,
                Upload, Begin, pageVars
  <2>6. CASE \/ \E f \in Fields, v \in Mine : Commit(f, v)
             \/ \E f \in Fields : Shown /\ Commit(f, issue.field[f])
             \/ Discard
             \/ Type
             \/ \E f \in Fields, v \in Theirs : ChangeElsewhere(f, v)
    <3>1. issue' = issue
      BY <2>6 DEF Commit, Discard, Type, ChangeElsewhere, pageVars
    <3> QED
      BY <2>2, <3>1
  <2> HIDE DEF Forward
  <2> QED
    BY <2>2, <2>3, <2>4, <2>5, <2>6 DEF Next, Go
<1> QED
  BY <1>1, Invariance, PTL DEF Spec, ShownNeverGoesBack

\* A save touches the edited fields only: the first value of a field that
\* somebody has changed never comes back.
THEOREM NeverReverted == Spec => NothingReverted
<1>1. IInv /\ [Next]_vars =>
        [\A f \in Fields : server.field[f] # First => server'.field[f] # First]_vars
  <2> SUFFICES ASSUME IInv, Next, NEW f \in Fields, server.field[f] # First
               PROVE  server'.field[f] # First
    OBVIOUS
  <2>1. server \in [field : [Fields -> Values], watching : BOOLEAN, rev : Nat, wrev : Nat]
    BY DEF IInv, PageTyped, Snapshot
  <2>2. ASSUME NEW c \in Calls, calls[c] # None, server' = Applied(calls[c])
        PROVE  server'.field[f] # First
    <3>1. calls[c].patch[f] \in Mine \cup {None}
      BY <2>2 DEF IInv, Patches
    <3>2. server'.field[f] = IF calls[c].patch[f] # None THEN calls[c].patch[f]
                             ELSE server.field[f]
      BY <2>1, <2>2 DEF Applied
    <3> QED
      BY <3>1, <3>2, DetailAssumption
  <2>3. ASSUME NEW c \in Calls, FilesDone(c)
        PROVE  server'.field[f] # First
    BY <2>1, <2>3 DEF FilesDone
  <2>4. ASSUME NEW g \in Fields, NEW v \in Theirs, ChangeElsewhere(g, v)
        PROVE  server'.field[f] # First
    <3>1. server'.field = [server.field EXCEPT ![g] = v]
      BY <2>1, <2>4 DEF ChangeElsewhere
    <3> QED
      BY <2>1, <3>1, DetailAssumption
  <2>5. ASSUME NEW c \in Calls, Go(c) \/ Lose(c)
        PROVE  \/ server' = server \/ FilesDone(c)
               \/ calls[c] # None /\ server' = Applied(calls[c])
    BY <2>5 DEF Go, ServeWrite, ServeGet, Written, WriteFailed, Fetched, Lose
  <2>6. ASSUME NEW c \in Calls, Save(c) \/ Comment(c) \/ Toggle(c) \/ Archive(c) \/ Upload(c)
        PROVE  server' = server
    BY <2>6 DEF Save, Comment, Toggle, Archive, Upload, Begin
  <2>7. CASE \/ \E g \in Fields, v \in Mine : Commit(g, v)
             \/ \E g \in Fields : Shown /\ Commit(g, issue.field[g])
             \/ Discard
             \/ Type
    BY <2>7 DEF Commit, Discard, Type
  <2> QED
    BY <2>2, <2>3, <2>4, <2>5, <2>6, <2>7 DEF Next
<1> QED
  BY <1>1, Invariance, PTL DEF Spec, NothingReverted

-----------------------------------------------------------------------------
(* The issue list, another page with another state                         *)

\* The types of the view and the server.
ListTyped ==
    /\ count \in [Statuses -> 0..MaxIssues]
    /\ members \subseteq Mates /\ gone \subseteq Mates /\ Mates \ members \subseteq gone
    /\ filters \in Filter /\ bar \in Filter /\ clearable \in BOOLEAN
    /\ offered \subseteq Mates
    /\ page \in Nat \ {0} /\ url \in Query
    /\ storage \in {Absent} \cup Filter
    /\ timer \in BOOLEAN /\ pending \in BOOLEAN /\ applied \in BOOLEAN
    /\ list \in {Absent} \cup Answer
    /\ ghost \in {Absent} \cup Ghost
    /\ acts \in 0..MaxActs /\ changes \in 0..MaxChanges /\ failures \in 0..MaxFailures

\* Every request has a number of its own, up to requestSeq.
Asked ==
    /\ requestSeq \in Nat /\ requests \subseteq Request
    /\ \A r \in requests : r.seq <= requestSeq
    /\ \A r, t \in requests : r.seq = t.seq => r = t

\* What an answer says of the query it is to.
Tells(a, q) ==
    /\ a.status = Effective(q) /\ a.assignee = Listed(q.assignee, {})
    /\ a.sort = Parsed(q).sort /\ a.page = q.page
    /\ a.total > 0 => a.pages > 0

\* An answer is to its request; what is refused names somebody who was no member.
Truthful ==
    \A r \in requests :
        /\ Listing(r) => Tells(r.answer, r.query)
        /\ r.answer = Refused => Listed(r.query.assignee, {}) \cap gone # {}

\* Unless a fetch is due, the newest request asks for what is wanted.
Wanted == ~timer => \A r \in requests : Newest(r) => r.query = Serialized(filters, page)

\* Unless a fetch is due, what is on show is what is wanted, and exists.
OnShow ==
    ~timer /\ list # Absent =>
        /\ list.sort = filters.sort /\ list.status = Effective(Serialized(filters, page))
        /\ list.assignee = filters.assignee /\ list.page = page
        /\ page <= list.pages \/ (list.total = 0 /\ page = 1)

\* An error has its reason.
InError ==
    ~pending /\ ~timer /\ list = Absent /\ failures = 0 => filters.assignee \cap gone # {}

\* The URL and storage together have the filters that the user chose.
Restorable ==
    applied /\ ghost = Absent =>
        /\ url = Serialized(filters, url.page)
        /\ storage = filters \/ (storage = Absent /\ filters = Defaults)

ListInv == ListTyped /\ Asked /\ Truthful /\ Wanted /\ OnShow /\ InError /\ Restorable

-----------------------------------------------------------------------------
(* Filters and query strings                                               *)

\* The sizes are numbers, and what is absent is no filter.
LEMMA ListSizes ==
    /\ IsFiniteSet(Statuses) /\ Open \in SUBSET Statuses /\ DefaultSort \in Sorts
    /\ Absent \notin Sorts /\ Absent \notin SUBSET Statuses /\ Absent \notin SUBSET Mates
    /\ PageSize \in Nat \ {0} /\ MaxIssues \in Nat /\ MaxActs \in Nat
    /\ MaxChanges \in Nat /\ MaxFailures \in Nat
    /\ Refused # Absent /\ Links \subseteq Filter
  BY ListAssumption

\* A query string is one, and it brings back what it was made of.
LEMMA RoundTrip ==
    ASSUME NEW f \in Filter, NEW p \in Nat \ {0}
    PROVE  /\ Serialized(f, p) \in Query /\ Serialized(f, p).page = p
           /\ Parsed(Serialized(f, p)) = f
           /\ Listed(Serialized(f, p).assignee, {}) = f.assignee
           /\ ~HasAnyFilterKey(Serialized(f, p)) => f = Defaults
<1> DEFINE q == Serialized(f, p)
<1>1. /\ f.status \in SUBSET Statuses /\ f.assignee \in SUBSET Mates /\ f.sort \in Sorts
      /\ f = [status |-> f.status, assignee |-> f.assignee, sort |-> f.sort]
  BY DEF Filter
<1>2. /\ q.status = IF f.status = Open THEN Absent ELSE f.status
      /\ q.assignee = IF f.assignee = {} THEN Absent ELSE f.assignee
      /\ q.sort = IF f.sort = DefaultSort THEN Absent ELSE f.sort
      /\ q.page = p
  BY DEF Serialized
<1>3. q \in Query
  BY <1>1 DEF Serialized, Query
<1> HIDE DEF q
<1>4. /\ Listed(q.status, Open) = f.status /\ Listed(q.assignee, {}) = f.assignee
      /\ Listed(q.sort, DefaultSort) = f.sort
  BY <1>1, <1>2, ListSizes DEF Listed
<1>5. Parsed(q) = f
  BY <1>1, <1>4 DEF Parsed
<1>6. ~HasAnyFilterKey(q) => f = Defaults
  BY <1>1, <1>2, ListSizes DEF HasAnyFilterKey, Defaults
<1> QED
  BY <1>2, <1>3, <1>4, <1>5, <1>6 DEF q

\* What a view is entered with is a filter.
LEMMA ResolvedType ==
    ASSUME NEW q \in Query, NEW stored \in {Absent} \cup Filter
    PROVE  Resolved(q, stored) \in Filter
<1>1. Defaults \in Filter
  BY ListSizes DEF Defaults, Filter
<1>2. Parsed(q) \in Filter
  <2>1. /\ Listed(q.status, Open) \in SUBSET Statuses
        /\ Listed(q.assignee, {}) \in SUBSET Mates
        /\ Listed(q.sort, DefaultSort) \in Sorts
    BY ListSizes DEF Query, Listed
  <2> QED
    BY <2>1 DEF Parsed, Filter
<1>3. Stored(stored) \in Filter
  BY <1>1 DEF Stored
<1> QED
  BY <1>1, <1>2, <1>3 DEF Resolved

\* The filters come back from the URL and storage together.
LEMMA Resolves ==
    ASSUME NEW f \in Filter, NEW p \in Nat \ {0}, NEW stored,
           stored = f \/ (stored = Absent /\ f = Defaults)
    PROVE  Resolved(Serialized(f, p), stored) = f
<1>1. f # Absent
  BY AbsentAssumption
<1>2. Stored(stored) = f
  BY <1>1 DEF Stored
<1> QED
  BY <1>2, RoundTrip DEF Resolved

\* There is a page if there is an issue.
LEMMA Pages ==
    ASSUME NEW n \in Nat
    PROVE  /\ (n + PageSize - 1) \div PageSize \in Nat
           /\ n > 0 => (n + PageSize - 1) \div PageSize > 0
<1>1. PageSize \in Nat \ {0}
  BY ListSizes
<1> QED
  BY <1>1

\* The answer to a query is one, and tells what it is to.
LEMMA AnsweredType ==
    ASSUME ListTyped, NEW q \in Query
    PROVE  Answered(q) \in Answer /\ Tells(Answered(q), q)
<1> DEFINE S == Matching(q)
           total == Cardinality(Issues(S))
           pages == (total + PageSize - 1) \div PageSize
<1>1. /\ Effective(q) \in SUBSET Statuses /\ Listed(q.assignee, {}) \in SUBSET Mates
      /\ Parsed(q).sort \in Sorts /\ q.page \in Nat \ {0}
  BY ListSizes DEF Query, Effective, Listed, Parsed
<1>2. S \in SUBSET Statuses
  BY <1>1 DEF Matching
<1>3. total \in Nat
  <2>1. IsFiniteSet(S) /\ IsFiniteSet(1..MaxIssues)
    BY <1>2, ListSizes, FS_Subset, FS_Interval
  <2> HIDE DEF S
  <2>2. IsFiniteSet(S \X (1..MaxIssues))
    BY <2>1, FS_Product
  <2>3. Issues(S) \subseteq S \X (1..MaxIssues)
    BY DEF Issues
  <2>4. IsFiniteSet(Issues(S))
    BY <2>2, <2>3, FS_Subset
  <2> QED
    BY <2>4, FS_CardinalityType
<1>4. Answered(q) = [status |-> Effective(q), assignee |-> Listed(q.assignee, {}),
                     sort |-> Parsed(q).sort, page |-> q.page, total |-> total, pages |-> pages]
  BY DEF Answered
<1> HIDE DEF S, total
<1>5. pages \in Nat /\ (total > 0 => pages > 0)
  BY <1>3, Pages
<1> HIDE DEF pages
<1> QED
  BY <1>1, <1>3, <1>4, <1>5 DEF Answer, Tells

-----------------------------------------------------------------------------
(* The steps                                                               *)

\* A fetch, in addition to requests under way or after all of these were lost:
\* nothing is shown, and the newest request asks for what is wanted.
LEMMA FetchKeeps ==
    ASSUME Asked, Truthful, NEW f \in Filter, NEW p \in Nat \ {0},
           NEW rs \in SUBSET requests, NEW n \in Nat, n = requestSeq \/ rs = {},
           Fetch(f, p, rs, n), filters' = f, page' = p, gone' = gone
    PROVE  Asked' /\ Truthful' /\ Wanted' /\ OnShow' /\ InError'
<1> DEFINE q == Serialized(f, p)
           new == [seq |-> n + 1, query |-> q, answer |-> Absent]
<1>1. /\ requests' = rs \cup {new} /\ requestSeq' = n + 1 /\ pending' = TRUE /\ list' = Absent
  BY DEF Fetch
<1>2. q \in Query
  BY RoundTrip
<1>3. new \in Request /\ new.seq = n + 1 /\ new.query = q /\ new.answer = Absent
  <2> HIDE DEF q
  <2> QED
    BY <1>2 DEF Request
<1>4. q = Serialized(filters', page')
  BY DEF Serialized
<1> HIDE DEF q, new
<1>5. \A r \in rs : r \in Request /\ r.seq \in Nat /\ r.seq < n + 1
  BY DEF Asked, Request
<1>6. Asked'
  BY <1>1, <1>3, <1>5 DEF Asked
<1>7. Truthful'
  <2>1. ~Listing(new) /\ new.answer # Refused
    BY <1>3, ListSizes DEF Listing
  <2> QED
    BY <1>1, <2>1 DEF Truthful, Listing, Tells, Effective, Parsed
<1>8. Wanted'
  BY <1>1, <1>3, <1>4, <1>5 DEF Wanted, Newest
<1> QED
  BY <1>1, <1>6, <1>7, <1>8 DEF OnShow, InError

\* Nothing is asked.
LEMMA AsksStay ==
    ASSUME Asked, Truthful, requests' \subseteq requests, requestSeq' = requestSeq,
           gone \subseteq gone'
    PROVE  Asked' /\ Truthful'
<1>1. Asked'
  BY DEF Asked
<1>2. Truthful'
  BY DEF Truthful, Listing
<1> QED
  BY <1>1, <1>2

\* What the user wants changes: a fetch follows at once, or is due.
LEMMA FilterChangeKeeps ==
    ASSUME ListInv, NEW f \in Filter, FilterChange(f)
    PROVE  ListInv'
<1>1. /\ filters' = f /\ bar' = f /\ page' = 1 /\ url' = Serialized(f, 1) /\ storage' = f
      /\ timer' = TRUE /\ applied' = TRUE /\ acts < MaxActs /\ acts' = acts + 1
      /\ UNCHANGED <<clearable, offered, requestSeq, requests, pending, list, count, members,
                     gone, changes, failures, views, ghost>>
  BY DEF FilterChange, SaveToStorage, NoFetch, ServerAlone, ViewStays, serverVars, Act
<1>2. ListTyped'
  BY <1>1, RoundTrip, ListSizes DEF ListInv, ListTyped
<1>3. Asked' /\ Truthful'
  BY <1>1, AsksStay DEF ListInv
<1>4. Wanted' /\ OnShow' /\ InError'
  BY <1>1 DEF Wanted, OnShow, InError
<1>5. Restorable'
  BY <1>1 DEF Restorable, Serialized
<1> QED
  BY <1>2, <1>3, <1>4, <1>5 DEF ListInv

\* A step of the user that fetches at once.
LEMMA FetchingKeeps ==
    ASSUME ListInv, NEW f \in Filter, NEW p \in Nat \ {0},
           filters' = f, page' = p, Fetch(f, p, requests, requestSeq),
           url' = Serialized(f, p),
           storage' \in {Absent} \cup Filter, applied' \in BOOLEAN, acts' \in 0..MaxActs,
           bar' \in Filter, clearable' \in BOOLEAN, timer' \in BOOLEAN,
           UNCHANGED <<count, members, gone, offered, changes, failures, ghost>>,
           Restorable'
    PROVE  ListInv'
<1>1. pending' = TRUE /\ list' = Absent
  BY DEF Fetch
<1>2. ListTyped'
  BY <1>1, RoundTrip DEF ListInv, ListTyped
<1>3. requests \in SUBSET requests /\ requestSeq \in Nat
  BY DEF ListInv, Asked
<1>4. Asked' /\ Truthful' /\ Wanted' /\ OnShow' /\ InError'
  BY <1>3, FetchKeeps DEF ListInv
<1> QED
  BY <1>2, <1>4 DEF ListInv

\* Sorting, clearing and resetting: the URL and storage follow the filters.
LEMMA ControlsKeep ==
    ASSUME ListInv, (\E s \in Sorts : SortChange(s)) \/ Clear \/ Reset
    PROVE  ListInv'
<1>0. filters \in Filter /\ storage \in {Absent} \cup Filter /\ Defaults \in Filter
  BY ListSizes DEF ListInv, ListTyped, Defaults, Filter
<1>1. CASE \E s \in Sorts : SortChange(s)
  <2> PICK s \in Sorts : SortChange(s)
    BY <1>1
  <2> DEFINE f == [filters EXCEPT !.sort = s]
  <2>1. f \in Filter
    BY <1>0 DEF Filter
  <2>2. /\ filters' = f /\ page' = 1 /\ url' = Serialized(f, 1) /\ storage' = f
        /\ Fetch(f, 1, requests, requestSeq) /\ applied' = TRUE /\ acts < MaxActs
        /\ acts' = acts + 1
        /\ UNCHANGED <<bar, clearable, offered, count, members, gone, changes, failures,
                       views, ghost, timer>>
    BY DEF SortChange, Act, ServerAlone, ViewStays, SaveToStorage, serverVars, barVars,
           Fetch, Serialized
  <2> HIDE DEF f
  <2>3. Restorable'
    BY <2>2 DEF Restorable, Serialized
  <2>4. /\ acts' \in 0..MaxActs /\ bar' \in Filter /\ storage' \in {Absent} \cup Filter
        /\ clearable' \in BOOLEAN /\ timer' \in BOOLEAN /\ applied' \in BOOLEAN
    BY <2>1, <2>2, ListSizes DEF ListInv, ListTyped
  <2> QED
    BY <2>1, <2>2, <2>3, <2>4, FetchingKeeps
<1>2. CASE Clear \/ Reset
  <2>1. /\ filters' = Defaults /\ page' = 1 /\ url' = Serialized(Defaults, 1)
        /\ storage' \in {Absent, Defaults} /\ bar' = Defaults /\ clearable' \in BOOLEAN
        /\ Fetch(Defaults, 1, requests, requestSeq) /\ applied' = TRUE /\ acts < MaxActs
        /\ acts' = acts + 1
        /\ UNCHANGED <<offered, count, members, gone, changes, failures, views, ghost,
                       timer>>
    <3>1. /\ ToDefaults /\ Act /\ ServerAlone /\ ViewStays /\ UNCHANGED timer
          /\ SaveToStorage(Defaults) \/ ClearStorage
      BY <1>2 DEF Clear, Reset
    <3>2. storage' \in {Absent, Defaults}
      BY <3>1 DEF SaveToStorage, ClearStorage
    <3>3. acts < MaxActs /\ acts' = acts + 1
      BY <3>1 DEF Act
    <3>4. UNCHANGED <<count, members, gone, changes, failures, views, ghost, timer>>
      BY <3>1 DEF ServerAlone, ViewStays, serverVars
    <3>5. /\ filters' = Defaults /\ page' = 1 /\ url' = Serialized(Defaults, 1)
          /\ bar' = Defaults /\ clearable' \in BOOLEAN /\ offered' = offered
          /\ Fetch(Defaults, 1, requests, requestSeq) /\ applied' = TRUE
      BY <3>1 DEF ToDefaults, BuildBar, IsDefault
    <3> QED
      BY <3>2, <3>3, <3>4, <3>5
  <2>2. Restorable'
    BY <2>1 DEF Restorable, Serialized
  <2>3. /\ acts' \in 0..MaxActs /\ bar' \in Filter /\ clearable' \in BOOLEAN
        /\ timer' \in BOOLEAN
        /\ storage' \in {Absent} \cup Filter /\ applied' \in BOOLEAN
    BY <1>0, <2>1, ListSizes DEF ListInv, ListTyped
  <2> QED
    BY <1>0, <2>1, <2>2, <2>3, FetchingKeeps
<1> QED
  BY <1>1, <1>2

\* A page of the pager, and the fetch that was due.
LEMMA PagingKeeps ==
    ASSUME ListInv,
           TimerFires \/ \E n \in 1..(MaxIssues * Cardinality(Statuses)) : PageChange(n)
    PROVE  ListInv'
<1>1. CASE TimerFires
  <2>1. /\ timer' = FALSE /\ Fetch(filters, page, requests, requestSeq)
        /\ UNCHANGED <<count, members, gone, changes, failures, views, ghost, filters,
                       bar, clearable, offered, page, url, storage, applied, acts>>
    BY <1>1 DEF TimerFires, ServerAlone, ViewStays, serverVars, barVars
  <2>2. pending' = TRUE /\ list' = Absent
    BY <2>1 DEF Fetch
  <2>3. ListTyped'
    BY <2>1, <2>2 DEF ListInv, ListTyped
  <2>4. /\ requests \in SUBSET requests /\ requestSeq \in Nat /\ filters \in Filter
        /\ page \in Nat \ {0}
    BY DEF ListInv, Asked, ListTyped
  <2>5. Asked' /\ Truthful' /\ Wanted' /\ OnShow' /\ InError'
    BY <2>1, <2>4, FetchKeeps DEF ListInv
  <2>6. Restorable'
    BY <2>1 DEF ListInv, Restorable, Serialized
  <2> QED
    BY <2>3, <2>5, <2>6 DEF ListInv
<1>2. CASE \E n \in 1..(MaxIssues * Cardinality(Statuses)) : PageChange(n)
  <2> PICK n : PageChange(n)
    BY <1>2
  <2>1. /\ n \in 1..list.pages /\ list # Absent
        /\ page' = n /\ url' = Serialized(filters, n)
        /\ Fetch(filters, n, requests, requestSeq)
        /\ acts < MaxActs /\ acts' = acts + 1
        /\ UNCHANGED <<count, members, gone, changes, failures, views, ghost, filters,
                       bar, clearable, offered, storage, timer, applied>>
    BY DEF PageChange, TableShown, Act, ServerAlone, ViewStays, serverVars, barVars
  <2>2. n \in Nat \ {0} /\ filters \in Filter
    <3>1. list.pages \in Nat
      BY <2>1 DEF ListInv, ListTyped, Answer
    <3> QED
      BY <2>1, <3>1 DEF ListInv, ListTyped
  <2>3. Restorable'
    BY <2>1, <2>2 DEF ListInv, Restorable, Serialized
  <2>4. /\ acts' \in 0..MaxActs /\ bar' \in Filter /\ clearable' \in BOOLEAN
        /\ timer' \in BOOLEAN
        /\ storage' \in {Absent} \cup Filter /\ applied' \in BOOLEAN /\ filters' = filters
    BY <2>1, ListSizes DEF ListInv, ListTyped
  <2> QED
    BY <2>1, <2>2, <2>3, <2>4, FetchingKeeps
<1> QED
  BY <1>1, <1>2

\* The view is entered anew.
LEMMA EnterKeeps ==
    ASSUME ListInv, NEW q \in Query, Enter(q), ghost' \in {Absent} \cup Ghost
    PROVE  /\ ListInv'
           /\ filters' = Resolved(q, storage)
<1> DEFINE f == Resolved(q, storage)
<1>1. /\ filters' = f /\ bar' = f /\ clearable' = ~IsDefault(f) /\ offered' = members
      /\ page' = q.page /\ Fetch(f, q.page, {}, 0) /\ url' = q
      /\ timer' = FALSE /\ applied' = FALSE /\ acts < MaxActs /\ acts' = acts + 1
      /\ UNCHANGED <<count, members, gone, changes, failures, storage>>
  BY DEF Enter, BuildBar, Act, ServerAlone, serverVars
<1>2. f \in Filter
  BY ResolvedType DEF ListInv, ListTyped
<1>3. q.page \in Nat \ {0}
  BY DEF Query
<1> HIDE DEF f
<1>4. pending' = TRUE /\ list' = Absent
  BY <1>1 DEF Fetch
<1>5. ListTyped'
  <2>1. /\ clearable' \in BOOLEAN /\ timer' \in BOOLEAN /\ applied' \in BOOLEAN
        /\ pending' \in BOOLEAN
    BY <1>1, <1>4 DEF IsDefault
  <2>2. acts' \in 0..MaxActs
    BY <1>1, ListSizes DEF ListInv, ListTyped
  <2>3. filters' \in Filter /\ bar' \in Filter /\ page' \in Nat \ {0} /\ url' \in Query
    BY <1>1, <1>2, <1>3
  <2> QED
    BY <1>1, <1>4, <2>1, <2>2, <2>3 DEF ListInv, ListTyped
<1>6. Asked' /\ Truthful' /\ Wanted' /\ OnShow' /\ InError'
  <2>1. {} \in SUBSET requests /\ 0 \in Nat
    OBVIOUS
  <2> QED
    BY <1>1, <1>2, <1>3, <2>1, FetchKeeps DEF ListInv
<1>7. Restorable'
  BY <1>1 DEF Restorable
<1> QED
  BY <1>1, <1>5, <1>6, <1>7 DEF ListInv, f

\* A hashchange leaves a view behind that may still have a request.
LEMMA LeaveKeeps ==
    ASSUME ListInv, NEW q \in Query, Leave(q)
    PROVE  ListInv' /\ ghost' \in Ghost
<1>1. PICK newest \in IF pending THEN {r.query : r \in {t \in requests : t.seq = requestSeq}}
                       ELSE {Absent} :
         ghost' = [filters |-> filters, page |-> page, timer |-> timer, query |-> newest]
  BY DEF Leave
<1>2. newest \in {Absent} \cup Query
  BY <1>1 DEF ListInv, Asked, Request
<1>3. ghost' \in Ghost
  BY <1>1, <1>2 DEF ListInv, ListTyped, Ghost
<1> QED
  BY <1>3, EnterKeeps DEF Leave


\* The server answers: truly, and a refusal names somebody who is no member.
LEMMA ListServeKeeps ==
    ASSUME ListInv, NEW r \in requests, Serve(r)
    PROVE  ListInv'
<1> DEFINE t == [r EXCEPT !.answer = Reply(r.query)]
<1>1. /\ requests' = (requests \ {r}) \cup {t}
      /\ UNCHANGED <<count, members, gone, filters, bar, clearable, offered, page, url,
                     storage, timer, pending, list, requestSeq, ghost, applied, acts,
                     changes, failures>>
  BY DEF Serve, serverVars, barVars
<1>2. r \in Request /\ r.query \in Query /\ r.seq \in Nat \ {0} /\ r.seq <= requestSeq
  BY DEF ListInv, Asked, Request
<1>3. /\ Reply(r.query) # Refused =>
              Reply(r.query) \in Answer /\ Tells(Reply(r.query), r.query)
      /\ Reply(r.query) = Refused => Listed(r.query.assignee, {}) \cap gone # {}
  <2>1. Answered(r.query) \in Answer /\ Tells(Answered(r.query), r.query)
    BY <1>2, AnsweredType DEF ListInv
  <2>2. Answered(r.query) # Refused
    BY <2>1, AbsentAssumption
  <2>3. Listed(r.query.assignee, {}) \in SUBSET Mates
    BY <1>2, ListSizes DEF Query, Listed
  <2>4. ~Admitted(r.query) => Listed(r.query.assignee, {}) \cap gone # {}
    BY <2>3 DEF Admitted, ListInv, ListTyped
  <2> QED
    BY <2>1, <2>2, <2>4 DEF Reply
<1>4. t \in Request /\ t.seq = r.seq /\ t.query = r.query /\ t.answer = Reply(r.query)
  <2>1. Reply(r.query) \in {Absent, Refused} \cup Answer
    BY <1>3
  <2> QED
    BY <1>2, <2>1 DEF Request
<1> HIDE DEF t
<1>5. ListTyped'
  BY <1>1 DEF ListInv, ListTyped
<1>6. Asked'
  BY <1>1, <1>2, <1>4 DEF ListInv, Asked
<1>7. Truthful'
  <2> SUFFICES ASSUME NEW u \in requests'
               PROVE  /\ Listing(u) => Tells(u.answer, u.query)
                      /\ u.answer = Refused => Listed(u.query.assignee, {}) \cap gone # {}
    BY <1>1 DEF Truthful, Tells, Effective, Parsed, Listing
  <2>1. CASE u \in requests
    BY <2>1 DEF ListInv, Truthful
  <2>2. CASE u = t
    BY <1>3, <1>4, <2>2 DEF Listing
  <2> QED
    BY <1>1, <2>1, <2>2
<1>8. Wanted'
  BY <1>1, <1>4 DEF ListInv, Wanted, Newest, Serialized
<1>9. OnShow' /\ InError' /\ Restorable'
  BY <1>1 DEF ListInv, OnShow, InError, Restorable, Serialized, Effective
<1> QED
  BY <1>5, <1>6, <1>7, <1>8, <1>9 DEF ListInv

\* A stale answer is dropped.
LEMMA IgnoreKeeps ==
    ASSUME ListInv, NEW r \in requests, Ignore(r)
    PROVE  ListInv'
<1>1. /\ requests' = requests \ {r}
      /\ UNCHANGED <<count, members, gone, filters, bar, clearable, offered, page, url,
                     storage, timer, pending, list, requestSeq, ghost, applied, acts,
                     changes, failures>>
  BY DEF Ignore, serverVars, barVars
<1>2. ListTyped'
  BY <1>1 DEF ListInv, ListTyped
<1>3. Asked' /\ Truthful'
  BY <1>1, AsksStay DEF ListInv
<1>4. Wanted'
  BY <1>1 DEF ListInv, Wanted, Newest, Serialized
<1>5. OnShow' /\ InError' /\ Restorable'
  BY <1>1 DEF ListInv, OnShow, InError, Restorable, Serialized, Effective
<1> QED
  BY <1>2, <1>3, <1>4, <1>5 DEF ListInv

\* No request is the newest once that one is over.
LEMMA NewestOver ==
    ASSUME Asked, NEW r \in requests, Newest(r)
    PROVE  \A t \in requests \ {r} : ~Newest(t)
BY DEF Asked, Newest

\* The page wanted is not there: the last one is fetched.
LEMMA TurnKeeps ==
    ASSUME ListInv, NEW r \in requests, Turn(r)
    PROVE  ListInv'
<1> DEFINE p == r.answer.pages
<1>1. /\ Listing(r) /\ Overshoots(r.answer)
      /\ page' = p /\ url' = Serialized(filters, p)
      /\ Fetch(filters, p, requests \ {r}, requestSeq)
      /\ UNCHANGED <<count, members, gone, changes, failures, ghost, views, filters, bar,
                     clearable, offered, storage, timer, applied, acts>>
  BY DEF Turn, ServerAlone, ViewStays, serverVars, barVars, Serialized, Fetch
<1>2. r.answer \in Answer /\ Tells(r.answer, r.query)
  BY <1>1 DEF ListInv, Asked, Request, Truthful, Listing
<1>3. p \in Nat \ {0}
  BY <1>1, <1>2 DEF Answer, Tells, Overshoots
<1>4. filters \in Filter /\ requestSeq \in Nat /\ requests \ {r} \in SUBSET requests
  BY DEF ListInv, ListTyped, Asked
<1> HIDE DEF p
<1>5. pending' = TRUE /\ list' = Absent
  BY <1>1 DEF Fetch
<1>6. url' \in Query
  BY <1>1, <1>3, <1>4, RoundTrip
<1>7. ListTyped'
  BY <1>1, <1>3, <1>5, <1>6 DEF ListInv, ListTyped
<1>8. Asked' /\ Truthful' /\ Wanted' /\ OnShow' /\ InError'
  BY <1>1, <1>3, <1>4, FetchKeeps DEF ListInv
<1>9. Restorable'
  <2>1. url' = Serialized(filters', url'.page)
    BY <1>1 DEF Serialized
  <2> QED
    BY <1>1, <2>1 DEF ListInv, Restorable
<1> QED
  BY <1>7, <1>8, <1>9 DEF ListInv

\* An answer is shown: of the page that is wanted, or of the first when there is
\* nothing to show.
LEMMA ShowKeeps ==
    ASSUME ListInv, NEW r \in requests, Show(r)
    PROVE  ListInv'
<1> DEFINE a == r.answer
           home == a.total = 0 /\ page > 1
           b == [a EXCEPT !.page = page']
<1>1. /\ Listing(r) /\ Newest(r) /\ ~Overshoots(a)
      /\ page' = (IF home THEN 1 ELSE a.page)
      /\ url' = (IF home THEN Serialized(filters, 1) ELSE url)
      /\ list' = b /\ pending' = FALSE /\ requests' = requests \ {r}
      /\ UNCHANGED <<count, members, gone, changes, failures, ghost, views, filters, bar,
                     clearable, offered, storage, timer, requestSeq, applied, acts>>
  BY DEF Show, ServerAlone, ViewStays, serverVars, barVars
<1>2. a \in Answer /\ Tells(a, r.query) /\ r.query \in Query
  BY <1>1 DEF ListInv, Asked, Request, Truthful, Listing
<1>3. /\ a.page \in Nat \ {0} /\ a.total \in Nat /\ a.pages \in Nat /\ page \in Nat \ {0}
      /\ filters \in Filter /\ url \in Query
  BY <1>2 DEF Answer, ListInv, ListTyped
<1>4. page' \in Nat \ {0}
  BY <1>1, <1>3
<1>5. /\ b \in Answer /\ b.page = page' /\ b.status = a.status /\ b.assignee = a.assignee
      /\ b.sort = a.sort /\ b.total = a.total /\ b.pages = a.pages
  BY <1>2, <1>4 DEF Answer
<1>6. Serialized(filters, 1) \in Query
  BY <1>3, RoundTrip
<1> HIDE DEF b
<1>7. url' \in Query
  BY <1>1, <1>3, <1>6
<1>8. ListTyped'
  <2> HIDE DEF a
  <2> QED
    BY <1>1, <1>4, <1>5, <1>7 DEF ListInv, ListTyped
<1>9. Asked' /\ Truthful'
  BY <1>1, AsksStay DEF ListInv
<1>10. Wanted'
  <2>1. \A t \in requests \ {r} : ~Newest(t)
    BY <1>1, NewestOver DEF ListInv
  <2> QED
    BY <1>1, <2>1 DEF Wanted, Newest
<1>11. OnShow'
  <2> SUFFICES ASSUME ~timer
               PROVE  /\ b.sort = filters.sort
                      /\ b.status = Effective(Serialized(filters, page'))
                      /\ b.assignee = filters.assignee /\ b.page = page'
                      /\ page' <= b.pages \/ (b.total = 0 /\ page' = 1)
    BY <1>1 DEF OnShow, Effective, Serialized
  <2>1. r.query = Serialized(filters, page)
    BY <1>1 DEF ListInv, Wanted
  <2>2. /\ a.status = Effective(Serialized(filters, page))
        /\ a.assignee = filters.assignee /\ a.sort = filters.sort /\ a.page = page
    BY <1>2, <1>3, <2>1, RoundTrip DEF Tells
  <2>3. Effective(Serialized(filters, page))
          = Effective(Serialized(filters, page'))
    BY DEF Effective, Serialized
  <2>4. page' <= b.pages \/ (b.total = 0 /\ page' = 1)
    <3> HIDE DEF a
    <3> QED
      BY <1>1, <1>3, <1>5, <2>2 DEF Overshoots
  <2> QED
    BY <1>5, <2>2, <2>3, <2>4
<1>12. InError'
  <2>1. b # Absent
    BY <1>5, AbsentAssumption
  <2> QED
    BY <1>1, <2>1 DEF InError
<1>13. Restorable'
  <2> HIDE DEF home
  <2> QED
    BY <1>1 DEF ListInv, Restorable, Serialized
<1> QED
  BY <1>8, <1>9, <1>10, <1>11, <1>12, <1>13 DEF ListInv

\* A refusal or a failure ends the newest request in an error, or is not noticed.
LEMMA ErrorKeeps ==
    ASSUME ListInv, NEW r \in requests, ShowRefusal(r) \/ Fail(r)
    PROVE  ListInv'
<1>1. /\ requests' = requests \ {r} /\ pending' \in BOOLEAN /\ failures' \in 0..MaxFailures
      /\ UNCHANGED <<count, members, gone, changes, ghost, filters, bar, clearable, offered,
                     page, url, storage, timer, list, requestSeq, applied, acts>>
  <2>1. CASE ShowRefusal(r)
    BY <2>1 DEF ShowRefusal, ServerAlone, ViewStays, serverVars, barVars, ListInv, ListTyped
  <2>2. CASE Fail(r)
    <3>1. failures' \in 0..MaxFailures
      BY <2>2, ListSizes DEF Fail, ListInv, ListTyped
    <3> QED
      BY <2>2, <3>1 DEF Fail, serverVars, barVars
  <2> QED
    BY <2>1, <2>2
<1>2. ListTyped'
  BY <1>1 DEF ListInv, ListTyped
<1>3. Asked' /\ Truthful'
  BY <1>1, AsksStay DEF ListInv
<1>4. Wanted'
  BY <1>1 DEF ListInv, Wanted, Newest, Serialized
<1>5. OnShow' /\ Restorable'
  BY <1>1 DEF ListInv, OnShow, Restorable, Serialized, Effective
<1>6. InError'
  <2>1. CASE Fail(r)
    BY <2>1 DEF Fail, InError, ListInv, ListTyped
  <2>2. CASE ShowRefusal(r)
    <3>1. Newest(r) /\ r.answer = Refused
      BY <2>2 DEF ShowRefusal
    <3>2. Listed(r.query.assignee, {}) \cap gone # {}
      BY <3>1 DEF ListInv, Truthful
    <3>3. ~timer => r.query = Serialized(filters, page)
      BY <3>1 DEF ListInv, Wanted
    <3>4. Listed(Serialized(filters, page).assignee, {}) = filters.assignee
      BY RoundTrip DEF ListInv, ListTyped
    <3> QED
      BY <1>1, <3>2, <3>3, <3>4 DEF InError
  <2> QED
    BY <2>1, <2>2
<1> QED
  BY <1>2, <1>3, <1>4, <1>5, <1>6 DEF ListInv

\* The view that was left touches the URL only, for which nothing is promised.
LEMMA GhostKeeps ==
    ASSUME ListInv, GhostFetches \/ GhostAnswered \/ GhostRefused
    PROVE  ListInv'
<1>1. ghost \in Ghost /\ ghost # Absent
  BY AbsentAssumption DEF GhostFetches, GhostAnswered, GhostRefused, ListInv, ListTyped
<1>2. /\ UNCHANGED <<count, members, gone, filters, bar, clearable, offered, page, storage,
                     timer, pending, list, requests, requestSeq, applied, acts, changes,
                     failures>>
  BY DEF GhostFetches, GhostAnswered, GhostRefused, serverVars, barVars
<1>3. ghost.filters \in Filter /\ ghost.page \in Nat \ {0} /\ url \in Query
  BY <1>1 DEF Ghost, ListInv, ListTyped
<1>4. ghost' \in Ghost /\ url' \in Query
  <2>1. CASE GhostFetches
    <3> DEFINE q == Serialized(ghost.filters, ghost.page)
    <3>1. q \in Query
      BY <1>3, RoundTrip
    <3>2. ghost' = [ghost EXCEPT !.timer = FALSE, !.query = q] /\ url' = url
      BY <2>1 DEF GhostFetches
    <3> HIDE DEF q
    <3> QED
      BY <1>1, <1>3, <3>1, <3>2 DEF Ghost
  <2>2. CASE GhostAnswered
    <3> DEFINE a == Answered(ghost.query)
               beyond == a.total > 0 /\ ghost.page > a.pages
               home == a.total = 0 /\ ghost.page > 1
               there == IF beyond THEN a.pages ELSE IF home THEN 1 ELSE a.page
               q == Serialized(ghost.filters, there)
    <3>1. /\ ghost.query # Absent
          /\ url' = (IF beyond \/ home THEN q ELSE url)
          /\ ghost' = [ghost EXCEPT !.page = there, !.query = IF beyond THEN q ELSE Absent]
      BY <2>2 DEF GhostAnswered
    <3>2. ghost.query \in Query
      BY <1>1, <3>1 DEF Ghost
    <3>3. a \in Answer /\ Tells(a, ghost.query)
      BY <3>2, AnsweredType DEF ListInv
    <3> HIDE DEF a
    <3>4. there \in Nat \ {0}
      BY <3>3 DEF Answer, Tells
    <3> HIDE DEF there
    <3>5. q \in Query
      BY <1>3, <3>4, RoundTrip
    <3> HIDE DEF q, beyond, home
    <3> QED
      BY <1>1, <1>3, <3>1, <3>4, <3>5 DEF Ghost
  <2>3. CASE GhostRefused
    BY <1>1, <1>3, <2>3 DEF GhostRefused, Ghost
  <2> QED
    BY <2>1, <2>2, <2>3
<1>5. ListTyped'
  BY <1>2, <1>4 DEF ListInv, ListTyped
<1>6. Asked' /\ Truthful'
  BY <1>2, AsksStay DEF ListInv
<1>7. Wanted' /\ OnShow' /\ InError'
  BY <1>2 DEF ListInv, Wanted, OnShow, InError, Newest, Serialized, Effective
<1>8. Restorable'
  BY <1>4, AbsentAssumption DEF Restorable
<1> QED
  BY <1>5, <1>6, <1>7, <1>8 DEF ListInv

\* What others do is seen with the next answer.
LEMMA ChangesKeep ==
    ASSUME ListInv, (\E s \in Statuses, n \in 0..MaxIssues : ChangeIssues(s, n))
                 \/ (\E m \in Mates : ChangeMembers(m))
    PROVE  ListInv'
<1>1. /\ UNCHANGED <<filters, bar, clearable, offered, page, url, storage, timer, pending,
                     list, requests, requestSeq, ghost, applied, acts, failures>>
      /\ gone \subseteq gone' /\ changes < MaxChanges
      /\ changes' = changes + 1
  BY DEF ChangeIssues, ChangeMembers, barVars
<1>2. /\ count' \in [Statuses -> 0..MaxIssues]
      /\ members' \subseteq Mates /\ gone' \subseteq Mates /\ Mates \ members' \subseteq gone'
  <2>1. CASE \E s \in Statuses, n \in 0..MaxIssues : ChangeIssues(s, n)
    BY <2>1 DEF ChangeIssues, ListInv, ListTyped
  <2>2. CASE \E m \in Mates : ChangeMembers(m)
    BY <2>2 DEF ChangeMembers, ListInv, ListTyped
  <2> QED
    BY <2>1, <2>2
<1>3. changes' \in 0..MaxChanges
  BY <1>1, ListSizes DEF ListInv, ListTyped
<1>4. ListTyped'
  BY <1>1, <1>2, <1>3 DEF ListInv, ListTyped
<1>5. Asked' /\ Truthful'
  BY <1>1, AsksStay DEF ListInv
<1>6. Wanted' /\ OnShow' /\ Restorable'
  BY <1>1 DEF ListInv, Wanted, OnShow, Restorable, Newest, Serialized, Effective
<1>7. InError'
  BY <1>1 DEF ListInv, InError
<1> QED
  BY <1>4, <1>5, <1>6, <1>7 DEF ListInv

-----------------------------------------------------------------------------
(* The invariant and the theorems                                          *)

\* Whatever link is followed and whatever was stored.
LEMMA ListInvInit ==
    ASSUME ListInit
    PROVE  ListInv
<1>1. PICK f \in Links \cup {Defaults}, p \in 1..2, stored \in Links \cup {Absent} :
         Entered(Serialized(f, p), stored)
  BY DEF ListInit
<1> DEFINE q == Serialized(f, p)
           g == Resolved(q, stored)
<1>2. f \in Filter /\ p \in Nat \ {0} /\ stored \in {Absent} \cup Filter
  BY ListSizes DEF Defaults, Filter
<1>3. q \in Query /\ q.page \in Nat \ {0}
  BY <1>2, RoundTrip
<1>4. /\ filters = g /\ bar = g /\ clearable = ~IsDefault(g) /\ offered = members
      /\ page = q.page /\ url = q /\ storage = stored
      /\ timer = FALSE /\ pending = TRUE /\ list = Absent
      /\ requests = {[seq |-> 1, query |-> Serialized(g, q.page), answer |-> Absent]}
      /\ requestSeq = 1
  BY <1>1 DEF Entered
<1>5. g \in Filter
  BY <1>2, <1>3, ResolvedType
<1> HIDE DEF q, g
<1>6. Serialized(g, q.page) \in Query
  BY <1>3, <1>5, RoundTrip
<1>7. ListTyped
  <2>1. /\ clearable \in BOOLEAN /\ timer \in BOOLEAN /\ pending \in BOOLEAN
        /\ applied \in BOOLEAN
    BY <1>4 DEF IsDefault, ListInit
  <2>2. acts \in 0..MaxActs /\ changes \in 0..MaxChanges /\ failures \in 0..MaxFailures
    BY ListSizes DEF ListInit
  <2>3. /\ count \in [Statuses -> 0..MaxIssues] /\ members \subseteq Mates
        /\ gone = Mates \ members /\ ghost = Absent
    BY DEF ListInit
  <2> QED
    BY <1>2, <1>3, <1>4, <1>5, <2>1, <2>2, <2>3 DEF ListTyped
<1>8. Asked
  BY <1>4, <1>6 DEF Asked, Request
<1>9. Truthful
  BY <1>4, ListSizes DEF Truthful, Listing
<1>10. Wanted
  BY <1>4 DEF Wanted
<1>11. OnShow /\ InError
  BY <1>4 DEF OnShow, InError
<1>12. Restorable
  BY DEF ListInit, Restorable
<1> QED
  BY <1>7, <1>8, <1>9, <1>10, <1>11, <1>12 DEF ListInv

\* A link is a query string.
LEMMA LinkQuery ==
    ASSUME NEW f \in Links \cup {Defaults}
    PROVE  Serialized(f, 1) \in Query
<1>1. f \in Filter
  BY ListSizes DEF Defaults, Filter
<1> QED
  BY <1>1, RoundTrip

\* The page is loaded again, with the URL there is.
LEMMA ReloadKeeps ==
    ASSUME ListInv, Reload
    PROVE  ListInv'
<1>1. url \in Query /\ Enter(url) /\ ghost' = Absent
  BY DEF Reload, ListInv, ListTyped
<1> QED
  BY <1>1, EnterKeeps

\* Every step of the list keeps the invariant.
LEMMA ListInvStep ==
    ASSUME ListInv, [ListNext]_listVars
    PROVE  ListInv'
<1>1. ASSUME NEW f \in Filter, FilterChange(f)
      PROVE  ListInv'
  BY <1>1, FilterChangeKeeps
<1>2. CASE (\E s \in Sorts : SortChange(s)) \/ Clear \/ Reset
  BY <1>2, ControlsKeep
<1>3. CASE TimerFires \/ \E n \in 1..(MaxIssues * Cardinality(Statuses)) : PageChange(n)
  BY <1>3, PagingKeeps
<1>4. CASE Reload
  BY <1>4, ReloadKeeps
<1>5. ASSUME NEW f \in Links \cup {Defaults}, Leave(Serialized(f, 1))
      PROVE  ListInv'
  BY <1>5, LinkQuery, LeaveKeeps
<1>6. CASE GhostFetches \/ GhostAnswered \/ GhostRefused
  BY <1>6, GhostKeeps
<1>7. ASSUME NEW r \in requests,
             Serve(r) \/ Ignore(r) \/ Turn(r) \/ Show(r) \/ ShowRefusal(r) \/ Fail(r)
      PROVE  ListInv'
  BY <1>7, ListServeKeeps, IgnoreKeeps, TurnKeeps, ShowKeeps, ErrorKeeps
<1>8. CASE (\E s \in Statuses, n \in 0..MaxIssues : ChangeIssues(s, n))
           \/ (\E m \in Mates : ChangeMembers(m))
  BY <1>8, ChangesKeep
<1>9. CASE UNCHANGED listVars
  <2>1. UNCHANGED <<count, members, gone, filters, bar, clearable, offered, page, url,
                    storage, timer, pending, list, requests, requestSeq, ghost, applied, acts,
                    changes, failures>>
    BY <1>9 DEF listVars, serverVars, barVars
  <2>2. ListTyped'
    BY <2>1 DEF ListInv, ListTyped
  <2>3. Asked' /\ Truthful'
    BY <2>1, AsksStay DEF ListInv
  <2>4. Wanted' /\ OnShow' /\ InError' /\ Restorable'
    BY <2>1 DEF ListInv, Wanted, OnShow, InError, Restorable, Newest, Serialized, Effective
  <2> QED
    BY <2>2, <2>3, <2>4 DEF ListInv
<1> QED
  BY <1>1, <1>2, <1>3, <1>4, <1>5, <1>6, <1>7, <1>8, <1>9 DEF ListNext, Progress

\* The invariant of the list, from which the theorems follow.
THEOREM ListInvariance == ListSpec => []ListInv
<1>1. ListInit => ListInv
  BY ListInvInit
<1>2. ListInv /\ [ListNext]_listVars => ListInv'
  BY ListInvStep
<1> QED
  BY <1>1, <1>2, PTL DEF ListSpec

\* Once the list has settled it is the list of the filters and the page the view
\* has now (and of all statuses if the filters name none or the default ones), in whatever order requests were answered, and an error has a reason:
\* for every number of statuses, mates, issues, acts and faults.
THEOREM SettledIsCurrent == ListSpec => []SettledListIsCurrent
<1>1. ListInv => \/ Effective(Serialized(filters, page)) = filters.status
                 \/ /\ filters.status \in {{}, Open}
                    /\ Effective(Serialized(filters, page)) = Statuses
  <2>1. Serialized(filters, page).status = IF filters.status = Open THEN Absent ELSE filters.status
    BY DEF Serialized
  <2>2. CASE filters.status = Open
    BY <2>1, <2>2 DEF Effective, Listed
  <2>3. CASE filters.status # Open /\ filters.status # Absent
    BY <2>1, <2>3 DEF Effective, Listed
  <2>4. ListInv => filters.status # Absent
    BY ListAssumption DEF ListInv, ListTyped, Filter
  <2> QED
    BY <2>1, <2>2, <2>3, <2>4
<1>2. ListInv => SettledListIsCurrent
  <2>1. ListInv /\ Settled => /\ list.sort = filters.sort /\ list.assignee = filters.assignee
                             /\ list.page = page
                             /\ list.status = Effective(Serialized(filters, page))
    BY DEF ListInv, OnShow, Settled
  <2>2. ListInv => InError
    BY DEF ListInv
  <2> QED
    BY <1>1, <2>1, <2>2 DEF InError, SettledListIsCurrent
<1> QED
  BY <1>2, ListInvariance, PTL

\* The page on show exists, and the types of the state.
THEOREM PageThere == ListSpec => []PageExists
<1>1. ListInv => PageExists
  BY DEF ListInv, ListTyped, Asked, OnShow, PageExists, Settled, ListTypeOK
<1> QED
  BY <1>1, ListInvariance, PTL

\* Only entering enters; and the filters chosen come back.
LEMMA EnterRestores ==
    ASSUME ListInv, [ListNext]_listVars, views' # views, ghost = Absent, ghost' = Absent,
           applied
    PROVE  filters' = filters
<1>1. Reload
  <2>1. ASSUME NEW f \in Links \cup {Defaults}, Leave(Serialized(f, 1))
        PROVE  FALSE
    <3>1. ghost' \in Ghost
      BY <2>1, LinkQuery, LeaveKeeps
    <3> QED
      BY <3>1, AbsentAssumption
  <2>2. UNCHANGED listVars => views' = views
    BY DEF listVars
  <2>3. ASSUME NEW r \in requests,
               \/ Serve(r) \/ Ignore(r) \/ Turn(r)
               \/ Show(r) \/ ShowRefusal(r) \/ Fail(r)
        PROVE  views' = views
    BY <2>3 DEF Serve, Ignore, Turn, Show, ShowRefusal, Fail, ViewStays
  <2>4. (\E f \in Filter : FilterChange(f)) \/ (\E s \in Sorts : SortChange(s))
        \/ Clear \/ Reset \/ TimerFires
        \/ (\E n \in 1..(MaxIssues * Cardinality(Statuses)) : PageChange(n))
          => views' = views
    BY DEF FilterChange, SortChange, Clear, Reset, TimerFires, PageChange, ViewStays
  <2>5. GhostFetches \/ GhostAnswered \/ GhostRefused
        \/ (\E s \in Statuses, n \in 0..MaxIssues : ChangeIssues(s, n))
        \/ (\E m \in Mates : ChangeMembers(m)) => views' = views
    BY DEF GhostFetches, GhostAnswered, GhostRefused, ChangeIssues, ChangeMembers
  <2> QED
    BY <2>1, <2>2, <2>3, <2>4, <2>5 DEF ListNext, Progress
<1>2. url \in Query /\ Enter(url)
  BY <1>1 DEF Reload, ListInv, ListTyped
<1>3. filters' = Resolved(url, storage)
  BY <1>2, EnterKeeps
<1>4. /\ url = Serialized(filters, url.page)
      /\ storage = filters \/ (storage = Absent /\ filters = Defaults)
      /\ filters \in Filter /\ url.page \in Nat \ {0}
  BY <1>2 DEF ListInv, Restorable, ListTyped, Query
<1> QED
  BY <1>3, <1>4, Resolves

\* Loading the page again brings back the filters that were chosen, unless a view
\* was left before.
THEOREM ReloadRestoresChosen == ListSpec => ReloadRestores
<1>1. ListInv /\ [ListNext]_listVars
        => [views' # views /\ ghost = Absent /\ ghost' = Absent /\ applied
              => filters' = filters]_listVars
  BY EnterRestores
<1> QED
  BY <1>1, ListInvariance, PTL DEF ListSpec, ReloadRestores
=============================================================================
