----------------------------- MODULE IssueDetail -----------------------------
(***************************************************************************)
(* One open issue page of the browser client, public/views/issueDetail.js, *)
(* with the state its components keep (CommentBox.js,                      *)
(* AttachmentDropzone.js, SaveBar.js), against the server and other users. *)
(*                                                                         *)
(* The page runs one callback at a time; what awaits the network is a call *)
(* of the set Calls.  The server handles a request at once, its answer     *)
(* arrives whenever it does.  render() rebuilds the page: what the user    *)
(* typed into the comment box or dropped beside it is in the old nodes and *)
(* goes with them.                                                         *)
(*                                                                         *)
(* Values are chosen once: Mine are what the user of this page types, and  *)
(* Theirs what others set; First is what the issue has at the start.       *)
(***************************************************************************)
EXTENDS Naturals, FiniteSets

CONSTANTS
    Fields,         \* the keys of a patch
    Mine, Theirs,   \* values
    First,
    None,           \* no value, no issue, no call
    Calls,          \* handlers that may await at the same time
    Kinds,          \* the handlers of this instance
    MaxEdits,       \* bound: values committed, comments typed, files staged
    MaxStarts,      \* bound: handlers started
    MaxElsewhere,   \* bound: changes by other users
    MaxFaults       \* bound: requests that fail

\* Handlers with a busy flag: saving, commenting, watchBusy, archiving.
Flagged == {"save", "comment", "watch", "archive"}

ASSUME DetailAssumption ==
    /\ Mine \cap Theirs = {}
    /\ First \notin Mine \cup Theirs
    /\ None \notin Mine \cup Theirs \cup {First}
    /\ Calls # {}
    /\ Kinds \subseteq Flagged \cup {"upload"}
    /\ {MaxEdits, MaxStarts, MaxElsewhere, MaxFaults} \subseteq Nat

VARIABLES
    server,       \* the issue: its fields and their revision, whether the user
                  \* watches it and the revision of that
    issue,        \* ctx.issue and ctx.isWatching: None before the first load
    failed,       \* ctx.error is set
    pendingPatch, \* ctx.pendingPatch: None for a key it does not have
    note,         \* ctx.saveNote is not empty
    busy,         \* the flags that are set
    typed,        \* the comment box holds a text
    staged,       \* the comment dropzone holds files
    seq,          \* ctx.requestSeq
    calls,        \* the handlers under way
    acked,        \* the newest revision that a handler which refetches was told of
    crossing,     \* observed: handlers that were under way together with a watch
                  \* toggle, or are a toggle that was not alone
    starts, edits, elsewhere, faults

pageVars == <<issue, failed, pendingPatch, note, busy, typed, staged, seq>>
vars == <<server, pageVars, calls, acked, crossing, starts, edits, elsewhere, faults>>

-----------------------------------------------------------------------------
Values == Mine \cup Theirs \cup {First}

Snapshot == [field : [Fields -> Values], watching : BOOLEAN, rev : Nat, wrev : Nat]

\* A handler and what it awaits: the answer to its write, the uploads that
\* follow a comment, or a GET, whose reqId is `seq`.  `patch` is the body of a
\* save, `on` the target of a watch toggle, `had` and `sent` tell whether files
\* were staged when a comment was submitted, and whether files were uploaded.
Call == [kind : Kinds \cup {"load"}, at : {"write", "files", "get"}, seq : Nat,
         patch : [Fields -> Values \cup {None}], on : BOOLEAN, had : BOOLEAN,
         sent : BOOLEAN, answer : {"none", "ok", "error"}, got : Snapshot \cup {None}]

ASSUME NoneAssumption == None \notin Snapshot \cup Call

TypeOK ==
    /\ server \in Snapshot
    /\ issue \in Snapshot \cup {None}
    /\ failed \in BOOLEAN
    /\ pendingPatch \in [Fields -> Values \cup {None}]
    /\ note \in BOOLEAN
    /\ busy \subseteq Flagged
    /\ busy = {calls[c].kind : c \in {d \in Calls : calls[d] # None}} \cap Flagged
    /\ typed \in BOOLEAN /\ staged \in BOOLEAN
    /\ calls \in [Calls -> Call \cup {None}]
    /\ \A c \in Calls : calls[c] # None /\ calls[c].at = "get" => calls[c].seq \in 1..seq
    /\ acked \in 0..server.rev /\ crossing \subseteq Calls
    /\ {seq, starts, edits, elsewhere, faults} \subseteq Nat

Empty == [f \in Fields |-> None]

Handler(kind) == [kind |-> kind, at |-> "write", seq |-> 0, patch |-> Empty, on |-> FALSE,
                  had |-> FALSE, sent |-> FALSE, answer |-> "none", got |-> None]

\* The view has just been opened: load() has sent its two GETs.
Init ==
    /\ server = [field |-> [f \in Fields |-> First], watching |-> FALSE, rev |-> 0,
                 wrev |-> 0]
    /\ issue = None /\ failed = FALSE
    /\ pendingPatch = Empty /\ note = FALSE
    /\ busy = {} /\ typed = FALSE /\ staged = FALSE
    /\ seq = 1
    /\ LET c == CHOOSE d \in Calls : TRUE
       IN calls = [d \in Calls |-> IF d = c THEN [Handler("load") EXCEPT !.at = "get", !.seq = 1]
                                    ELSE None]
    /\ acked = 0 /\ crossing = {}
    /\ starts = 0 /\ edits = 0 /\ elsewhere = 0 /\ faults = 0

-----------------------------------------------------------------------------
\* render(): new nodes, an empty comment box and an empty dropzone.
Render == typed' = FALSE /\ staged' = FALSE

NoRender == UNCHANGED <<typed, staged>>

\* The page shows the issue and its controls.
Shown == issue # None /\ ~failed

Dirty == {f \in Fields : pendingPatch[f] # None}

Finish(c) == calls' = [calls EXCEPT ![c] = None]

Counts == UNCHANGED <<crossing, starts, edits, elsewhere, faults>>

-----------------------------------------------------------------------------
(* The user                                                                *)

\* commitField: an edit back to the value shown leaves the patch (so does an
\* editor that is opened, for it holds the value shown, and left).
Commit(f, v) ==
    /\ Shown /\ edits < MaxEdits /\ edits' = edits + 1
    /\ pendingPatch' = [pendingPatch EXCEPT ![f] = IF v = issue.field[f] THEN None ELSE v]
    /\ Render
    /\ UNCHANGED <<server, issue, failed, note, busy, seq, calls, acked, crossing, starts,
                   elsewhere, faults>>

\* discardChanges, a button of the save bar that is disabled while saving.
Discard ==
    /\ Shown /\ Dirty # {} /\ "save" \notin busy
    /\ pendingPatch' = Empty /\ note' = FALSE
    /\ Render
    /\ Counts /\ UNCHANGED <<server, issue, failed, busy, seq, calls, acked>>

\* Typing into the note of the save bar or the comment box, dropping a file
\* beside it: no render.
Type ==
    /\ Shown /\ edits < MaxEdits /\ edits' = edits + 1
    /\ \/ Dirty # {} /\ note' = TRUE /\ UNCHANGED <<typed, staged>>
       \/ typed' = TRUE /\ UNCHANGED <<note, staged>>
       \/ staged' = TRUE /\ UNCHANGED <<note, typed>>
    /\ UNCHANGED <<server, issue, failed, pendingPatch, busy, seq, calls, acked, crossing,
                   starts, elsewhere, faults>>

\* The handlers under way that a new one of this kind crosses: all of them if it
\* is a watch toggle, the toggle if it is not.
Crossed(kind) ==
    {d \in Calls : calls[d] # None /\ (kind = "watch" \/ calls[d].kind = "watch")}

Begin(c, call) ==
    /\ Shown /\ calls[c] = None
    /\ call.kind \in Kinds \ busy
    /\ starts < MaxStarts /\ starts' = starts + 1
    /\ calls' = [calls EXCEPT ![c] = call]
    /\ busy' = busy \cup ({call.kind} \cap Flagged)
    /\ crossing' = {d \in crossing : calls[d] # None} \cup Crossed(call.kind)
                     \cup {d \in {c} : Crossed(call.kind) # {}}
    /\ UNCHANGED <<server, issue, failed, pendingPatch, note, seq, acked, edits, elsewhere,
                   faults>>

\* Mutant of Body: the whole form is sent.
BodyWhole ==
    [f \in Fields |-> IF pendingPatch[f] = None THEN issue.field[f] ELSE pendingPatch[f]]

\* The patch of the PATCH body.
Body == pendingPatch

\* saveChanges
Save(c) ==
    /\ Dirty # {}
    /\ Begin(c, [Handler("save") EXCEPT !.patch = Body])
    /\ Render

\* postComment.  The files are asked for after the POST.
Comment(c) ==
    /\ typed
    /\ Begin(c, [Handler("comment") EXCEPT !.had = staged])
    /\ Render

\* toggleWatch
Toggle(c) ==
    /\ Begin(c, [Handler("watch") EXCEPT !.on = ~issue.watching])
    /\ Render

\* archive and unarchive
Archive(c) == Begin(c, Handler("archive")) /\ Render

\* uploadFiles of the attachments section, archiveAttachment: no flag, and no
\* render before the answer.
Upload(c) == Begin(c, Handler("upload")) /\ NoRender

-----------------------------------------------------------------------------
(* The server                                                              *)

Applied(call) ==
    [server EXCEPT
        !.field = [f \in Fields |-> IF call.patch[f] # None THEN call.patch[f] ELSE @[f]],
        !.watching = IF call.kind = "watch" THEN call.on
                     ELSE IF call.kind \in {"save", "comment"} THEN TRUE ELSE @,
        !.rev = IF call.kind = "watch" THEN @ ELSE @ + 1,
        !.wrev = IF call.kind \in {"watch", "save", "comment"} THEN @ + 1 ELSE @]

\* The write is done, and answered.
ServeWrite(c) ==
    /\ calls[c] # None /\ calls[c].at = "write" /\ calls[c].answer = "none"
    /\ server' = Applied(calls[c])
    /\ calls' = [calls EXCEPT ![c].answer = "ok", ![c].got = server']
    /\ Counts /\ UNCHANGED <<pageVars, acked>>

\* A GET is answered with the issue as it is.
ServeGet(c) ==
    /\ calls[c] # None /\ calls[c].at = "get" /\ calls[c].answer = "none"
    /\ calls' = [calls EXCEPT ![c].answer = "ok", ![c].got = server]
    /\ Counts /\ UNCHANGED <<server, pageVars, acked>>

\* The request is refused or does not arrive, or its answer is lost.
Lose(c) ==
    /\ calls[c] # None /\ calls[c].at # "files" /\ calls[c].answer = "none"
    /\ faults < MaxFaults /\ faults' = faults + 1
    /\ calls' = [calls EXCEPT ![c].answer = "error"]
    /\ \/ UNCHANGED server
       \/ calls[c].at = "write" /\ server' = Applied(calls[c])
    /\ UNCHANGED <<pageVars, acked, crossing, starts, edits, elsewhere>>

\* Another user changes a field.
ChangeElsewhere(f, v) ==
    /\ elsewhere < MaxElsewhere /\ elsewhere' = elsewhere + 1
    /\ server' = [server EXCEPT !.field[f] = v, !.rev = @ + 1]
    /\ UNCHANGED <<pageVars, calls, acked, crossing, starts, edits, faults>>

-----------------------------------------------------------------------------
(* The answers                                                             *)

\* refetchIssue begins.
Refetch(c) ==
    /\ seq' = seq + 1
    /\ calls' = [calls EXCEPT ![c].at = "get", ![c].seq = seq + 1, ![c].answer = "none"]

\* The answer to a watch toggle is shown: a flag, whatever has happened since.
Toggled(call) == [issue EXCEPT !.watching = call.on, !.wrev = call.got.wrev]

\* Mutant of Written: nothing is fetched again.
WrittenNoRefetch(c) ==
    /\ calls[c] # None /\ calls[c].at = "write" /\ calls[c].answer = "ok"
    /\ acked' = IF calls[c].kind # "watch" /\ calls[c].got.rev > acked THEN calls[c].got.rev ELSE acked
    /\ IF calls[c].kind = "save" THEN pendingPatch' = Empty /\ note' = FALSE
       ELSE UNCHANGED <<pendingPatch, note>>
    /\ issue' = IF calls[c].kind = "watch" THEN Toggled(calls[c]) ELSE issue
    /\ busy' = busy \ {calls[c].kind} /\ Render /\ Finish(c) /\ UNCHANGED seq
    /\ Counts /\ UNCHANGED <<server, failed>>

\* A write succeeded: a save empties the patch and the note, as they are now; a
\* comment goes on with the files of the dropzone, if there are any now; a watch
\* toggle is over; the others refetch.
Written(c) ==
    /\ calls[c] # None /\ calls[c].at = "write" /\ calls[c].answer = "ok"
    /\ acked' = IF calls[c].kind # "watch" /\ calls[c].got.rev > acked THEN calls[c].got.rev ELSE acked
    /\ IF calls[c].kind = "save" THEN pendingPatch' = Empty /\ note' = FALSE
       ELSE UNCHANGED <<pendingPatch, note>>
    /\ CASE calls[c].kind = "watch" ->
              /\ issue' = Toggled(calls[c])
              /\ busy' = busy \ {"watch"} /\ Render /\ Finish(c) /\ UNCHANGED seq
         [] calls[c].kind = "comment" /\ staged ->
              /\ calls' = [calls EXCEPT ![c].at = "files"]
              /\ NoRender /\ UNCHANGED <<issue, busy, seq>>
         [] OTHER -> Refetch(c) /\ NoRender /\ UNCHANGED <<issue, busy>>
    /\ Counts /\ UNCHANGED <<server, failed>>

\* The files of a comment are uploaded, or have failed: clear(), then refetch.
FilesDone(c) ==
    /\ calls[c] # None /\ calls[c].at = "files"
    /\ server' = [server EXCEPT !.rev = @ + 1]
    /\ seq' = seq + 1
    /\ calls' = [calls EXCEPT ![c].at = "get", ![c].seq = seq + 1, ![c].answer = "none",
                              ![c].sent = TRUE]
    /\ staged' = FALSE /\ UNCHANGED typed
    /\ Counts /\ UNCHANGED <<issue, failed, pendingPatch, note, busy, acked>>

\* A write failed: a toast; uploads refetch all the same (archiveAttachment does
\* not).
WriteFailed(c) ==
    /\ calls[c] # None /\ calls[c].at = "write" /\ calls[c].answer = "error"
    /\ IF calls[c].kind = "upload"
         THEN /\ (Refetch(c) \/ (Finish(c) /\ UNCHANGED seq))
              /\ NoRender /\ UNCHANGED busy
         ELSE Finish(c) /\ Render /\ busy' = busy \ {calls[c].kind} /\ UNCHANGED seq
    /\ Counts /\ UNCHANGED <<server, issue, failed, pendingPatch, note, acked>>

\* Mutant of Current: no request is stale.
CurrentAlways(c) == TRUE

\* reqId === ctx.requestSeq
Current(c) == calls[c].seq = seq

\* Mutant of Fetched: the answer that is not the newest wakes nobody.
FetchedNewestOnly(c) ==
    /\ calls[c] # None /\ calls[c].at = "get" /\ calls[c].answer # "none"
    /\ Current(c)
    /\ issue' = IF calls[c].answer = "ok" THEN calls[c].got ELSE issue
    /\ failed' = (failed \/ (calls[c].kind = "load" /\ calls[c].answer = "error"))
    /\ busy' = busy \ {calls[c].kind}
    /\ Render /\ Finish(c)
    /\ Counts /\ UNCHANGED <<server, pendingPatch, note, seq, acked>>

\* A GET is answered.  One that is not the newest changes nothing, but the
\* handler that waited for it goes on to its `finally`.
Fetched(c) ==
    /\ calls[c] # None /\ calls[c].at = "get" /\ calls[c].answer # "none"
    /\ issue' = IF Current(c) /\ calls[c].answer = "ok" THEN calls[c].got ELSE issue
    /\ failed' = (failed \/ (calls[c].kind = "load" /\ Current(c) /\ calls[c].answer = "error"))
    /\ busy' = busy \ {calls[c].kind}
    /\ IF Current(c) \/ calls[c].kind \in Flagged THEN Render ELSE NoRender
    /\ Finish(c)
    /\ Counts /\ UNCHANGED <<server, pendingPatch, note, seq, acked>>

-----------------------------------------------------------------------------
Go(c) == ServeWrite(c) \/ ServeGet(c) \/ Written(c) \/ FilesDone(c) \/ WriteFailed(c) \/ Fetched(c)

Next ==
    \/ \E f \in Fields, v \in Mine : Commit(f, v)
    \/ \E f \in Fields : Shown /\ Commit(f, issue.field[f])
    \/ Discard
    \/ Type
    \/ \E c \in Calls :
         Save(c) \/ Comment(c) \/ Toggle(c) \/ Archive(c) \/ Upload(c) \/ Lose(c) \/ Go(c)
    \/ \E f \in Fields, v \in Theirs : ChangeElsewhere(f, v)

Spec == Init /\ [][Next]_vars

\* Every request is answered or fails, every answer is handled.
FairSpec == Spec /\ \A c \in Calls : WF_vars(Go(c))

-----------------------------------------------------------------------------
(* Properties                                                              *)

\* What the page shows never goes back to an older state of the issue, in
\* whatever order the answers to overlapping refetches arrive.  That is so of
\* the watch button as well, but when a handler ends that was under way together
\* with a watch toggle: a toggle takes no number of ctx.requestSeq, so that an
\* answer from before it, or its own answer, may come late and is shown all the
\* same, and nothing corrects it.
ShownNeverGoesBack ==
    [][issue # None =>
         /\ issue'.rev >= issue.rev
         /\ \/ issue'.wrev >= issue.wrev
            \/ \E c \in crossing : calls[c] # None /\ calls'[c] = None]_vars

\* With nothing under way and nothing failed, the page shows what its own
\* saves, comments and uploads have done: a refetch that is overtaken leaves it
\* to the one that overtook it.
SettledShowsOwnWrites ==
    /\ TypeOK
    /\ faults = 0 /\ (\A c \in Calls : calls[c] = None) => issue.rev >= acked

\* A save touches the edited fields only: once somebody has changed a field, no
\* save of a page that still shows the first value brings it back.
NothingReverted ==
    [][\A f \in Fields : server.field[f] # First => server'.field[f] # First]_vars

\* Every busy flag is cleared: no button stays disabled for ever.
BusyEnds == \A k \in Flagged : k \in busy ~> k \notin busy

\* AttachmentDropzone.js: used "beside the comment box, where uploads happen
\* after the parent action (issue create / comment post) succeeds".
CommentFilesAreSent ==
    \A c \in Calls :
        calls[c] # None /\ calls[c].kind = "comment" /\ calls[c].at = "get" /\ calls[c].had
            => calls[c].sent
=============================================================================
