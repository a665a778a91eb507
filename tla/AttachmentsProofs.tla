-------------------------- MODULE AttachmentsProofs --------------------------
(***************************************************************************)
(* What Attachments promises, for every set of uploads, projects, issues   *)
(* and interrupts, and however often the server crashes, operations fail   *)
(* and the operator scripts run.                                           *)
(*                                                                         *)
(* None of the four properties is inductive.  Each gets a part of the      *)
(* invariant that also says where the requests and the scripts stand: a    *)
(* row has its file because no handler can reach its unlink any more       *)
(* (Filed), a client's answer is true because between the INSERT and the   *)
(* answer only delete-project.js removes rows (Answering), a file has its  *)
(* row or somebody who still has it in hand (Tidy), and a script has put   *)
(* or written what it ticked off (Mirrored, Restored).                     *)
(***************************************************************************)
EXTENDS Attachments, TLAPS

HasRow(u) == \E r \in rows : r.upload = u

\* The phases of an upload whose row has been inserted, or that is over.
Late == {"mirroring", "putting", "done"}

\* An attachment, or an upload that may become one.
Alive(u) == phase[u] \in {"idle", "receiving", "moving", "moved"} \/ HasRow(u)

\* A stopped server has nothing under way; a request that has begun is of an
\* issue, which is its project's as long as no project is deleted.
Begun ==
    /\ ~up => \A u \in Uploads : phase[u] \in {"idle", "done"}
    /\ \A u \in Uploads :
         /\ phase[u] = "idle" => reply[u] = "none" /\ u \notin handled
         /\ phase[u] # "idle" => target[u] \in [issue : Issues, project : Projects]
    /\ purge.step = "idle" =>
         /\ purge.project = Nobody /\ purge.todo = {}
         /\ \A u \in Uploads : phase[u] # "idle" => owner[target[u].issue] = target[u].project

\* A row is of a file, and delete-project.js removes no file of a row.
Filed ==
    /\ \A r \in rows :
         /\ phase[r.upload] \in Late
         /\ r.issue = target[r.upload].issue
         /\ Final(r.upload) \in disk \/ r.upload \in lost
    /\ \A u \in Uploads : phase[u] = "moved" => Final(u) \in disk
    /\ \A u \in purge.todo : phase[u] \in Late /\ ~HasRow(u)
    /\ purge.step = "s3" => purge.at \in purge.todo

\* Before it answers, an upload has its row, and before it refuses, it has none.
Answering ==
    /\ \A u \in Uploads :
         phase[u] \in {"mirroring", "putting"} \/ reply[u] = "stored" =>
             HasRow(u) \/ purge.project = target[u].project
    /\ "second_part" \notin Interrupts =>
         \A u \in Uploads :
             reply[u] = "refused" \/ (u \in cleaning /\ reply[u] = "none") =>
                 phase[u] = "done" /\ ~HasRow(u)

\* What delete-project.js ticks off its list has no file.
Tidy ==
    crashes = 0 /\ faults = 0 /\ restore.step = "idle" =>
        /\ \A u \in Uploads : Final(u) \in disk => InHand(u) \/ HasRow(u) \/ u \in purge.todo
        /\ purge.step = "s3" => Final(purge.at) \notin disk

\* What sync-attachments.js has ticked off is in the bucket, or on its way there.
Mirrored ==
    /\ sync.step = "done" => sync.todo = {}
    /\ sync.step \in {"next", "await", "done"} /\ ~sync.failed =>
         \A u \in Uploads : Alive(u) /\ Final(u) \in sync.local \ sync.todo =>
             \/ Final(u) \in s3
             \/ sync.step = "await" /\ <<Final(u), "script">> \in putting

\* What restore-attachments.js has ticked off is there, or about to be written.
Restored ==
    /\ restore.step = "done" => restore.todo = {}
    /\ restore.step = "write" => restore.at \in Files
    /\ restore.step \in {"next", "write", "done"} /\ ~restore.failed =>
         \A u \in Uploads : Alive(u) /\ Final(u) \in restore.found \ restore.todo =>
             Final(u) \in disk \/ (restore.step = "write" /\ restore.at = Final(u))

IInv == TypeOK /\ Begun /\ Filed /\ Answering /\ Tidy /\ Mirrored /\ Restored

-----------------------------------------------------------------------------
(* One lemma for each action: the invariant survives it.                   *)

\* A step of delete-project.js that leaves the requests alone keeps Begun.
LEMMA BegunStays ==
    ASSUME Begun, UNCHANGED <<up, phase, target, reply, handled>>, purge'.step # "idle"
    PROVE  Begun'
  BY DEF Begun

-----------------------------------------------------------------------------
(* The request                                                             *)

LEMMA BeginKeeps ==
    ASSUME IInv, NEW u \in Uploads, NEW i \in Issues, Begin(u, i)
    PROVE  IInv'
<1> USE AttachmentsAssumption DEF IInv, Begin, Goto, Fine, Scripts, Volume, Server
<1>1. TypeOK'
  BY DEF TypeOK, Phases, Files, Partial, Final, Quiet
<1>2. Begun'
  BY DEF Begun, TypeOK
<1>3. Filed'
  BY DEF Filed, TypeOK, HasRow, Late
<1>4. Answering'
  BY DEF Answering, TypeOK, HasRow, Begun, Filed, Late
<1>5. Tidy'
  BY DEF Tidy, TypeOK, HasRow, InHand, Final, Partial, Files, Filed, Begun, Late
<1>6. Mirrored'
  BY DEF Mirrored, Alive, HasRow
<1>7. Restored'
  BY DEF Restored, Alive, HasRow
<1> QED
  BY <1>1, <1>2, <1>3, <1>4, <1>5, <1>6, <1>7

LEMMA InterruptKeeps ==
    ASSUME IInv, NEW u \in Uploads, NEW why \in Interrupts, Interrupt(u, why)
    PROVE  IInv'
<1> USE AttachmentsAssumption DEF IInv, Interrupt, Goto, Fine, Tell, Fail, Scripts,
      Volume, Server
<1>1. TypeOK'
  BY DEF TypeOK, Phases
<1>2. Begun'
  BY DEF Begun, TypeOK
<1>3. Filed'
  <2>1. \A v \in Uploads : phase[v] \in Late \cup {"moved"} => phase'[v] = phase[v]
    BY DEF TypeOK, Late
  <2>2. UNCHANGED <<rows, target, disk, lost, purge>> /\ Filed
    OBVIOUS
  <2>3. purge.todo \subseteq Uploads /\ rows \subseteq [upload : Uploads, issue : Issues]
    BY DEF TypeOK, PurgeState
  <2> HIDE DEF IInv, Interrupt
  <2>4. \A r \in rows : phase'[r.upload] \in Late
    BY <2>1, <2>2, <2>3 DEF Filed
  <2>5. \A v \in Uploads : phase'[v] = "moved" => phase[v] = "moved"
    BY DEF Interrupt, IInv, TypeOK, Goto
  <2> QED
    BY <2>1, <2>2, <2>3, <2>4, <2>5 DEF Filed, HasRow, Final
<1>4. Answering'
  BY DEF Answering, TypeOK, HasRow
<1>5. Tidy'
  <2>1. Tidy /\ UNCHANGED <<crashes, faults, restore, disk, rows, purge>>
    OBVIOUS
  <2>2. \A v \in Uploads : InHand(v) => phase'[v] = phase[v]
    BY DEF InHand, TypeOK
  <2> HIDE DEF IInv, Interrupt
  <2> QED
    BY <2>1, <2>2 DEF Tidy, InHand, HasRow, Final
<1>6. Mirrored'
  <2>1. \A v \in Uploads : phase'[v] \in {"idle", "receiving", "moving", "moved"} =>
             phase[v] \in {"idle", "receiving", "moving", "moved"}
    BY DEF TypeOK
  <2>2. UNCHANGED <<rows, s3, putting, sync>> /\ Mirrored
    OBVIOUS
  <2> HIDE DEF IInv, Interrupt
  <2> QED
    BY <2>1, <2>2 DEF Mirrored, Alive, HasRow, Final
<1>7. Restored'
  BY DEF Restored, TypeOK, Alive, HasRow, Final
<1> QED
  BY <1>1, <1>2, <1>3, <1>4, <1>5, <1>6, <1>7

LEMMA RejectKeeps ==
    ASSUME IInv, NEW u \in Uploads, Reject(u)
    PROVE  IInv'
<1> USE AttachmentsAssumption DEF IInv, Reject, Goto, Fine, Fail, Scripts, Volume, Server
<1>1. TypeOK'
  BY DEF TypeOK, Phases
<1>2. Begun'
  BY DEF Begun
<1>3. Filed'
  BY DEF Filed, TypeOK, HasRow, Late
<1>4. Answering'
  BY DEF Answering, TypeOK, HasRow, Begun, Filed, Late
<1>5. Tidy'
  BY DEF Tidy, HasRow, InHand
<1>6. Mirrored'
  BY DEF Mirrored, Alive, HasRow
<1>7. Restored'
  BY DEF Restored, Alive, HasRow
<1> QED
  BY <1>1, <1>2, <1>3, <1>4, <1>5, <1>6, <1>7

LEMMA ReceivedKeeps ==
    ASSUME IInv, NEW u \in Uploads, Received(u)
    PROVE  IInv'
<1> USE AttachmentsAssumption DEF IInv, Received, Goto, Fine, Scripts, Volume, Server
<1>1. TypeOK'
  BY DEF TypeOK, Phases
<1>2. Begun'
  BY DEF Begun
<1>3. Filed'
  BY DEF Filed, TypeOK, HasRow, Late
<1>4. Answering'
  BY DEF Answering, HasRow
<1>5. Tidy'
  BY DEF Tidy, HasRow, InHand
<1>6. Mirrored'
  BY DEF Mirrored, Alive, HasRow
<1>7. Restored'
  BY DEF Restored, Alive, HasRow
<1> QED
  BY <1>1, <1>2, <1>3, <1>4, <1>5, <1>6, <1>7

LEMMA MoveKeeps ==
    ASSUME IInv, NEW u \in Uploads, Move(u)
    PROVE  IInv'
<1> USE AttachmentsAssumption DEF IInv, Move, Goto, Fine, Scripts, Volume, Server
<1>1. TypeOK'
  BY DEF TypeOK, Phases, Files, Partial, Final, Quiet
<1>2. Begun'
  BY DEF Begun
<1>3. Filed'
  BY DEF Filed, TypeOK, PurgeState, HasRow, Late, Final, Partial
<1>4. Answering'
  BY DEF Answering, HasRow
<1>5. Tidy'
  BY DEF Tidy, TypeOK, HasRow, InHand, Final, Partial, Files, Filed, Begun, Late
<1>6. Mirrored'
  <2>1. \A v \in Uploads : phase'[v] \in {"idle", "receiving", "moving", "moved"} =>
             phase[v] \in {"idle", "receiving", "moving", "moved"}
    BY DEF TypeOK
  <2>2. UNCHANGED <<rows, s3, putting, sync>> /\ Mirrored
    OBVIOUS
  <2> HIDE DEF IInv, Move
  <2> QED
    BY <2>1, <2>2 DEF Mirrored, Alive, HasRow, Final
<1>7. Restored'
  BY DEF Restored, TypeOK, Alive, HasRow, Final, Partial, Files, Filed, Late, Begun
<1> QED
  BY <1>1, <1>2, <1>3, <1>4, <1>5, <1>6, <1>7

LEMMA MoveFailsKeeps ==
    ASSUME IInv, NEW u \in Uploads, MoveFails(u)
    PROVE  IInv'
<1> USE AttachmentsAssumption DEF IInv, MoveFails, Goto, Fault, Fine, Fail, Scripts,
      Volume, Server, DirectoryGone
<1>1. TypeOK'
  BY DEF TypeOK, Phases
<1>2. Begun'
  BY DEF Begun
<1>3. Filed'
  BY DEF Filed, TypeOK, HasRow, Late
<1>4. Answering'
  BY DEF Answering, TypeOK, HasRow, Begun, Filed, Late
<1>5. Tidy'
  BY DEF Tidy, TypeOK, HasRow, InHand
<1>6. Mirrored'
  BY DEF Mirrored, Alive, HasRow
<1>7. Restored'
  BY DEF Restored, Alive, HasRow
<1> QED
  BY <1>1, <1>2, <1>3, <1>4, <1>5, <1>6, <1>7

LEMMA InsertKeeps ==
    ASSUME IInv, NEW u \in Uploads, Insert(u)
    PROVE  IInv'
<1> USE AttachmentsAssumption DEF IInv, Insert, Goto, Fine, Scripts, Volume, Server
<1>0. /\ target[u] \in [issue : Issues, project : Projects]
      /\ rows' = rows \cup {[upload |-> u, issue |-> target[u].issue]}
      /\ HasRow(u)' /\ \A v \in Uploads \ {u} : HasRow(v)' <=> HasRow(v)
  <2>1. target[u] \in [issue : Issues, project : Projects]
    BY DEF Begun
  <2>2. rows' = rows \cup {[upload |-> u, issue |-> target[u].issue]}
    OBVIOUS
  <2>3. HasRow(u)'
    <3>1. [upload |-> u, issue |-> target[u].issue] \in rows'
      BY <2>2
    <3>2. [upload |-> u, issue |-> target[u].issue].upload = u
      OBVIOUS
    <3> QED
      BY <3>1, <3>2 DEF HasRow
  <2>4. \A v \in Uploads \ {u} : HasRow(v)' <=> HasRow(v)
    BY <2>2 DEF HasRow
  <2> QED
    BY <2>1, <2>2, <2>3, <2>4
<1>1. TypeOK'
  BY <1>0 DEF TypeOK, Phases
<1>2. Begun'
  BY DEF Begun
<1>3. Filed'
  BY DEF Filed, TypeOK, HasRow, Late
<1>4. Answering'
  BY <1>0 DEF Answering, TypeOK
<1>5. Tidy'
  BY <1>0 DEF Tidy, TypeOK, InHand
<1>6. Mirrored' /\ Restored'
  BY DEF Mirrored, Restored, TypeOK, Alive, HasRow, Final
<1> QED
  BY <1>1, <1>2, <1>3, <1>4, <1>5, <1>6

LEMMA InsertFailsKeeps ==
    ASSUME IInv, NEW u \in Uploads, InsertFails(u)
    PROVE  IInv'
<1> USE AttachmentsAssumption DEF IInv, InsertFails, Goto, Fault, Fine, Scripts,
      Volume, Server
<1>1. TypeOK'
  BY DEF TypeOK, Phases
<1>2. Begun'
  BY DEF Begun
<1>3. Filed'
  BY DEF Filed, TypeOK, HasRow, Late
<1>4. Answering'
  BY DEF Answering, HasRow
<1>5. Tidy'
  BY DEF Tidy, TypeOK, HasRow, InHand
<1>6. Mirrored'
  BY DEF Mirrored, Alive, HasRow
<1>7. Restored'
  BY DEF Restored, Alive, HasRow
<1> QED
  BY <1>1, <1>2, <1>3, <1>4, <1>5, <1>6, <1>7

LEMMA UndoKeeps ==
    ASSUME IInv, NEW u \in Uploads, Undo(u)
    PROVE  IInv'
<1> USE AttachmentsAssumption DEF IInv, Undo, Goto, Fault, Fine, Fail, Scripts, Volume,
      Server
<1>1. TypeOK'
  BY DEF TypeOK, Phases
<1>2. Begun'
  BY DEF Begun
<1>3. Filed'
  BY DEF Filed, TypeOK, PurgeState, HasRow, Late, Final, Partial
<1>4. Answering'
  BY DEF Answering, TypeOK, HasRow, Begun, Filed, Late
<1>5. Tidy'
  BY DEF Tidy, TypeOK, HasRow, InHand
<1>6. Mirrored'
  BY DEF Mirrored, Alive, HasRow
<1>7. Restored'
  BY DEF Restored, TypeOK, Alive, HasRow, Final, Partial, Files, Filed, Late, Begun
<1> QED
  BY <1>1, <1>2, <1>3, <1>4, <1>5, <1>6, <1>7

LEMMA PutStartsKeeps ==
    ASSUME IInv, NEW u \in Uploads, PutStarts(u)
    PROVE  IInv'
<1> USE AttachmentsAssumption DEF IInv, PutStarts, Goto, Fine, Scripts, Volume, Server
<1>1. TypeOK'
  BY DEF TypeOK, Phases
<1>2. Begun'
  BY DEF Begun
<1>3. Filed'
  BY DEF Filed, TypeOK, HasRow, Late
<1>4. Answering'
  BY DEF Answering, HasRow
<1>5. Tidy'
  BY DEF Tidy, HasRow, InHand
<1>6. Mirrored'
  BY DEF Mirrored, Alive, HasRow
<1>7. Restored'
  BY DEF Restored, Alive, HasRow
<1> QED
  BY <1>1, <1>2, <1>3, <1>4, <1>5, <1>6, <1>7

LEMMA AnswerKeeps ==
    ASSUME IInv, NEW u \in Uploads, Answer(u)
    PROVE  IInv'
<1> USE AttachmentsAssumption DEF IInv, Answer, Goto, Fault, Fine, Tell, Scripts,
      Volume, Server
<1>1. TypeOK'
  BY DEF TypeOK, Phases, Files, Partial, Final, Quiet
<1>2. Begun'
  BY DEF Begun
<1>3. Filed'
  BY DEF Filed, TypeOK, PurgeState, HasRow, Late, Final, Partial
<1>4. Answering'
  BY DEF Answering, HasRow
<1>5. Tidy'
  BY DEF Tidy, TypeOK, HasRow, InHand
<1>6. Mirrored'
  BY DEF Mirrored, Alive, HasRow
<1>7. Restored'
  BY DEF Restored, Alive, HasRow
<1> QED
  BY <1>1, <1>2, <1>3, <1>4, <1>5, <1>6, <1>7

LEMMA CleanedKeeps ==
    ASSUME IInv, NEW u \in Uploads, Cleaned(u)
    PROVE  IInv'
<1> USE AttachmentsAssumption DEF IInv, Cleaned, Tell, Fine, Scripts, Volume, Server
<1>1. TypeOK'
  BY DEF TypeOK
<1>2. Begun'
  BY DEF Begun, TypeOK
<1>3. Filed' /\ Answering'
  BY DEF Filed, Answering, TypeOK, HasRow, Final, Partial
<1>4. Tidy' /\ Mirrored' /\ Restored'
  BY DEF Tidy, Mirrored, Restored, InHand, Alive, HasRow, Final, Partial
<1> QED
  BY <1>1, <1>2, <1>3, <1>4

LEMMA PutLandsKeeps ==
    ASSUME IInv, NEW f \in Files, NEW who \in {"server", "script"}, PutLands(f, who)
    PROVE  IInv'
<1> USE AttachmentsAssumption DEF IInv, PutLands, Fine, Scripts, Volume, Server, requests
<1>1. TypeOK'
  BY DEF TypeOK
<1>2. Begun'
  BY DEF Begun
<1>3. Filed'
  BY DEF Filed, HasRow
<1>4. Answering'
  BY DEF Answering, HasRow
<1>5. Tidy'
  BY DEF Tidy, HasRow, InHand
<1>6. Mirrored'
  BY DEF Mirrored, Alive, HasRow
<1>7. Restored'
  BY DEF Restored, Alive, HasRow
<1> QED
  BY <1>1, <1>2, <1>3, <1>4, <1>5, <1>6, <1>7

LEMMA PutLostKeeps ==
    ASSUME IInv, NEW f \in Files, NEW who \in {"server", "script"}, PutLost(f, who)
    PROVE  IInv'
<1> USE AttachmentsAssumption DEF IInv, PutLost, Fault, Fine, Volume, Server, requests
<1>1. TypeOK'
  <2>1. sync' \in SyncState
    BY DEF TypeOK, SyncState
  <2> QED
    BY <2>1 DEF TypeOK, Files
<1>2. Begun'
  BY DEF Begun
<1>3. Filed'
  BY DEF Filed, HasRow
<1>4. Answering'
  BY DEF Answering, HasRow
<1>5. Tidy'
  BY DEF Tidy, TypeOK, HasRow, InHand
<1>6. Mirrored'
  BY DEF Mirrored, Alive, HasRow
<1>7. Restored'
  BY DEF Restored, Alive, HasRow
<1> QED
  BY <1>1, <1>2, <1>3, <1>4, <1>5, <1>6, <1>7

-----------------------------------------------------------------------------
(* The server                                                              *)

LEMMA CrashKeeps ==
    ASSUME IInv, Crash
    PROVE  IInv'
<1> USE AttachmentsAssumption DEF IInv, Crash, Fine, Scripts, Volume
<1>1. TypeOK'
  <2>1. phase' \in [Uploads -> Phases]
    BY DEF TypeOK, Phases
  <2>2. reply' \in [Uploads -> {"none", "stored", "refused", "gone"}]
    BY DEF TypeOK
  <2>3. sweep' \in [read : BOOLEAN, todo : SUBSET Uploads]
    BY DEF Quiet
  <2>4. crashes' \in 0..MaxCrashes
    <3>1. crashes \in 0..MaxCrashes
      BY DEF TypeOK
    <3> QED
      BY <3>1
  <2>5. up' = FALSE
    OBVIOUS
  <2> QED
    BY <2>1, <2>2, <2>3, <2>4, <2>5 DEF TypeOK
<1>2. Begun'
  BY DEF Begun
<1>3. Filed'
  <2>1. \A v \in Uploads : phase[v] \in Late => phase'[v] \in Late
    BY DEF TypeOK, Late
  <2>2. \A v \in Uploads : phase'[v] # "moved"
    BY DEF TypeOK
  <2> QED
    BY <2>1, <2>2 DEF Filed, TypeOK, PurgeState, HasRow
<1>4. Answering'
  BY DEF Answering, HasRow
<1>5. Tidy'
  BY DEF Tidy, TypeOK, HasRow, InHand
<1>6. Mirrored' /\ Restored'
  BY DEF Mirrored, Restored, TypeOK, Alive, HasRow
<1> QED
  BY <1>1, <1>2, <1>3, <1>4, <1>5, <1>6

LEMMA BootKeeps ==
    ASSUME IInv, Boot
    PROVE  IInv'
<1> USE AttachmentsAssumption DEF IInv, Boot, Fine, Scripts, Volume, requests
<1>1. TypeOK'
  BY DEF TypeOK
<1>2. Begun'
  BY DEF Begun
<1>3. Filed'
  BY DEF Filed, HasRow
<1>4. Answering'
  BY DEF Answering, HasRow
<1>5. Tidy'
  BY DEF Tidy, HasRow, InHand
<1>6. Mirrored'
  BY DEF Mirrored, Alive, HasRow
<1>7. Restored'
  BY DEF Restored, Alive, HasRow
<1> QED
  BY <1>1, <1>2, <1>3, <1>4, <1>5, <1>6, <1>7

LEMMA SweepReadKeeps ==
    ASSUME IInv, SweepRead
    PROVE  IInv'
<1> USE AttachmentsAssumption DEF IInv, SweepRead, Fine, Scripts, Volume, requests
<1>1. TypeOK'
  BY DEF TypeOK
<1>2. Begun'
  BY DEF Begun
<1>3. Filed'
  BY DEF Filed, HasRow
<1>4. Answering'
  BY DEF Answering, HasRow
<1>5. Tidy'
  BY DEF Tidy, HasRow, InHand
<1>6. Mirrored'
  BY DEF Mirrored, Alive, HasRow
<1>7. Restored'
  BY DEF Restored, Alive, HasRow
<1> QED
  BY <1>1, <1>2, <1>3, <1>4, <1>5, <1>6, <1>7

LEMMA SweepOneKeeps ==
    ASSUME IInv, NEW u \in Uploads, SweepOne(u)
    PROVE  IInv'
<1> USE AttachmentsAssumption DEF IInv, SweepOne, Fine, Scripts, Volume, requests
<1>1. TypeOK'
  BY DEF TypeOK
<1>2. Begun'
  BY DEF Begun
<1>3. Filed'
  BY DEF Filed, TypeOK, PurgeState, HasRow, Late, Final, Partial
<1>4. Answering'
  BY DEF Answering, HasRow
<1>5. Tidy'
  BY DEF Tidy, HasRow, InHand
<1>6. Mirrored'
  BY DEF Mirrored, Alive, HasRow
<1>7. Restored'
  BY DEF Restored, TypeOK, Alive, HasRow, Final, Partial, Files, Filed, Late, Begun
<1> QED
  BY <1>1, <1>2, <1>3, <1>4, <1>5, <1>6, <1>7

LEMMA CreateIssueKeeps ==
    ASSUME IInv, NEW p \in Projects, CreateIssue(p)
    PROVE  IInv'
<1> USE AttachmentsAssumption DEF IInv, CreateIssue, Fine, Scripts, Volume, Server, requests
<1>1. TypeOK'
  BY DEF TypeOK
<1>2. Begun'
  BY DEF Begun
<1>3. Filed'
  BY DEF Filed, HasRow
<1>4. Answering'
  BY DEF Answering, HasRow
<1>5. Tidy'
  BY DEF Tidy, HasRow, InHand
<1>6. Mirrored'
  BY DEF Mirrored, Alive, HasRow
<1>7. Restored'
  BY DEF Restored, Alive, HasRow
<1> QED
  BY <1>1, <1>2, <1>3, <1>4, <1>5, <1>6, <1>7

LEMMA ArchiveIssueKeeps ==
    ASSUME IInv, NEW i \in Issues, ArchiveIssue(i)
    PROVE  IInv'
<1> USE AttachmentsAssumption DEF IInv, ArchiveIssue, Fine, Scripts, Volume, Server,
      requests
<1>1. TypeOK'
  BY DEF TypeOK
<1>2. Begun'
  BY DEF Begun
<1>3. Filed'
  BY DEF Filed, HasRow
<1>4. Answering'
  BY DEF Answering, HasRow
<1>5. Tidy'
  BY DEF Tidy, HasRow, InHand
<1>6. Mirrored'
  BY DEF Mirrored, Alive, HasRow
<1>7. Restored'
  BY DEF Restored, Alive, HasRow
<1> QED
  BY <1>1, <1>2, <1>3, <1>4, <1>5, <1>6, <1>7

LEMMA LoseFilesKeeps ==
    ASSUME IInv, LoseFiles
    PROVE  IInv'
<1> USE AttachmentsAssumption DEF IInv, LoseFiles, Fault, Server, requests
<1>1. TypeOK'
  BY DEF TypeOK
<1>2. Begun'
  BY DEF Begun
<1>3. Filed'
  <2>1. UNCHANGED <<rows, target, phase, purge>> /\ Filed
    OBVIOUS
  <2>2. \A v \in Uploads : Final(v) \in disk => v \in lost'
    OBVIOUS
  <2>3. rows \subseteq [upload : Uploads, issue : Issues] /\ lost \subseteq lost'
    BY DEF TypeOK
  <2>4. \A v \in Uploads : phase[v] # "moved"
    BY DEF Begun
  <2> HIDE DEF IInv, LoseFiles
  <2>5. \A r \in rows : r.upload \in lost'
    BY <2>1, <2>2, <2>3 DEF Filed
  <2> QED
    BY <2>1, <2>3, <2>4, <2>5 DEF Filed, HasRow
<1>4. Answering'
  BY DEF Answering, HasRow
<1>5. Tidy'
  BY DEF Tidy, HasRow, InHand
<1>6. Mirrored'
  BY DEF Mirrored, Alive, HasRow
<1>7. Restored'
  BY DEF Restored, Alive, HasRow
<1> QED
  BY <1>1, <1>2, <1>3, <1>4, <1>5, <1>6, <1>7

LEMMA ArchiveAttachmentKeeps ==
    ASSUME IInv, NEW u \in Uploads, NEW who \in Readers, ArchiveAttachment(u, who)
    PROVE  IInv'
<1> USE AttachmentsAssumption DEF IInv, ArchiveAttachment, Fine, Server, requests,
      MayArchive, Found
<1>1. TypeOK'
  BY DEF TypeOK
<1>2. Begun'
  BY DEF Begun
<1>3. Filed'
  BY DEF Filed, HasRow
<1>4. Answering'
  BY DEF Answering, HasRow
<1>5. Tidy'
  BY DEF Tidy, HasRow, InHand
<1>6. Mirrored'
  BY DEF Mirrored, Alive, HasRow
<1>7. Restored'
  BY DEF Restored, Alive, HasRow
<1> QED
  BY <1>1, <1>2, <1>3, <1>4, <1>5, <1>6, <1>7

-----------------------------------------------------------------------------
(* The operator scripts                                                    *)

LEMMA PurgeRowsKeeps ==
    ASSUME IInv, NEW p \in Projects, PurgeRows(p)
    PROVE  IInv'
<1> USE AttachmentsAssumption DEF IInv, PurgeRows, Fine, Script, Volume
<1>0. \A r \in rows : owner[r.issue] = target[r.upload].project
  BY DEF TypeOK, Begun, Filed, Late
<1>1. TypeOK'
  BY DEF TypeOK, PurgeState, requests
<1>2. Begun'
  BY DEF Begun, TypeOK, requests
<1>3. Filed'
  <2>1. \A v \in purge'.todo : ~HasRow(v)'
    BY <1>0 DEF TypeOK, HasRow, requests
  <2> QED
    BY <1>0, <2>1 DEF Filed, TypeOK, Late, requests
<1>4. \A v \in Uploads :
         /\ HasRow(v)' => HasRow(v)
         /\ HasRow(v) => HasRow(v)' \/ (v \in purge'.todo /\ target[v].project = p)
  <2> SUFFICES ASSUME NEW r \in rows
               PROVE  \/ r \in rows'
                      \/ r.upload \in purge'.todo /\ target[r.upload].project = p
    BY DEF HasRow
  <2>1. CASE owner[r.issue] = p
    BY <2>1, <1>0
  <2> QED
    BY <2>1
<1>a. /\ purge'.project = p /\ purge'.step = "disk" /\ purge.project = Nobody /\ purge.todo = {}
      /\ UNCHANGED <<phase, reply, target, cleaning, disk, restore, faults, crashes>>
  BY DEF Begun, requests
<1>5. Answering'
  <2> HIDE DEF PurgeRows
  <2>1. \A v \in Uploads : phase[v] # "idle" \/ reply[v] # "none" => target[v].project # Nobody
    BY DEF Begun
  <2>2. Answering
    OBVIOUS
  <2> HIDE DEF IInv
  <2>3. \A v \in Uploads :
           phase[v] \in {"mirroring", "putting"} \/ reply[v] = "stored" =>
               HasRow(v)' \/ p = target[v].project
    BY <1>4, <1>a, <2>1, <2>2 DEF Answering
  <2>4. "second_part" \notin Interrupts =>
         \A v \in Uploads :
             reply[v] = "refused" \/ (v \in cleaning /\ reply[v] = "none") =>
                 phase[v] = "done" /\ ~HasRow(v)'
    BY <1>4, <2>2 DEF Answering
  <2> QED
    BY <1>a, <2>3, <2>4 DEF Answering
<1>6. Tidy'
  <2> HIDE DEF PurgeRows
  <2> QED
    BY <1>4, <1>a DEF Tidy, InHand
<1>7. Mirrored' /\ Restored'
  BY DEF Mirrored, Restored, Alive, HasRow, requests
<1> QED
  BY <1>1, <1>2, <1>3, <1>4, <1>5, <1>6, <1>7

LEMMA PurgeFileKeeps ==
    ASSUME IInv, NEW u \in Uploads, PurgeFile(u)
    PROVE  IInv'
<1>0. TypeOK /\ Begun /\ Filed /\ Answering /\ Tidy /\ Mirrored /\ Restored
  BY DEF IInv
<1>a. purge \in PurgeState
  BY <1>0 DEF TypeOK
<1>1. /\ purge.step = "disk" /\ u \in purge.todo
      /\ purge' \in PurgeState
      /\ purge'.step = "s3" /\ purge'.at = u
      /\ purge'.todo = purge.todo /\ purge'.project = purge.project
      /\ \/ disk' = disk \ {Final(u)} /\ faults' = faults
         \/ disk' = disk /\ faults' = faults + 1 /\ faults < MaxFaults
      /\ UNCHANGED <<up, sweep, owner, archived, arrivals, requests, rows, shelved, lost, s3,
                     putting, sync, restore, crashes>>
  BY <1>a, ZenonT(30) DEF PurgeFile, Fine, Fault, Script, Volume, PurgeState, requests
<1>2. TypeOK'
  BY AttachmentsAssumption, <1>0, <1>1 DEF TypeOK, requests
<1>3. Begun'
  <2>1. UNCHANGED <<up, phase, target, reply, handled>> /\ purge'.step # "idle"
    BY <1>1 DEF requests
  <2> QED
    BY <1>0, <2>1, BegunStays
<1>4. Filed'
  BY <1>0, <1>1 DEF Filed, HasRow, Final, TypeOK, Late, requests
<1>5. Answering'
  BY <1>0, <1>1 DEF Answering, HasRow, requests
<1>6. Tidy'
  BY <1>0, <1>1 DEF Tidy, HasRow, InHand, TypeOK, Final, requests
<1>7. Mirrored' 
  BY <1>0, <1>1 DEF Mirrored, Alive, HasRow, requests
<1>8. Restored'
  BY <1>0, <1>1 DEF Restored, Alive, HasRow, Final, Filed, Late, TypeOK, requests
<1> QED
  BY <1>2, <1>3, <1>4, <1>5, <1>6, <1>7, <1>8 DEF IInv

LEMMA PurgeObjectKeeps ==
    ASSUME IInv, NEW u \in Uploads, PurgeObject(u)
    PROVE  IInv'
<1>0. TypeOK /\ Begun /\ Filed /\ Answering /\ Tidy /\ Mirrored /\ Restored
  BY DEF IInv
<1>a. purge \in PurgeState
  BY <1>0 DEF TypeOK
<1>1. /\ purge.step = "s3" /\ u = purge.at
      /\ purge' \in PurgeState
      /\ purge'.step = "disk"
      /\ purge'.todo = purge.todo \ {u} /\ purge'.project = purge.project
      /\ \/ s3' = s3 \ {Final(u)} /\ faults' = faults
         \/ s3' = s3 /\ faults' = faults + 1 /\ faults < MaxFaults
      /\ UNCHANGED <<up, sweep, owner, archived, arrivals, requests, rows, shelved, lost, disk,
                     putting, sync, restore, crashes>>
  <2>1. /\ purge' \in PurgeState /\ purge'.step = "disk"
        /\ purge'.todo = purge.todo \ {u} /\ purge'.project = purge.project
    <3>1. CASE purge' = [purge EXCEPT !.step = "disk", !.at = Nobody, !.todo = @ \ {u}]
      BY <1>a, <3>1 DEF PurgeState
    <3>2. CASE purge' = [purge EXCEPT !.step = "disk", !.at = Nobody, !.todo = @ \ {u},
                                      !.failed = TRUE]
      BY <1>a, <3>2 DEF PurgeState
    <3> QED
      BY <3>1, <3>2 DEF PurgeObject
  <2> QED
    BY <2>1 DEF PurgeObject, Fine, Fault, Script, Volume, requests
<1>2. TypeOK'
  BY AttachmentsAssumption, <1>0, <1>1 DEF TypeOK, requests
<1>3. Begun'
  BY <1>0, <1>1 DEF Begun, requests
<1>4. Filed'
  BY <1>0, <1>1 DEF Filed, HasRow, TypeOK, requests
<1>5. Answering'
  BY <1>0, <1>1 DEF Answering, HasRow, requests
<1>6. Tidy'
  BY <1>0, <1>1 DEF Tidy, HasRow, InHand, TypeOK, Filed, requests
<1>7. Mirrored' 
  BY <1>0, <1>1 DEF Mirrored, Alive, HasRow, Final, Filed, Late, TypeOK, requests
<1>8. Restored'
  BY <1>0, <1>1 DEF Restored, Alive, HasRow, requests
<1> QED
  BY <1>2, <1>3, <1>4, <1>5, <1>6, <1>7, <1>8 DEF IInv

LEMMA PurgeEndsKeeps ==
    ASSUME IInv, PurgeEnds
    PROVE  IInv'
<1> USE AttachmentsAssumption DEF IInv, PurgeEnds, Fine, Volume, Script, requests
<1>1. TypeOK'
  <2>1. purge' \in PurgeState
    BY DEF TypeOK, PurgeState
  <2> QED
    BY <2>1 DEF TypeOK, Files
<1>2. Begun'
  BY DEF Begun
<1>3. Filed'
  BY DEF Filed, HasRow
<1>4. Answering'
  BY DEF Answering, HasRow
<1>5. Tidy'
  BY DEF Tidy, HasRow, InHand
<1>6. Mirrored'
  BY DEF Mirrored, Alive, HasRow
<1>7. Restored'
  BY DEF Restored, Alive, HasRow
<1> QED
  BY <1>1, <1>2, <1>3, <1>4, <1>5, <1>6, <1>7

LEMMA SyncWalkKeeps ==
    ASSUME IInv, SyncWalk
    PROVE  IInv'
<1> USE AttachmentsAssumption DEF IInv, SyncWalk, Fine, Outside, Volume, Script,
      requests, MayRunScript
<1>1. TypeOK'
  <2>1. sync' \in SyncState
    BY DEF TypeOK, SyncState
  <2> QED
    BY <2>1 DEF TypeOK, Files
<1>2. Begun'
  BY DEF Begun
<1>3. Filed'
  BY DEF Filed, HasRow
<1>4. Answering'
  BY DEF Answering, HasRow
<1>5. Tidy'
  BY DEF Tidy, HasRow, InHand
<1>6. Mirrored'
  BY DEF Mirrored, Alive, HasRow
<1>7. Restored'
  BY DEF Restored, Alive, HasRow
<1> QED
  BY <1>1, <1>2, <1>3, <1>4, <1>5, <1>6, <1>7

LEMMA SyncListKeeps ==
    ASSUME IInv, SyncList
    PROVE  IInv'
<1> USE AttachmentsAssumption DEF IInv, SyncList, Fine, Outside, Volume, Script, requests
<1>1. TypeOK'
  <2>1. sync' \in SyncState
    BY DEF TypeOK, SyncState
  <2> QED
    BY <2>1 DEF TypeOK, Files
<1>2. Begun'
  BY DEF Begun
<1>3. Filed'
  BY DEF Filed, HasRow
<1>4. Answering'
  BY DEF Answering, HasRow
<1>5. Tidy'
  BY DEF Tidy, HasRow, InHand
<1>6. Mirrored'
  BY DEF Mirrored, Alive, HasRow
<1>7. Restored'
  BY DEF Restored, Alive, HasRow
<1> QED
  BY <1>1, <1>2, <1>3, <1>4, <1>5, <1>6, <1>7

LEMMA SyncPutKeeps ==
    ASSUME IInv, NEW f \in Files, SyncPut(f)
    PROVE  IInv'
<1>0. TypeOK /\ Begun /\ Filed /\ Answering /\ Tidy /\ Mirrored /\ Restored
  BY DEF IInv
<1>a. sync \in SyncState
  BY <1>0 DEF TypeOK
<1>1. /\ sync.step = "next" /\ sync' \in SyncState
      /\ sync'.local = sync.local /\ sync'.todo = sync.todo \ {f}
      /\ \/ /\ putting' = putting \cup {<<f, "script">>}
            /\ sync'.step = "await" /\ sync'.failed = sync.failed
         \/ /\ putting' = putting /\ sync'.step = "next" /\ sync'.failed
      /\ UNCHANGED <<up, sweep, owner, archived, arrivals, requests, disk, rows, shelved,
                     lost, s3,
                     purge, restore, faults, crashes>>
  BY <1>a, ZenonT(30) DEF SyncPut, Fine, Outside, Script, Volume, SyncState, requests
<1>2. TypeOK'
  BY AttachmentsAssumption, <1>0, <1>1 DEF TypeOK, requests
<1>3. Mirrored'
  BY <1>0, <1>1 DEF Mirrored, Alive, HasRow, requests
<1>4. Begun' /\ Answering' /\ Restored'
  BY <1>0, <1>1 DEF Begun, Answering, Restored, HasRow, Alive, requests
<1>5. Filed' /\ Tidy'
  BY <1>0, <1>1 DEF Filed, Tidy, HasRow, InHand, requests
<1> QED
  BY <1>2, <1>3, <1>4, <1>5 DEF IInv

LEMMA SyncGoesOnKeeps ==
    ASSUME IInv, SyncGoesOn
    PROVE  IInv'
<1>0. TypeOK /\ Begun /\ Filed /\ Answering /\ Tidy /\ Mirrored /\ Restored
  BY DEF IInv
<1>a. sync \in SyncState
  BY <1>0 DEF TypeOK
<1>1. /\ sync.step = "await" /\ sync' \in SyncState
      /\ sync'.local = sync.local /\ sync'.todo = sync.todo /\ sync'.step = "next"
      /\ \/ faults' = faults + 1 /\ faults < MaxFaults /\ sync'.failed
         \/ /\ faults' = faults /\ sync'.failed = sync.failed
            /\ \A f \in Files : <<f, "script">> \notin putting
      /\ UNCHANGED <<up, sweep, owner, archived, arrivals, requests, disk, rows, shelved,
                     lost, s3,
                     putting, purge, restore, crashes>>
  BY <1>a DEF SyncGoesOn, Fine, Fault, Outside, Script, Volume, SyncState, requests
<1>2. TypeOK'
  BY AttachmentsAssumption, <1>0, <1>1 DEF TypeOK, requests
<1>3. Mirrored'
  BY <1>0, <1>1 DEF Mirrored, Alive, HasRow, Final, Files, requests
<1>4. Begun' /\ Answering' /\ Restored'
  BY <1>0, <1>1 DEF Begun, Answering, Restored, HasRow, Alive, requests
<1>5. Filed' /\ Tidy'
  BY <1>0, <1>1 DEF Filed, Tidy, HasRow, InHand, TypeOK, requests
<1> QED
  BY <1>2, <1>3, <1>4, <1>5 DEF IInv

LEMMA SyncEndsKeeps ==
    ASSUME IInv, SyncEnds
    PROVE  IInv'
<1> USE AttachmentsAssumption DEF IInv, SyncEnds, Fine, Outside, Volume, Script, requests
<1>1. TypeOK'
  <2>1. sync' \in SyncState
    BY DEF TypeOK, SyncState
  <2> QED
    BY <2>1 DEF TypeOK, Files
<1>2. Begun'
  BY DEF Begun
<1>3. Filed'
  BY DEF Filed, HasRow
<1>4. Answering'
  BY DEF Answering, HasRow
<1>5. Tidy'
  BY DEF Tidy, HasRow, InHand
<1>6. Mirrored'
  BY DEF Mirrored, Alive, HasRow
<1>7. Restored'
  BY DEF Restored, Alive, HasRow
<1> QED
  BY <1>1, <1>2, <1>3, <1>4, <1>5, <1>6, <1>7

LEMMA RestoreListKeeps ==
    ASSUME IInv, RestoreList
    PROVE  IInv'
<1> USE AttachmentsAssumption DEF IInv, RestoreList, Fine, Around, Script, requests,
      MayRunScript
<1>1. TypeOK'
  <2>1. restore' \in RestoreState
    BY DEF TypeOK, RestoreState
  <2> QED
    BY <2>1 DEF TypeOK, Files
<1>2. Begun'
  BY DEF Begun
<1>3. Filed'
  BY DEF Filed, HasRow
<1>4. Answering'
  BY DEF Answering, HasRow
<1>5. Tidy'
  BY DEF Tidy, HasRow, InHand
<1>6. Mirrored'
  BY DEF Mirrored, Alive, HasRow
<1>7. Restored'
  BY DEF Restored, Alive, HasRow
<1> QED
  BY <1>1, <1>2, <1>3, <1>4, <1>5, <1>6, <1>7

LEMMA RestoreGetKeeps ==
    ASSUME IInv, NEW f \in Files, RestoreGet(f)
    PROVE  IInv'
<1>0. TypeOK /\ Begun /\ Filed /\ Answering /\ Tidy /\ Mirrored /\ Restored
  BY DEF IInv
<1>a. restore \in RestoreState
  BY <1>0 DEF TypeOK
<1>1. /\ restore.step = "next" /\ restore' \in RestoreState
      /\ restore'.found = restore.found /\ restore'.todo = restore.todo \ {f}
      /\ \/ restore'.step = "write" /\ restore'.at = f /\ restore'.failed = restore.failed
         \/ restore'.step = "next" /\ restore'.failed
      /\ faults' = faults \/ (faults' = faults + 1 /\ faults < MaxFaults)
      /\ UNCHANGED <<up, sweep, owner, archived, arrivals, requests, disk, rows, shelved,
                     lost, s3,
                     putting, purge, sync, crashes>>
  BY <1>a, ZenonT(30) DEF RestoreGet, Fine, Fault, Around, Script, RestoreState, requests
<1>2. TypeOK'
  BY AttachmentsAssumption, <1>0, <1>1 DEF TypeOK, requests
<1>3. Restored'
  BY <1>0, <1>1 DEF Restored, Alive, HasRow, requests
<1>4. Begun' /\ Answering' /\ Mirrored'
  BY <1>0, <1>1 DEF Begun, Answering, Mirrored, HasRow, Alive, requests
<1>5. Filed' /\ Tidy'
  BY <1>0, <1>1 DEF Filed, Tidy, HasRow, InHand, requests
<1> QED
  BY <1>2, <1>3, <1>4, <1>5 DEF IInv

LEMMA RestoreWriteKeeps ==
    ASSUME IInv, RestoreWrite
    PROVE  IInv'
<1>0. TypeOK /\ Begun /\ Filed /\ Answering /\ Tidy /\ Mirrored /\ Restored
  BY DEF IInv
<1>a. restore \in RestoreState
  BY <1>0 DEF TypeOK
<1>1. /\ restore.step = "write" /\ restore.at \in Files /\ restore' \in RestoreState
      /\ restore'.found = restore.found /\ restore'.todo = restore.todo
      /\ restore'.step = "next" /\ restore'.at = Nobody
      /\ \/ /\ faults' = faults /\ restore'.failed = restore.failed
            /\ disk' = disk \cup {restore.at}
            /\ lost' = {u \in lost : Final(u) # restore.at}
         \/ /\ faults' = faults + 1 /\ faults < MaxFaults /\ restore'.failed
            /\ disk' = disk /\ lost' = lost
      /\ UNCHANGED <<up, sweep, owner, archived, arrivals, requests, rows, shelved, s3,
                     putting, purge, sync, crashes>>
  BY <1>0, <1>a DEF RestoreWrite, Fine, Fault, Around, Script, RestoreState, Restored, requests
<1>2. TypeOK'
  BY AttachmentsAssumption, <1>0, <1>1 DEF TypeOK, requests
<1>3. Restored'
  BY <1>0, <1>1 DEF Restored, Alive, HasRow, requests
<1>4. Begun' /\ Answering' /\ Mirrored'
  BY <1>0, <1>1 DEF Begun, Answering, Mirrored, HasRow, Alive, requests
<1>5. Filed' /\ Tidy'
  BY <1>0, <1>1 DEF Filed, Tidy, HasRow, InHand, requests
<1> QED
  BY <1>2, <1>3, <1>4, <1>5 DEF IInv

LEMMA RestoreEndsKeeps ==
    ASSUME IInv, RestoreEnds
    PROVE  IInv'
<1> USE AttachmentsAssumption DEF IInv, RestoreEnds, Fine, Around, Script, requests
<1>1. TypeOK'
  <2>1. restore' \in RestoreState
    BY DEF TypeOK, RestoreState
  <2> QED
    BY <2>1 DEF TypeOK, Files
<1>2. Begun'
  BY DEF Begun
<1>3. Filed'
  BY DEF Filed, HasRow
<1>4. Answering'
  BY DEF Answering, HasRow
<1>5. Tidy'
  BY DEF Tidy, HasRow, InHand
<1>6. Mirrored'
  BY DEF Mirrored, Alive, HasRow
<1>7. Restored'
  BY DEF Restored, Alive, HasRow
<1> QED
  BY <1>1, <1>2, <1>3, <1>4, <1>5, <1>6, <1>7

-----------------------------------------------------------------------------
LEMMA InvInit == Init => IInv
<1> SUFFICES ASSUME Init PROVE IInv
  OBVIOUS
<1> USE AttachmentsAssumption DEF Init
<1>1. InitialOwner \in [Issues -> Projects \cup {Nobody}]
  BY DEF Issues
<1>2. /\ purge \in PurgeState /\ sync \in SyncState /\ restore \in RestoreState
  BY DEF PurgeState, SyncState, RestoreState
<1>3. TypeOK
  BY <1>1, <1>2 DEF TypeOK, Phases, Quiet
<1>4. Begun /\ Filed /\ Answering
  BY DEF Begun, Filed, Answering, HasRow
<1>5. Tidy /\ Mirrored /\ Restored
  BY DEF Tidy, Mirrored, Restored
<1> QED
  BY <1>3, <1>4, <1>5 DEF IInv

LEMMA InvStep == IInv /\ [Next]_vars => IInv'
<1> SUFFICES ASSUME IInv, [Next]_vars PROVE IInv'
  OBVIOUS
<1>1. CASE UNCHANGED vars
  <2> USE <1>1 DEF vars, requests
  <2>1. TypeOK' /\ Begun'
    BY DEF IInv, TypeOK, Begun
  <2>2. Filed' /\ Answering' /\ Tidy'
    BY DEF IInv, Filed, Answering, Tidy, HasRow, InHand
  <2>3. Mirrored' /\ Restored'
    BY DEF IInv, Mirrored, Restored, Alive, HasRow
  <2> QED
    BY <2>1, <2>2, <2>3 DEF IInv
<1>2. CASE \E u \in Uploads :
             \/ \E i \in Issues : Begin(u, i)
             \/ \E why \in Interrupts : Interrupt(u, why)
             \/ Reject(u) \/ Received(u) \/ Request(u) \/ SweepOne(u)
             \/ PurgeFile(u) \/ PurgeObject(u)
  BY <1>2, BeginKeeps, InterruptKeeps, RejectKeeps, ReceivedKeeps, MoveKeeps, MoveFailsKeeps,
     InsertKeeps, InsertFailsKeeps, UndoKeeps, PutStartsKeeps, AnswerKeeps, CleanedKeeps,
     SweepOneKeeps, PurgeFileKeeps, PurgeObjectKeeps
     DEF Request
<1>3. CASE \E f \in Files, who \in {"server", "script"} : PutLands(f, who) \/ PutLost(f, who)
  BY <1>3, PutLandsKeeps, PutLostKeeps
<1>4. CASE Crash \/ Boot \/ SweepRead \/ LoseFiles
  BY <1>4, CrashKeeps, BootKeeps, SweepReadKeeps, LoseFilesKeeps
<1>5. CASE \/ \E u \in Uploads, who \in Readers : ArchiveAttachment(u, who)
           \/ \E p \in Projects : CreateIssue(p) \/ PurgeRows(p)
           \/ \E i \in Issues : ArchiveIssue(i)
  BY <1>5, ArchiveAttachmentKeeps, CreateIssueKeeps, PurgeRowsKeeps, ArchiveIssueKeeps
<1>6. CASE PurgeEnds \/ SyncWalk \/ SyncList \/ (\E f \in Files : SyncPut(f)) \/ SyncGoesOn
           \/ SyncEnds
  BY <1>6, PurgeEndsKeeps, SyncWalkKeeps, SyncListKeeps, SyncPutKeeps, SyncGoesOnKeeps,
     SyncEndsKeeps
<1>7. CASE RestoreList \/ (\E f \in Files : RestoreGet(f)) \/ RestoreWrite \/ RestoreEnds
  BY <1>7, RestoreListKeeps, RestoreGetKeeps, RestoreWriteKeeps, RestoreEndsKeeps
<1> QED
  BY <1>1, <1>2, <1>3, <1>4, <1>5, <1>6, <1>7 DEF Next

\* The invariant behind the theorems: it holds however many uploads, issues,
\* crashes, failing operations and interrupts there are.
THEOREM Invariance == Spec => []IInv
  BY InvInit, InvStep, PTL DEF Spec

\* Whoever downloads an attachment they may see gets its file, unless it went
\* with its volume: each row is of a file that is there or was lost.
THEOREM RowAlwaysHasFile == Spec => []RowHasFile
<1>1. IInv => RowHasFile
  BY DEF IInv, Filed, RowHasFile, Download, Accessible, Streamed, Found
<1> QED
  BY <1>1, Invariance, PTL

\* A file that nobody fails to unlink never outlives its row and its request.
THEOREM NeverOrphanFile == Spec => []NoOrphanFile
<1>1. IInv => NoOrphanFile
  BY DEF IInv, Tidy, NoOrphanFile, HasRow
<1> QED
  BY <1>1, Invariance, PTL

\* A client told "201" has its attachment, unless its project was deleted; one
\* told of a failure has nothing stored.
THEOREM AnswerIsAlwaysTrue == Spec => []AnswerIsTrue
<1>1. IInv => AnswerIsTrue
  BY DEF IInv, Answering, AnswerIsTrue, HasRow
<1> QED
  BY <1>1, Invariance, PTL

\* What the two scripts report as done without a failure is done, of every
\* attachment there is, whatever the server and the other scripts do beside them.
THEOREM ScriptsAlwaysReconcile == Spec => []ScriptsReconcile
<1>1. IInv => ScriptsReconcile
  BY DEF IInv, TypeOK, Mirrored, Restored, ScriptsReconcile, Alive, HasRow
<1> QED
  BY <1>1, Invariance, PTL
=============================================================================
