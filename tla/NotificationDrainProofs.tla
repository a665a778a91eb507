---------------------- MODULE NotificationDrainProofs ----------------------
(***************************************************************************)
(* Theorems about NotificationDrain, for every set of accounts, projects   *)
(* and drain runs and every value of the limits.                           *)
(***************************************************************************)
EXTENDS NotificationDrain, SequenceTheorems, TLAPS

USE DEF DrainAssumption, Active, Idle

-----------------------------------------------------------------------------
(* Facts about the operators of the model                                  *)

\* What kickDrain does to the number of queued callbacks.
LEMMA KickType ==
    ASSUME TypeOK, Kick
    PROVE  kicks' \in 0..MaxKicks
BY DrainAssumption DEF TypeOK, Kick

\* After kickDrain a drain is running or a callback is queued.
LEMMA KickCovers ==
    ASSUME TypeOK, Kick, ~isDraining
    PROVE  kicks' # 0
<1>1. IF kicks = MaxKicks THEN kicks' = kicks ELSE kicks' = kicks + 1
  <2>1. CASE kicks = MaxKicks
    BY <2>1, Zenon DEF Kick
  <2>2. CASE kicks # MaxKicks
    BY <2>2, Zenon DEF Kick
  <2>3. QED
    BY <2>1, <2>2
<1>2. kicks \in 0..MaxKicks
  BY DEF TypeOK
<1>3. QED
  BY <1>1, <1>2, DrainAssumption

\* The recipients of an event are a sequence of accounts.
LEMMA RecipientsType ==
    ASSUME NEW r \in Recipients
    PROVE  /\ r \in Seq(Users)
           /\ Len(r) \in Nat
           /\ DOMAIN r = 1..Len(r)
<1>1. PICK k \in 0..Cardinality(Users) : r \in [1..k -> Users]
  BY DEF Recipients
<1>2. k \in Nat
  OBVIOUS
<1>3. QED
  BY <1>1, <1>2

\* A batch is a sequence of owed rows.
LEMMA UnsentType ==
    ASSUME NEW b \in Unsent
    PROVE  b \in Seq(Owed) /\ DOMAIN b = 1..Len(b) /\ Len(b) \in Nat
<1>1. PICK k \in 0..BatchLimit : b \in [1..k -> Owed]
  BY DEF Unsent
<1>2. k \in Nat
  BY DrainAssumption
<1>3. QED
  BY <1>1, <1>2

\* A batch as the drain keeps it has the type of its rows.
LEMMA ListedType ==
    ASSUME TypeOK, NEW b \in Unsent
    PROVE  [i \in DOMAIN b |->
               [id |-> b[i].id, serial |-> b[i].serial, user |-> b[i].user,
                off |-> b[i].user \in disabled]] \in Seq(Listed)
<1>1. b \in Seq(Owed) /\ DOMAIN b = 1..Len(b) /\ Len(b) \in Nat
  BY UnsentType
<1>2. \A i \in 1..Len(b) : b[i] \in Notice
  BY <1>1 DEF TypeOK, Owed
<1>3. ASSUME NEW i \in 1..Len(b)
      PROVE  [id |-> b[i].id, serial |-> b[i].serial, user |-> b[i].user,
                off |-> b[i].user \in disabled] \in Listed
  <2>1. (b[i].user \in disabled) \in BOOLEAN
    OBVIOUS
  <2>2. QED
    BY <1>2, <2>1 DEF Notice, Listed
<1>4. QED
  BY <1>1, <1>3

\* Setting emailed_at keeps the type of the table.
LEMMA MarkEmailedType ==
    ASSUME TypeOK, NEW id, MarkEmailed(id)
    PROVE  notices' \subseteq Notice
BY DEF TypeOK, MarkEmailed, Notice

-----------------------------------------------------------------------------
(* The type invariant                                                      *)

\* A run that awaits a send has the row it sends.
SendingHasRow == \A d \in Drains : drain[d].pc = "sending" => drain[d].rows # <<>>

\* The type invariant alone is not inductive: SendResolves takes the tail of
\* the batch, which has a type only because the batch is not empty.
Typed == TypeOK /\ SendingHasRow

\* The rows of a batch that has some: its head, its tail.
LEMMA HeadTailType ==
    ASSUME TypeOK, NEW d \in Drains, drain[d].rows # <<>>
    PROVE  /\ Head(drain[d].rows) \in Listed
           /\ Head(drain[d].rows).serial \in Serials
           /\ Tail(drain[d].rows) \in Seq(Listed)
<1>1. drain[d].rows \in Seq(Listed)
  BY DEF TypeOK, DrainState
<1>2. /\ Head(drain[d].rows) \in Listed
      /\ Tail(drain[d].rows) \in Seq(Listed)
  BY <1>1, HeadTailProperties
<1>3. QED
  BY <1>2 DEF Listed

\* One run of drainNotifications changes only its own state.
LEMMA DrainType ==
    ASSUME Typed, NEW d \in Drains, NEW new \in DrainState,
           drain' = [drain EXCEPT ![d] = new],
           new.pc = "sending" => new.rows # <<>>
    PROVE  drain' \in [Drains -> DrainState] /\ SendingHasRow'
BY DEF Typed, TypeOK, SendingHasRow

\* The states in which a run starts and ends.
LEMMA IdleType == Idle \in DrainState /\ [Idle EXCEPT !.pc = "list"] \in DrainState
<1>1. <<>> \in Seq(Listed) /\ 0 \in 0..MaxBatches
  BY DrainAssumption
<1>2. QED
  BY <1>1 DEF DrainState

\* Leaving drainNotifications keeps the types.
LEMMA LeaveType ==
    ASSUME Typed, NEW d \in Drains, NEW how, Leave(d, how)
    PROVE  /\ drain' \in [Drains -> DrainState]
           /\ SendingHasRow'
           /\ isDraining' \in BOOLEAN
           /\ lastExit' = how
<1>1. /\ Idle \in DrainState
      /\ drain' = [drain EXCEPT ![d] = Idle]
      /\ Idle.pc # "sending"
  BY IdleType DEF Leave
<1>2. drain' \in [Drains -> DrainState] /\ SendingHasRow'
  BY <1>1, DrainType
<1>3. QED
  BY <1>2 DEF Leave

\* Every action keeps the type invariant.
LEMMA TypeStep == Typed /\ [Next]_vars => Typed'
<1> SUFFICES ASSUME Typed, [Next]_vars PROVE Typed'
  OBVIOUS
<1> USE DrainAssumption DEF Typed
<1>1. ASSUME NEW p \in Projects, NEW r \in Recipients, Mutate(p, r)
      PROVE  Typed'
  <2>1. /\ r \in Seq(Users) /\ Len(r) \in Nat /\ DOMAIN r = 1..Len(r)
    BY RecipientsType
  <2>2. kicks' \in 0..MaxKicks
    BY <1>1, KickType DEF Mutate
  <2>3. PICK top \in LastId :
          notices' = notices \cup
            {[id |-> top + i, serial |-> issued + i, user |-> r[i],
              project |-> p, owed |-> TRUE] : i \in DOMAIN r}
    BY <1>1 DEF Mutate
  <2>4. top \in Nat
    BY DEF LastId
  <2>5. ASSUME NEW i \in DOMAIN r
        PROVE  [id |-> top + i, serial |-> issued + i, user |-> r[i],
                project |-> p, owed |-> TRUE] \in Notice
    <3>1. issued + i \in Serials
      BY <1>1, <2>1 DEF Mutate, TypeOK, Serials
    <3>2. r[i] \in Users
      BY <2>1
    <3>3. QED
      BY <2>1, <2>4, <3>1, <3>2 DEF Notice
  <2>6. notices' \subseteq Notice
    BY <2>3, <2>5 DEF TypeOK
  <2>7. issued' \in 0..MaxNotices
    BY <1>1, <2>1 DEF Mutate, TypeOK
  <2>8. QED
    BY <1>1, <2>2, <2>6, <2>7 DEF Mutate, TypeOK, SendingHasRow
<1>2. CASE FeedFetch
  BY <1>2, KickType DEF FeedFetch, TypeOK, SendingHasRow
<1>3. ASSUME NEW u \in Users, NEW off \in BOOLEAN, SetDisabled(u, off)
      PROVE  Typed'
  BY <1>3 DEF SetDisabled, TypeOK, SendingHasRow
<1>4. ASSUME NEW d \in Drains, RunKick(d)
      PROVE  Typed'
  <2>1. CASE isDraining
    BY <1>4, <2>1 DEF RunKick, TypeOK, SendingHasRow
  <2>2. CASE ~isDraining
    <3>1. /\ [Idle EXCEPT !.pc = "list"] \in DrainState
          /\ drain' = [drain EXCEPT ![d] = [Idle EXCEPT !.pc = "list"]]
          /\ [Idle EXCEPT !.pc = "list"].pc # "sending"
      BY <1>4, <2>2, IdleType DEF RunKick
    <3>2. drain' \in [Drains -> DrainState] /\ SendingHasRow'
      BY <3>1, DrainType
    <3>3. QED
      BY <1>4, <2>2, <3>2 DEF RunKick, TypeOK
  <2>3. QED
    BY <2>1, <2>2
<1>5. ASSUME NEW d \in Drains, ListBatch(d)
      PROVE  Typed'
  <2>1. PICK b \in Unsent :
         drain' = [drain EXCEPT ![d] =
            [pc |-> "row", batch |-> drain[d].batch + 1, accepted |-> FALSE,
             rows |-> [i \in DOMAIN b |->
                          [id |-> b[i].id, serial |-> b[i].serial,
                           user |-> b[i].user, off |-> b[i].user \in disabled]]]]
    BY <1>5 DEF ListBatch
  <2>2. drain[d].batch + 1 \in 0..MaxBatches
    BY <1>5 DEF ListBatch, TypeOK, DrainState
  <2>3. [pc |-> "row", batch |-> drain[d].batch + 1, accepted |-> FALSE,
             rows |-> [i \in DOMAIN b |->
                          [id |-> b[i].id, serial |-> b[i].serial,
                           user |-> b[i].user, off |-> b[i].user \in disabled]]]
          \in DrainState
    BY <2>2, ListedType DEF DrainState
  <2>4. drain' \in [Drains -> DrainState] /\ SendingHasRow'
    BY <2>1, <2>3, DrainType
  <2>5. QED
    BY <1>5, <2>4 DEF ListBatch, TypeOK
<1>6. ASSUME NEW d \in Drains, EndDrain(d)
      PROVE  Typed'
  <2>1. /\ drain' \in [Drains -> DrainState] /\ SendingHasRow'
        /\ isDraining' \in BOOLEAN
        /\ lastExit' \in {"capped", "drained"}
    BY <1>6, LeaveType DEF EndDrain
  <2>2. QED
    BY <1>6, <2>1 DEF EndDrain, TypeOK
<1>7. ASSUME NEW d \in Drains, SkipRow(d)
      PROVE  Typed'
  <2>1. drain[d] \in DrainState
    BY DEF TypeOK
  <2>2. /\ Head(drain[d].rows).serial \in Serials
        /\ Tail(drain[d].rows) \in Seq(Listed)
    BY <1>7, HeadTailType DEF SkipRow
  <2>3. skipped' \subseteq Serials
    BY <1>7, <2>2 DEF SkipRow, TypeOK
  <2>4. notices' \subseteq Notice
    BY <1>7, MarkEmailedType DEF SkipRow
  <2>5. drain' \in [Drains -> DrainState] /\ SendingHasRow'
    BY <1>7, <2>1, <2>2 DEF SkipRow, TypeOK, DrainState, SendingHasRow
  <2>6. QED
    BY <1>7, <2>3, <2>4, <2>5 DEF SkipRow, TypeOK
<1>8. ASSUME NEW d \in Drains, StartSend(d) \/ EndBatch(d)
      PROVE  Typed'
  <2>1. drain[d] \in DrainState
    BY DEF TypeOK
  <2>2. PICK pc \in {"list", "sending"} :
          /\ drain' = [drain EXCEPT ![d].pc = pc]
          /\ pc = "sending" => drain[d].rows # <<>>
    BY <1>8 DEF StartSend, EndBatch
  <2>3. drain' \in [Drains -> DrainState] /\ SendingHasRow'
    BY <2>1, <2>2 DEF TypeOK, DrainState, SendingHasRow
  <2>4. QED
    BY <1>8, <2>3 DEF StartSend, EndBatch, TypeOK
<1>9. ASSUME NEW d \in Drains, Accept(d)
      PROVE  Typed'
  <2>1. drain[d] \in DrainState
    BY DEF TypeOK
  <2>2. Head(drain[d].rows).serial \in Serials
    BY <1>9, HeadTailType DEF Accept, SendingHasRow
  <2>3. mailed' \in [Serials -> Nat]
    BY <1>9, <2>2 DEF Accept, TypeOK
  <2>4. drain' \in [Drains -> DrainState] /\ SendingHasRow'
    BY <1>9, <2>1 DEF Accept, TypeOK, DrainState, SendingHasRow
  <2>5. QED
    BY <1>9, <2>3, <2>4 DEF Accept, TypeOK
<1>10. ASSUME NEW d \in Drains, SendResolves(d)
       PROVE  Typed'
  <2>1. drain[d] \in DrainState
    BY DEF TypeOK
  <2>2. Tail(drain[d].rows) \in Seq(Listed)
    BY <1>10, HeadTailType DEF SendResolves, SendingHasRow
  <2>3. notices' \subseteq Notice
    BY <1>10, MarkEmailedType DEF SendResolves
  <2>4. drain' \in [Drains -> DrainState] /\ SendingHasRow'
    BY <1>10, <2>1, <2>2 DEF SendResolves, TypeOK, DrainState, SendingHasRow
  <2>5. QED
    BY <1>10, <2>3, <2>4 DEF SendResolves, TypeOK
<1>11. ASSUME NEW d \in Drains, SendRefused(d) \/ SendFails(d) \/ DrainThrows(d)
       PROVE  Typed'
  <2>1. /\ drain' \in [Drains -> DrainState] /\ SendingHasRow'
        /\ isDraining' \in BOOLEAN
        /\ lastExit' \in {"aborted", "threw"}
    BY <1>11, LeaveType DEF SendRefused, SendFails, DrainThrows
  <2>2. faults' \in 0..MaxFaults
    BY <1>11 DEF SendRefused, SendFails, DrainThrows, TypeOK
  <2>3. QED
    BY <1>11, <2>1, <2>2 DEF SendRefused, SendFails, DrainThrows, TypeOK
<1>12. CASE Crash
  <2>1. /\ drain' \in [Drains -> DrainState] /\ SendingHasRow'
        /\ faults' \in 0..MaxFaults
    BY <1>12, IdleType DEF Crash, TypeOK, SendingHasRow
  <2>2. kicks' \in 0..MaxKicks
    BY <1>12 DEF Crash
  <2>3. up' \in BOOLEAN /\ isDraining' \in BOOLEAN
    BY <1>12 DEF Crash
  <2>4. UNCHANGED <<notices, issued, projects, disabled, mailed, skipped, lastExit>>
    BY <1>12 DEF Crash
  <2>5. QED
    BY <2>1, <2>2, <2>3, <2>4 DEF TypeOK
<1>13. CASE Boot
  BY <1>13 DEF Boot, TypeOK, SendingHasRow
<1>14. ASSUME NEW p \in Projects, Purge(p)
       PROVE  Typed'
  BY <1>14 DEF Purge, TypeOK, SendingHasRow
<1>15. CASE UNCHANGED vars
  BY <1>15 DEF vars, TypeOK, SendingHasRow
<1>16. QED
  BY <1>1, <1>2, <1>3, <1>4, <1>5, <1>6, <1>7, <1>8, <1>9, <1>10, <1>11,
     <1>12, <1>13, <1>14, <1>15 DEF Next, DrainStep

\* The initial state has the types.
LEMMA TypedInit == Init => Typed
<1> SUFFICES ASSUME Init PROVE Typed
  OBVIOUS
<1>1. drain \in [Drains -> DrainState] /\ SendingHasRow
  BY IdleType DEF Init, SendingHasRow
<1>2. /\ notices \subseteq Notice
      /\ issued \in 0..MaxNotices
      /\ kicks \in 0..MaxKicks
      /\ faults \in 0..MaxFaults
  BY DrainAssumption DEF Init
<1>3. /\ projects \subseteq Projects
      /\ disabled \subseteq Users
      /\ skipped \subseteq Serials
      /\ mailed \in [Serials -> Nat]
      /\ up \in BOOLEAN
      /\ isDraining \in BOOLEAN
      /\ lastExit \in {"drained", "capped", "aborted", "threw"}
  BY DEF Init
<1>4. QED
  BY <1>1, <1>2, <1>3 DEF Typed, TypeOK

\* The variables of the outbox and of the drain keep their types: the batch
\* counter stays within maxBatches and every batch row has a row to send.
THEOREM TypeCorrect == Spec => []TypeOK
<1>1. Init => Typed
  BY TypedInit
<1>2. Typed /\ [Next]_vars => Typed'
  BY TypeStep
<1>3. QED
  BY <1>1, <1>2, PTL DEF Spec, Typed
-----------------------------------------------------------------------------
(* The drain lock, and no lost wakeup                                      *)

\* A dead server has nothing queued and nothing running.
DeadIsQuiet == ~up => kicks = 0 /\ ~isDraining

\* OneDrain is what makes OwedIsCovered inductive: a run that marks rows or
\* lists a batch holds the flag, so the row is covered by that very run.
Covered == Typed /\ OneDrain /\ DeadIsQuiet /\ OwedIsCovered

\* A run that leaves drainNotifications was the only one, and frees the lock.
LEMMA LeaveFrees ==
    ASSUME Typed, OneDrain, NEW d \in Drains, Active(d), NEW how, Leave(d, how)
    PROVE  OneDrain' /\ ~isDraining'
<1>1. \A e \in Drains : e # d => ~Active(e)
  BY DEF OneDrain
<1>2. ~isDraining'
  BY DEF Leave
<1>3. \A e \in Drains : drain'[e].pc = "idle"
  BY <1>1 DEF Leave, Typed, TypeOK
<1>4. QED
  BY <1>2, <1>3 DEF OneDrain

\* A step of an active run that stays active changes nobody's hold on the lock.
LEMMA StayActive ==
    ASSUME Typed, OneDrain, NEW d \in Drains, Active(d), NEW new,
           drain' = [drain EXCEPT ![d] = new], new.pc # "idle",
           UNCHANGED isDraining
    PROVE  OneDrain' /\ isDraining'
<1>1. \A e \in Drains : drain'[e].pc # "idle" <=> drain[e].pc # "idle"
  BY DEF Typed, TypeOK
<1>2. QED
  BY <1>1 DEF OneDrain

\* The steps inside a drain: the flag is set before and after.
Inside(d) ==
    ListBatch(d) \/ SkipRow(d) \/ StartSend(d) \/ EndBatch(d) \/ Accept(d)
        \/ SendResolves(d)

LEMMA InsideStep ==
    ASSUME Typed, OneDrain, NEW d \in Drains, Inside(d)
    PROVE  OneDrain' /\ isDraining'
<1>1. Active(d) /\ UNCHANGED isDraining
  BY DEF Inside, ListBatch, SkipRow, StartSend, EndBatch, Accept, SendResolves
<1>2. PICK new : drain' = [drain EXCEPT ![d] = new] /\ new.pc # "idle"
  <2>1. drain[d] \in DrainState
    BY DEF Typed, TypeOK
  <2>2. CASE ListBatch(d)
    BY <2>2 DEF ListBatch
  <2>3. CASE SkipRow(d)
    <3>1. drain' = [drain EXCEPT ![d] = [drain[d] EXCEPT !.rows = Tail(drain[d].rows)]]
      BY <2>3 DEF SkipRow
    <3>2. [drain[d] EXCEPT !.rows = Tail(drain[d].rows)].pc = "row"
      BY <2>1, <2>3 DEF SkipRow, DrainState
    <3>3. QED
      BY <3>1, <3>2
  <2>4. CASE StartSend(d)
    <3>1. drain' = [drain EXCEPT ![d] = [drain[d] EXCEPT !.pc = "sending"]]
      BY <2>4 DEF StartSend
    <3>2. [drain[d] EXCEPT !.pc = "sending"].pc = "sending"
      BY <2>1 DEF DrainState
    <3>3. QED
      BY <3>1, <3>2
  <2>5. CASE EndBatch(d)
    <3>1. drain' = [drain EXCEPT ![d] = [drain[d] EXCEPT !.pc = "list"]]
      BY <2>5 DEF EndBatch
    <3>2. [drain[d] EXCEPT !.pc = "list"].pc = "list"
      BY <2>1 DEF DrainState
    <3>3. QED
      BY <3>1, <3>2
  <2>6. CASE Accept(d)
    <3>1. drain' = [drain EXCEPT ![d] = [drain[d] EXCEPT !.accepted = TRUE]]
      BY <2>6 DEF Accept
    <3>2. [drain[d] EXCEPT !.accepted = TRUE].pc = "sending"
      BY <2>1, <2>6 DEF Accept, DrainState
    <3>3. QED
      BY <3>1, <3>2
  <2>7. CASE SendResolves(d)
    <3>1. drain' = [drain EXCEPT ![d] =
             [drain[d] EXCEPT !.pc = "row", !.rows = Tail(drain[d].rows),
                              !.accepted = FALSE]]
      BY <2>7 DEF SendResolves
    <3>2. [drain[d] EXCEPT !.pc = "row", !.rows = Tail(drain[d].rows),
                           !.accepted = FALSE].pc = "row"
      BY <2>1 DEF DrainState
    <3>3. QED
      BY <3>1, <3>2
  <2>8. QED
    BY <2>2, <2>3, <2>4, <2>5, <2>6, <2>7 DEF Inside
<1>3. QED
  BY <1>1, <1>2, StayActive

LEMMA CoveredStep == Covered /\ [Next]_vars => Covered'
<1> SUFFICES ASSUME Covered, [Next]_vars
             PROVE  OneDrain' /\ DeadIsQuiet' /\ OwedIsCovered'
  BY TypeStep DEF Covered
<1> USE DEF Covered
<1>1. ASSUME NEW p \in Projects, NEW r \in Recipients, Mutate(p, r)
      PROVE  OneDrain' /\ DeadIsQuiet' /\ OwedIsCovered'
  <2>1. isDraining' = isDraining /\ drain' = drain /\ up' = up /\ up
    BY <1>1 DEF Mutate, Yielded
  <2>2. ~isDraining => kicks' # 0
    BY <1>1, KickCovers DEF Mutate, Typed
  <2>3. QED
    BY <2>1, <2>2 DEF OneDrain, DeadIsQuiet, OwedIsCovered
<1>2. CASE FeedFetch
  <2>1. /\ isDraining' = isDraining /\ drain' = drain /\ up' = up /\ up
        /\ notices' = notices /\ lastExit' = lastExit
    BY <1>2 DEF FeedFetch, Yielded
  <2>2. ~isDraining => kicks' # 0
    BY <1>2, KickCovers DEF FeedFetch, Typed
  <2>3. QED
    BY <2>1, <2>2 DEF OneDrain, DeadIsQuiet, OwedIsCovered
<1>3. ASSUME NEW u \in Users, NEW off \in BOOLEAN, SetDisabled(u, off)
      PROVE  OneDrain' /\ DeadIsQuiet' /\ OwedIsCovered'
  BY <1>3 DEF SetDisabled, OneDrain, DeadIsQuiet, OwedIsCovered, Owed
<1>4. ASSUME NEW d \in Drains, RunKick(d)
      PROVE  OneDrain' /\ DeadIsQuiet' /\ OwedIsCovered'
  <2>1. up' /\ isDraining'
    BY <1>4 DEF RunKick, Yielded
  <2>2. OneDrain'
    <3>1. CASE isDraining
      BY <1>4, <3>1 DEF RunKick, OneDrain
    <3>2. CASE ~isDraining
      <4>1. \A e \in Drains : ~Active(e)
        BY <3>2 DEF OneDrain
      <4>2. /\ drain' = [drain EXCEPT ![d] = [Idle EXCEPT !.pc = "list"]]
            /\ [Idle EXCEPT !.pc = "list"].pc # "idle"
        BY <1>4, <3>2 DEF RunKick
      <4>3. \A e \in Drains : drain'[e].pc # "idle" <=> e = d
        BY <4>1, <4>2 DEF Typed, TypeOK
      <4>4. QED
        BY <2>1, <4>3 DEF OneDrain
    <3>3. QED
      BY <3>1, <3>2
  <2>3. QED
    BY <2>1, <2>2 DEF DeadIsQuiet, OwedIsCovered
<1>5. ASSUME NEW d \in Drains, Inside(d)
      PROVE  OneDrain' /\ DeadIsQuiet' /\ OwedIsCovered'
  <2>1. OneDrain' /\ isDraining'
    BY <1>5, InsideStep
  <2>2. isDraining /\ UNCHANGED <<isDraining, up, kicks>>
    BY <1>5, <2>1 DEF Inside, ListBatch, SkipRow, StartSend, EndBatch, Accept,
                      SendResolves
  <2>3. QED
    BY <2>1, <2>2 DEF DeadIsQuiet, OwedIsCovered
<1>6. ASSUME NEW d \in Drains, EndDrain(d)
      PROVE  OneDrain' /\ DeadIsQuiet' /\ OwedIsCovered'
  <2>1. OneDrain' /\ ~isDraining'
    BY <1>6, LeaveFrees DEF EndDrain
  <2>2. lastExit' = "capped" \/ Owed' = {}
    BY <1>6 DEF EndDrain, Leave, Owed
  <2>3. QED
    BY <1>6, <2>1, <2>2 DEF EndDrain, DeadIsQuiet, OwedIsCovered
<1>7. ASSUME NEW d \in Drains, SendRefused(d) \/ SendFails(d) \/ DrainThrows(d)
      PROVE  OneDrain' /\ DeadIsQuiet' /\ OwedIsCovered'
  <2>1. OneDrain' /\ ~isDraining'
    BY <1>7, LeaveFrees DEF SendRefused, SendFails, DrainThrows
  <2>2. /\ lastExit' \in {"aborted", "threw"}
        /\ UNCHANGED <<up, kicks>>
    BY <1>7 DEF SendRefused, SendFails, DrainThrows, Leave
  <2>3. QED
    BY <2>1, <2>2 DEF DeadIsQuiet, OwedIsCovered
<1>8. CASE Crash
  <2>1. \A e \in Drains : drain'[e].pc = "idle"
    BY <1>8 DEF Crash
  <2>2. ~isDraining' /\ kicks' = 0 /\ ~up'
    BY <1>8 DEF Crash
  <2>3. QED
    BY <2>1, <2>2 DEF OneDrain, DeadIsQuiet, OwedIsCovered
<1>9. CASE Boot
  <2>1. up' /\ kicks' # 0 /\ UNCHANGED <<isDraining, drain>>
    BY <1>9 DEF Boot
  <2>2. QED
    BY <2>1 DEF OneDrain, DeadIsQuiet, OwedIsCovered
<1>10. ASSUME NEW p \in Projects, Purge(p)
       PROVE  OneDrain' /\ DeadIsQuiet' /\ OwedIsCovered'
  <2>1. Owed' \subseteq Owed
    BY <1>10 DEF Purge, Owed
  <2>2. UNCHANGED <<up, kicks, isDraining, drain, lastExit>>
    BY <1>10 DEF Purge
  <2>3. QED
    BY <2>1, <2>2 DEF OneDrain, DeadIsQuiet, OwedIsCovered
<1>11. CASE UNCHANGED vars
  BY <1>11 DEF vars, OneDrain, DeadIsQuiet, OwedIsCovered, Owed
<1>12. QED
  BY <1>1, <1>2, <1>3, <1>4, <1>5, <1>6, <1>7, <1>8, <1>9, <1>10, <1>11
     DEF Next, DrainStep, Inside

\* The initial state is covered: the kick of the boot is queued.
LEMMA CoveredInit == Init => Covered
<1> SUFFICES ASSUME Init PROVE Covered
  OBVIOUS
<1>1. Typed
  BY TypedInit
<1>2. up /\ ~isDraining /\ kicks # 0 /\ \A d \in Drains : drain[d].pc = "idle"
  BY DEF Init
<1>3. QED
  BY <1>1, <1>2 DEF Covered, OneDrain, DeadIsQuiet, OwedIsCovered

\* At most one run of drainNotifications is under way, and isDraining says so,
\* whatever fails and whenever the process dies.
THEOREM OneDrainAlways == Spec => []OneDrain
<1>1. QED
  BY CoveredInit, CoveredStep, PTL DEF Spec, Covered

\* No owed notification is forgotten by a server at rest, unless the last drain
\* gave up on a failure or stopped at maxBatches.
THEOREM NoLostWakeup == Spec => []OwedIsCovered
<1>1. QED
  BY CoveredInit, CoveredStep, PTL DEF Spec, Covered
-----------------------------------------------------------------------------
(* No mail is lost                                                         *)

\* A rowid stands for one notification ...
OneSerialPerId == \A n, m \in notices : n.id = m.id => n.serial = m.serial

\* ... the one the batch row was listed for ...
BatchIsKnown ==
    \A d \in Drains : \A i \in 1..Len(drain[d].rows) :
        \E n \in notices : /\ n.id = drain[d].rows[i].id
                           /\ n.serial = drain[d].rows[i].serial

\* ... and `accepted` speaks of the head of the batch.
AcceptedIsMailed ==
    \A d \in Drains : drain[d].accepted =>
        /\ drain[d].pc = "sending"
        /\ drain[d].rows # <<>>
        /\ mailed[Head(drain[d].rows).serial] > 0

\* markEmailed works by rowid, so AllHandled needs all three: without
\* hard deletes no rowid is ever used for a second notification.
Kept ==
    Typed /\ OneSerialPerId /\ BatchIsKnown /\ AcceptedIsMailed
          /\ AllHandled

\* The head of a batch is a known row, and so is every row of its tail.
LEMMA HeadTailKnown ==
    ASSUME Typed, BatchIsKnown, NEW d \in Drains, drain[d].rows # <<>>
    PROVE  /\ \E n \in notices : /\ n.id = Head(drain[d].rows).id
                                 /\ n.serial = Head(drain[d].rows).serial
           /\ \A i \in 1..Len(Tail(drain[d].rows)) :
                \E n \in notices : /\ n.id = Tail(drain[d].rows)[i].id
                                   /\ n.serial = Tail(drain[d].rows)[i].serial
<1>1. drain[d].rows \in Seq(Listed)
  BY DEF Typed, TypeOK, DrainState
<1>2. /\ Head(drain[d].rows) = drain[d].rows[1]
      /\ Len(drain[d].rows) \in Nat \ {0}
      /\ Len(Tail(drain[d].rows)) = Len(drain[d].rows) - 1
      /\ \A i \in 1..Len(Tail(drain[d].rows)) :
            Tail(drain[d].rows)[i] = drain[d].rows[i + 1]
  BY <1>1, HeadTailProperties
<1>3. 1 \in 1..Len(drain[d].rows)
  BY <1>2
<1>4. ASSUME NEW i \in 1..Len(Tail(drain[d].rows))
      PROVE  /\ i + 1 \in 1..Len(drain[d].rows)
             /\ Tail(drain[d].rows)[i] = drain[d].rows[i + 1]
  BY <1>2
<1>5. QED
  BY <1>2, <1>3, <1>4 DEF BatchIsKnown

\* Marking the head of a batch handles exactly the notification it was listed
\* for, and leaves ids and serials alone.
LEMMA MarkHead ==
    ASSUME Kept, NEW d \in Drains, drain[d].rows # <<>>,
           MarkEmailed(Head(drain[d].rows).id)
    PROVE  /\ OneSerialPerId'
           /\ \A n \in notices : \E m \in notices' : m.id = n.id /\ m.serial = n.serial
           /\ \A n \in notices' : ~n.owed =>
                 \/ mailed[n.serial] > 0
                 \/ n.serial \in skipped
                 \/ n.serial = Head(drain[d].rows).serial
<1> USE DEF Kept
<1> DEFINE id == Head(drain[d].rows).id
           new(n) == IF n.id = id THEN [n EXCEPT !.owed = FALSE] ELSE n
<1>1. notices' = {new(n) : n \in notices}
  BY DEF MarkEmailed
<1>2. \A n \in notices : /\ new(n).id = n.id
                         /\ new(n).serial = n.serial
                         /\ n.id # id => new(n) = n
  BY DEF Typed, TypeOK, Notice
<1> HIDE DEF new
<1>3. OneSerialPerId'
  BY <1>1, <1>2 DEF OneSerialPerId
<1>4. \A n \in notices : \E m \in notices' : m.id = n.id /\ m.serial = n.serial
  BY <1>1, <1>2
<1>5. ASSUME NEW n \in notices', ~n.owed
      PROVE  \/ mailed[n.serial] > 0
             \/ n.serial \in skipped
             \/ n.serial = Head(drain[d].rows).serial
  <2>1. PICK m \in notices : n = new(m)
    BY <1>1
  <2>2. CASE m.id = id
    <3>1. PICK k \in notices : k.id = id /\ k.serial = Head(drain[d].rows).serial
      BY HeadTailKnown
    <3>2. m.serial = Head(drain[d].rows).serial
      BY <2>2, <3>1 DEF OneSerialPerId
    <3>3. QED
      BY <1>2, <2>1, <3>2
  <2>3. CASE m.id # id
    BY <1>2, <1>5, <2>1, <2>3 DEF AllHandled
  <2>4. QED
    BY <2>2, <2>3
<1>6. QED
  BY <1>3, <1>4, <1>5

\* Every step but a hard delete keeps the bookkeeping straight.
LEMMA KeptStep == Kept /\ [Next]_vars /\ projects' = Projects => Kept'
<1> SUFFICES ASSUME Kept, [Next]_vars, projects' = Projects
             PROVE  OneSerialPerId' /\ BatchIsKnown' /\ AcceptedIsMailed'
                      /\ AllHandled'
  BY TypeStep DEF Kept
<1> USE DEF Kept
<1>1. ASSUME NEW p \in Projects, NEW r \in Recipients, Mutate(p, r)
      PROVE  OneSerialPerId' /\ BatchIsKnown' /\ AcceptedIsMailed'
               /\ AllHandled'
  <2>1. /\ r \in Seq(Users) /\ Len(r) \in Nat /\ DOMAIN r = 1..Len(r)
    BY RecipientsType
  <2>2. PICK top \in LastId :
          notices' = notices \cup
            {[id |-> top + i, serial |-> issued + i, user |-> r[i],
              project |-> p, owed |-> TRUE] : i \in DOMAIN r}
    BY <1>1 DEF Mutate
  <2>3. top \in Nat /\ \A n \in notices : n.id <= top /\ n.id \in Nat
    BY DEF LastId, Typed, TypeOK, Notice
  <2>4. \A n \in notices' : \/ n \in notices
                            \/ n.owed /\ \E i \in 1..Len(r) : /\ n.id = top + i
                                                              /\ n.serial = issued + i
    BY <2>1, <2>2
  <2>5. OneSerialPerId'
    <3>1. ASSUME NEW n \in notices', NEW m \in notices', n.id = m.id
          PROVE  n.serial = m.serial
      <4>1. CASE n \in notices /\ m \in notices
        BY <3>1, <4>1 DEF OneSerialPerId
      <4>2. CASE n \in notices /\ m \notin notices
        BY <2>1, <2>3, <2>4, <3>1, <4>2
      <4>3. CASE n \notin notices /\ m \in notices
        BY <2>1, <2>3, <2>4, <3>1, <4>3
      <4>4. CASE n \notin notices /\ m \notin notices
        BY <2>1, <2>3, <2>4, <3>1, <4>4
      <4>5. QED
        BY <4>1, <4>2, <4>3, <4>4
    <3>2. QED
      BY <3>1 DEF OneSerialPerId
  <2>6. notices \subseteq notices' /\ UNCHANGED <<drain, mailed, skipped>>
    BY <1>1, <2>2 DEF Mutate
  <2>7. BatchIsKnown' /\ AcceptedIsMailed'
    BY <2>6 DEF BatchIsKnown, AcceptedIsMailed
  <2>8. AllHandled'
    BY <2>4, <2>6 DEF AllHandled
  <2>9. QED
    BY <2>5, <2>7, <2>8
<1>2. ASSUME UNCHANGED <<notices, drain, mailed, skipped>>
      PROVE  OneSerialPerId' /\ BatchIsKnown' /\ AcceptedIsMailed'
               /\ AllHandled'
  BY <1>2 DEF OneSerialPerId, BatchIsKnown, AcceptedIsMailed, AllHandled
<1>3. ASSUME NEW d \in Drains, NEW new,
             drain' = [drain EXCEPT ![d] = new], new.rows = <<>>, new.accepted = FALSE,
             UNCHANGED <<notices, mailed, skipped>>
      PROVE  OneSerialPerId' /\ BatchIsKnown' /\ AcceptedIsMailed'
               /\ AllHandled'
  <2>1. drain'[d] = new /\ \A e \in Drains \ {d} : drain'[e] = drain[e]
    BY <1>3 DEF Typed, TypeOK
  <2>2. BatchIsKnown' /\ AcceptedIsMailed'
    BY <1>3, <2>1 DEF BatchIsKnown, AcceptedIsMailed
  <2>3. QED
    BY <1>3, <2>2 DEF OneSerialPerId, AllHandled
<1>4. ASSUME NEW d \in Drains, RunKick(d)
      PROVE  OneSerialPerId' /\ BatchIsKnown' /\ AcceptedIsMailed'
               /\ AllHandled'
  <2>1. CASE isDraining
    BY <1>2, <1>4, <2>1 DEF RunKick
  <2>2. CASE ~isDraining
    <3>1. drain' = [drain EXCEPT ![d] = [Idle EXCEPT !.pc = "list"]]
      BY <1>4, <2>2 DEF RunKick
    <3>2. /\ [Idle EXCEPT !.pc = "list"].rows = <<>>
          /\ [Idle EXCEPT !.pc = "list"].accepted = FALSE
      OBVIOUS
    <3>3. UNCHANGED <<notices, mailed, skipped>>
      BY <1>4 DEF RunKick
    <3>4. QED
      BY <1>3, <3>1, <3>2, <3>3
  <2>3. QED
    BY <2>1, <2>2
<1>5. ASSUME NEW d \in Drains,
             EndDrain(d) \/ SendRefused(d) \/ SendFails(d) \/ DrainThrows(d)
      PROVE  OneSerialPerId' /\ BatchIsKnown' /\ AcceptedIsMailed'
               /\ AllHandled'
  <2>1. drain' = [drain EXCEPT ![d] = Idle] /\ UNCHANGED <<notices, mailed, skipped>>
    BY <1>5 DEF EndDrain, SendRefused, SendFails, DrainThrows, Leave
  <2>2. Idle.rows = <<>> /\ Idle.accepted = FALSE
    OBVIOUS
  <2>3. QED
    BY <1>3, <2>1, <2>2
<1>6. ASSUME NEW d \in Drains, ListBatch(d)
      PROVE  OneSerialPerId' /\ BatchIsKnown' /\ AcceptedIsMailed'
               /\ AllHandled'
  <2>1. PICK b \in Unsent :
         drain' = [drain EXCEPT ![d] =
            [pc |-> "row", batch |-> drain[d].batch + 1, accepted |-> FALSE,
             rows |-> [i \in DOMAIN b |->
                          [id |-> b[i].id, serial |-> b[i].serial,
                           user |-> b[i].user, off |-> b[i].user \in disabled]]]]
    BY <1>6 DEF ListBatch
  <2>2. /\ DOMAIN b = 1..Len(b) /\ Len(b) \in Nat
        /\ \A i \in 1..Len(b) : b[i] \in notices
    <3>1. /\ DOMAIN b = 1..Len(b) /\ Len(b) \in Nat
          /\ b \in Seq(Owed)
      BY UnsentType
    <3>2. \A i \in 1..Len(b) : b[i] \in Owed
      BY <3>1
    <3>3. QED
      BY <3>1, <3>2 DEF Owed
  <2>3. UNCHANGED <<notices, mailed, skipped>>
    BY <1>6 DEF ListBatch
  <2>4. /\ \A e \in Drains \ {d} : drain'[e] = drain[e]
        /\ drain'[d].accepted = FALSE
        /\ drain'[d].rows = [i \in 1..Len(b) |->
                          [id |-> b[i].id, serial |-> b[i].serial,
                           user |-> b[i].user, off |-> b[i].user \in disabled]]
    BY <2>1, <2>2 DEF Typed, TypeOK
  <2>5. /\ Len(drain'[d].rows) = Len(b)
        /\ \A i \in 1..Len(b) : /\ drain'[d].rows[i].id = b[i].id
                                /\ drain'[d].rows[i].serial = b[i].serial
    BY <2>2, <2>4
  <2>6. \A i \in 1..Len(drain'[d].rows) :
            \E n \in notices' : /\ n.id = drain'[d].rows[i].id
                                /\ n.serial = drain'[d].rows[i].serial
    BY <2>2, <2>3, <2>5
  <2>7. BatchIsKnown'
    <3>1. ASSUME NEW e \in Drains, NEW i \in 1..Len(drain'[e].rows)
          PROVE  \E n \in notices' : /\ n.id = drain'[e].rows[i].id
                                     /\ n.serial = drain'[e].rows[i].serial
      <4>1. CASE e = d
        BY <2>6, <3>1, <4>1
      <4>2. CASE e # d
        BY <2>3, <2>4, <3>1, <4>2 DEF BatchIsKnown
      <4>3. QED
        BY <4>1, <4>2
    <3>2. QED
      BY <3>1 DEF BatchIsKnown
  <2>8. AcceptedIsMailed'
    BY <2>3, <2>4 DEF AcceptedIsMailed
  <2>9. QED
    BY <2>3, <2>7, <2>8 DEF OneSerialPerId, AllHandled
<1>7. ASSUME NEW d \in Drains, StartSend(d) \/ EndBatch(d)
      PROVE  OneSerialPerId' /\ BatchIsKnown' /\ AcceptedIsMailed'
               /\ AllHandled'
  <2>1. /\ UNCHANGED <<notices, mailed, skipped>>
        /\ \A e \in Drains : /\ drain'[e].rows = drain[e].rows
                             /\ drain'[e].accepted = drain[e].accepted
                             /\ drain[e].pc = "sending" => drain'[e].pc = "sending"
    <3>1. PICK pc \in {"list", "sending"} :
            drain' = [drain EXCEPT ![d] = [drain[d] EXCEPT !.pc = pc]]
      BY <1>7 DEF StartSend, EndBatch
    <3>2. drain[d] \in DrainState /\ drain[d].pc = "row"
      BY <1>7 DEF StartSend, EndBatch, Typed, TypeOK
    <3>3. \A e \in Drains \ {d} : drain'[e] = drain[e]
      BY <3>1 DEF Typed, TypeOK
    <3>4. drain'[d] = [drain[d] EXCEPT !.pc = pc]
      BY <3>1 DEF Typed, TypeOK
    <3>5. drain'[d].rows = drain[d].rows /\ drain'[d].accepted = drain[d].accepted
      BY <3>2, <3>4 DEF DrainState
    <3>6. UNCHANGED <<notices, mailed, skipped>>
      BY <1>7 DEF StartSend, EndBatch
    <3>7. QED
      BY <3>2, <3>3, <3>5, <3>6
  <2>2. QED
    BY <2>1 DEF OneSerialPerId, BatchIsKnown, AcceptedIsMailed, AllHandled
<1>8. ASSUME NEW d \in Drains, SkipRow(d) \/ SendResolves(d)
      PROVE  OneSerialPerId' /\ BatchIsKnown' /\ AcceptedIsMailed'
               /\ AllHandled'
  <2>1. drain[d].rows # <<>> /\ MarkEmailed(Head(drain[d].rows).id)
    BY <1>8 DEF SkipRow, SendResolves, Typed, SendingHasRow
  <2>2. /\ OneSerialPerId'
        /\ \A n \in notices : \E m \in notices' : m.id = n.id /\ m.serial = n.serial
        /\ \A n \in notices' : ~n.owed =>
              \/ mailed[n.serial] > 0
              \/ n.serial \in skipped
              \/ n.serial = Head(drain[d].rows).serial
    BY <2>1, MarkHead
  <2>3. /\ drain'[d].rows = Tail(drain[d].rows)
        /\ \A e \in Drains \ {d} : drain'[e] = drain[e]
    <3>1. drain[d] \in DrainState
      BY DEF Typed, TypeOK
    <3>2. CASE SkipRow(d)
      BY <3>1, <3>2 DEF SkipRow, Typed, TypeOK, DrainState
    <3>3. CASE SendResolves(d)
      BY <3>1, <3>3 DEF SendResolves, Typed, TypeOK, DrainState
    <3>4. QED
      BY <1>8, <3>2, <3>3
  <2>4. BatchIsKnown'
    <3>1. \A i \in 1..Len(Tail(drain[d].rows)) :
             \E n \in notices : /\ n.id = Tail(drain[d].rows)[i].id
                                /\ n.serial = Tail(drain[d].rows)[i].serial
      BY <2>1, HeadTailKnown
    <3>2. ASSUME NEW e \in Drains, NEW i \in 1..Len(drain'[e].rows)
          PROVE  \E n \in notices : /\ n.id = drain'[e].rows[i].id
                                    /\ n.serial = drain'[e].rows[i].serial
      <4>1. CASE e = d
        BY <2>3, <3>1, <3>2, <4>1
      <4>2. CASE e # d
        BY <2>3, <3>2, <4>2 DEF BatchIsKnown
      <4>3. QED
        BY <4>1, <4>2
    <3>3. QED
      BY <2>2, <3>2 DEF BatchIsKnown
  <2>5. mailed' = mailed /\ skipped \subseteq skipped'
    BY <1>8 DEF SkipRow, SendResolves
  <2>6. /\ ~drain'[d].accepted
        /\ \/ mailed[Head(drain[d].rows).serial] > 0
           \/ Head(drain[d].rows).serial \in skipped'
    <3>1. CASE SkipRow(d)
      <4>1. Head(drain[d].rows).serial \in skipped'
        BY <3>1 DEF SkipRow
      <4>2. drain'[d].accepted = drain[d].accepted /\ drain[d].pc = "row"
        BY <3>1 DEF SkipRow, Typed, TypeOK, DrainState
      <4>3. QED
        BY <4>1, <4>2 DEF AcceptedIsMailed
    <3>2. CASE SendResolves(d)
      <4>1. drain'[d].accepted = FALSE
        BY <3>2 DEF SendResolves, Typed, TypeOK, DrainState
      <4>2. QED
        BY <3>2, <4>1 DEF SendResolves, AcceptedIsMailed
    <3>3. QED
      BY <1>8, <3>1, <3>2
  <2>7. AcceptedIsMailed'
    BY <2>3, <2>5, <2>6 DEF AcceptedIsMailed
  <2>8. AllHandled'
    BY <2>2, <2>5, <2>6 DEF AllHandled
  <2>9. QED
    BY <2>2, <2>4, <2>7, <2>8
<1>9. ASSUME NEW d \in Drains, Accept(d)
      PROVE  OneSerialPerId' /\ BatchIsKnown' /\ AcceptedIsMailed'
               /\ AllHandled'
  <2>1. /\ UNCHANGED <<notices, skipped>>
        /\ drain[d].rows # <<>>
        /\ \A e \in Drains : drain'[e].rows = drain[e].rows
        /\ \A e \in Drains \ {d} : drain'[e] = drain[e]
    BY <1>9 DEF Accept, Typed, TypeOK, DrainState, SendingHasRow
  <2>2. /\ Head(drain[d].rows).serial \in Serials
        /\ mailed' = [mailed EXCEPT ![Head(drain[d].rows).serial] = @ + 1]
    BY <1>9, <2>1, HeadTailType DEF Accept, Typed
  <2>3. /\ \A s \in Serials : mailed[s] > 0 => mailed'[s] > 0
        /\ mailed'[Head(drain[d].rows).serial] > 0
    BY <2>2 DEF Typed, TypeOK
  <2>4. ASSUME NEW e \in Drains, drain[e].rows # <<>>
        PROVE  Head(drain[e].rows).serial \in Serials
    BY <2>4, HeadTailType DEF Typed
  <2>5. AcceptedIsMailed'
    <3>1. drain'[d].pc = "sending"
      BY <1>9 DEF Accept, Typed, TypeOK, DrainState
    <3>2. ASSUME NEW e \in Drains, drain'[e].accepted
          PROVE  /\ drain'[e].pc = "sending"
                 /\ drain'[e].rows # <<>>
                 /\ mailed'[Head(drain'[e].rows).serial] > 0
      <4>1. CASE e = d
        BY <2>1, <2>3, <3>1, <4>1
      <4>2. CASE e # d
        BY <2>1, <2>3, <2>4, <3>2, <4>2 DEF AcceptedIsMailed
      <4>3. QED
        BY <4>1, <4>2
    <3>3. QED
      BY <3>2 DEF AcceptedIsMailed
  <2>6. BatchIsKnown' /\ OneSerialPerId'
    BY <2>1 DEF BatchIsKnown, OneSerialPerId
  <2>7. AllHandled'
    BY <2>1, <2>3 DEF AllHandled, Typed, TypeOK, Notice
  <2>8. QED
    BY <2>5, <2>6, <2>7
<1>10. CASE Crash
  <2>1. /\ UNCHANGED <<notices, mailed, skipped>>
        /\ \A e \in Drains : drain'[e].rows = <<>> /\ drain'[e].accepted = FALSE
    BY <1>10 DEF Crash
  <2>2. QED
    BY <2>1 DEF OneSerialPerId, BatchIsKnown, AcceptedIsMailed, AllHandled
<1>11. CASE FeedFetch \/ Boot \/ UNCHANGED vars
  BY <1>2, <1>11 DEF FeedFetch, Boot, vars
<1>12. ASSUME NEW u \in Users, NEW off \in BOOLEAN, SetDisabled(u, off)
       PROVE  OneSerialPerId' /\ BatchIsKnown' /\ AcceptedIsMailed'
                /\ AllHandled'
  BY <1>2, <1>12 DEF SetDisabled
<1>13. ASSUME NEW p \in Projects, Purge(p)
       PROVE  FALSE
  BY <1>13 DEF Purge
<1>14. QED
  BY <1>1, <1>4, <1>5, <1>6, <1>7, <1>8, <1>9, <1>10, <1>11, <1>12, <1>13
     DEF Next, DrainStep

\* A project that was hard-deleted does not come back.
LEMMA ProjectsOnlyGo == [Next]_vars /\ projects' = Projects => projects = Projects
<1> SUFFICES ASSUME [Next]_vars, projects' = Projects
             PROVE  projects = Projects
  OBVIOUS
<1>1. ASSUME NEW p \in Projects, Purge(p)
      PROVE  FALSE
  BY <1>1 DEF Purge
<1>2. ASSUME NEW d \in Drains, DrainStep(d) \/ SendFails(d) \/ DrainThrows(d)
      PROVE  projects' = projects
  BY <1>2 DEF DrainStep, RunKick, ListBatch, EndDrain, SkipRow, StartSend,
              EndBatch, Accept, SendResolves, SendRefused, SendFails, DrainThrows
<1>3. ASSUME NEW p \in Projects, NEW r \in Recipients, Mutate(p, r)
      PROVE  projects' = projects
  BY <1>3 DEF Mutate
<1>4. ASSUME NEW u \in Users, NEW off \in BOOLEAN, SetDisabled(u, off)
      PROVE  projects' = projects
  BY <1>4 DEF SetDisabled
<1>5. CASE FeedFetch \/ Crash \/ Boot \/ UNCHANGED vars
  BY <1>5 DEF FeedFetch, Crash, Boot, vars
<1>6. QED
  BY <1>1, <1>2, <1>3, <1>4, <1>5 DEF Next

\* As long as no project is hard-deleted, emailed_at is only ever set on a
\* notification that was mailed, or whose account was disabled: crashes and
\* failures at any point lose no mail.
THEOREM NoMailLost == Spec => []EmailedMeansHandled
<1> DEFINE KeptUnpurged == projects = Projects => Kept
<1>1. Init => KeptUnpurged
  <2> SUFFICES ASSUME Init PROVE Kept
    OBVIOUS
  <2>1. Typed
    BY TypedInit
  <2>2. /\ notices = {}
        /\ \A d \in Drains : drain[d].rows = <<>> /\ drain[d].accepted = FALSE
    BY DEF Init
  <2>3. QED
    BY <2>1, <2>2 DEF Kept, OneSerialPerId, BatchIsKnown, AcceptedIsMailed,
                      AllHandled
<1>2. KeptUnpurged /\ [Next]_vars => KeptUnpurged'
  BY KeptStep, ProjectsOnlyGo
<1>3. KeptUnpurged => EmailedMeansHandled
  BY DEF Kept, EmailedMeansHandled
<1>4. QED
  BY <1>1, <1>2, <1>3, PTL DEF Spec

-----------------------------------------------------------------------------
(***************************************************************************)
(* The order of the mail and its duplicates, for every set of accounts,    *)
(* projects and drain runs and every value of the limits.                  *)
(*                                                                         *)
(* A hard delete beside a drain gives rowids to new rows while the drain   *)
(* still holds the old ones.  What holds nevertheless is said of serial    *)
(* numbers, which are never used again: a batch row that is still in the   *)
(* table has the rowid it was listed with, and what is owed before it      *)
(* stands before it in the batch.                                          *)
(***************************************************************************)

\* Neither a rowid nor a serial number is given to two rows of the table, and
\* serial numbers yet to come have not been mailed.
RowsApart ==
    /\ \A n, m \in notices : n.id = m.id \/ n.serial = m.serial => n = m
    /\ \A n \in notices : n.serial <= issued
    /\ \A s \in Serials : s > issued => mailed[s] = 0

\* Only a run between listing and the end of a batch holds rows, and only one
\* that sends to an address that is not refused has been answered.
HoldsWhileRunning ==
    \A d \in Drains :
        /\ drain[d].pc \in {"idle", "list"} => drain[d].rows = <<>>
        /\ drain[d].accepted => /\ drain[d].pc = "sending"
                                /\ Head(drain[d].rows).user \notin Rejecting

\* A batch row that is still in the table has the rowid it was listed with.
BatchApart ==
    \A d \in Drains : \A i \in 1..Len(drain[d].rows) :
        /\ drain[d].rows[i].serial <= issued
        /\ \A j \in 1..Len(drain[d].rows) :
              drain[d].rows[i].serial = drain[d].rows[j].serial => i = j
        /\ \A n \in notices :
              n.serial = drain[d].rows[i].serial => n.id = drain[d].rows[i].id

\* What is owed before a batch row is in the batch before it.
AheadInBatch ==
    \A d \in Drains : \A i \in 1..Len(drain[d].rows) : \A n, m \in notices :
        n.owed /\ n.id < m.id /\ m.serial = drain[d].rows[i].serial =>
            \E j \in 1..Len(drain[d].rows) : j < i /\ drain[d].rows[j].serial = n.serial

Ordered ==
    RowsApart /\ HoldsWhileRunning /\ BatchApart /\ AheadInBatch /\ InOrder

\* What a run was answered for and has not marked yet.
Answered(s) == \E d \in Drains : drain[d].accepted /\ Head(drain[d].rows).serial = s

\* What may be mailed again was mailed once per fault at most.
AgainByFault ==
    /\ \A n \in notices : n.owed => mailed[n.serial] <= faults \/ Answered(n.serial)
    /\ \A d \in Drains : \A i \in 1..Len(drain[d].rows) :
          mailed[drain[d].rows[i].serial] <= faults \/ (i = 1 /\ drain[d].accepted)

Counted == AgainByFault /\ DuplicatesNeedFaults

IInv == Covered /\ Ordered /\ Counted

-----------------------------------------------------------------------------
(* Batches                                                                 *)

LEMMA BatchType ==
    ASSUME Typed, NEW d \in Drains
    PROVE  /\ drain[d].rows \in Seq(Listed) /\ Len(drain[d].rows) \in Nat
           /\ drain[d].accepted \in BOOLEAN
           /\ \A i \in 1..Len(drain[d].rows) : drain[d].rows[i].serial \in Serials
<1>1. drain[d] \in DrainState
  BY DEF Typed, TypeOK
<1>2. drain[d].rows \in Seq(Listed) /\ drain[d].accepted \in BOOLEAN
  BY <1>1 DEF DrainState
<1>3. Len(drain[d].rows) \in Nat /\ \A i \in 1..Len(drain[d].rows) : drain[d].rows[i] \in Listed
  BY <1>2
<1> QED
  BY <1>2, <1>3 DEF Listed

LEMMA HeadTail ==
    ASSUME Typed, NEW d \in Drains, drain[d].rows # <<>>
    PROVE  /\ 1 \in 1..Len(drain[d].rows) /\ Head(drain[d].rows) = drain[d].rows[1]
           /\ Len(Tail(drain[d].rows)) = Len(drain[d].rows) - 1
           /\ \A i \in 1..Len(Tail(drain[d].rows)) :
                /\ i + 1 \in 1..Len(drain[d].rows)
                /\ Tail(drain[d].rows)[i] = drain[d].rows[i + 1]
<1>1. drain[d].rows \in Seq(Listed)
  BY BatchType
<1>2. /\ Head(drain[d].rows) = drain[d].rows[1]
      /\ Len(drain[d].rows) \in Nat \ {0}
      /\ Len(Tail(drain[d].rows)) = Len(drain[d].rows) - 1
      /\ \A i \in 1..Len(Tail(drain[d].rows)) :
            Tail(drain[d].rows)[i] = drain[d].rows[i + 1]
  BY <1>1, HeadTailProperties
<1> QED
  BY <1>2

LEMMA NoticeTypes ==
    ASSUME Typed
    PROVE  /\ \A n \in notices : n.id \in Nat /\ n.serial \in Serials /\ n.owed \in BOOLEAN
           /\ mailed \in [Serials -> Nat] /\ faults \in Nat /\ issued \in Nat
           /\ Serials \subseteq Nat
  BY DrainAssumption DEF Typed, TypeOK, Notice, Serials

-----------------------------------------------------------------------------
(* Steps that mail and mark nothing                                        *)

\* Rows go, at most; a run keeps its batch or drops it, after a fault if it had
\* been answered.
Drops(e) ==
    /\ drain'[e].rows = <<>> /\ drain'[e].accepted = FALSE
    /\ drain[e].accepted => faults' = faults + 1

LEMMA QuietStep ==
    ASSUME IInv, notices' \subseteq notices, issued' = issued, mailed' = mailed,
           faults' = faults \/ faults' = faults + 1, HoldsWhileRunning',
           \A e \in Drains :
             \/ drain'[e].rows = drain[e].rows /\ drain'[e].accepted = drain[e].accepted
             \/ Drops(e)
    PROVE  Ordered' /\ Counted'
<1>1. Typed /\ RowsApart /\ BatchApart /\ AheadInBatch /\ InOrder /\ AgainByFault
      /\ DuplicatesNeedFaults
  BY DEF IInv, Covered, Ordered, Counted
<1>2. /\ \A n \in notices : n.id \in Nat /\ n.serial \in Serials /\ n.owed \in BOOLEAN
      /\ mailed \in [Serials -> Nat] /\ faults \in Nat /\ issued \in Nat
      /\ Serials \subseteq Nat
  BY <1>1, NoticeTypes
<1>3. RowsApart' /\ InOrder'
  BY <1>1 DEF RowsApart, InOrder
<1>4. \A e \in Drains : \A i \in 1..Len(drain'[e].rows) :
        drain'[e].rows = drain[e].rows /\ drain'[e].accepted = drain[e].accepted
  BY DEF Drops
<1>5. BatchApart'
  <2> SUFFICES ASSUME NEW e \in Drains, NEW i \in 1..Len(drain'[e].rows)
               PROVE  /\ drain'[e].rows[i].serial <= issued'
                      /\ \A j \in 1..Len(drain'[e].rows) :
                           drain'[e].rows[i].serial = drain'[e].rows[j].serial => i = j
                      /\ \A n \in notices' :
                           n.serial = drain'[e].rows[i].serial => n.id = drain'[e].rows[i].id
    BY Zenon DEF BatchApart
  <2>1. drain'[e].rows = drain[e].rows
    BY <1>4
  <2> QED
    BY <1>1, <2>1 DEF BatchApart
<1>6. AheadInBatch'
  <2> SUFFICES ASSUME NEW e \in Drains, NEW i \in 1..Len(drain'[e].rows),
                      NEW n \in notices', NEW m \in notices',
                      n.owed, n.id < m.id, m.serial = drain'[e].rows[i].serial
               PROVE  \E j \in 1..Len(drain'[e].rows) :
                        j < i /\ drain'[e].rows[j].serial = n.serial
    BY ZenonT(30) DEF AheadInBatch
  <2>1. drain'[e].rows = drain[e].rows
    BY <1>4
  <2>2. /\ n \in notices /\ m \in notices /\ i \in 1..Len(drain[e].rows)
        /\ m.serial = drain[e].rows[i].serial
    BY <2>1
  <2>3. \E j \in 1..Len(drain[e].rows) : j < i /\ drain[e].rows[j].serial = n.serial
    BY <1>1, <2>2, Zenon DEF AheadInBatch
  <2> QED
    BY <2>1, <2>3
<1>7. AgainByFault'
  <2>1. ASSUME NEW n \in notices', n.owed, ~(mailed[n.serial] <= faults')
        PROVE  Answered(n.serial)'
    <3>1. n \in notices /\ mailed[n.serial] \in Nat
      BY <1>2
    <3>2. ~(mailed[n.serial] <= faults)
      BY <1>2, <2>1, <3>1
    <3>3. PICK e \in Drains : drain[e].accepted /\ Head(drain[e].rows).serial = n.serial
      BY <1>1, <2>1, <3>1, <3>2, Zenon DEF AgainByFault, Answered
    <3>4. mailed[n.serial] <= 1 + faults
      BY <1>1, <1>2, <3>1 DEF DuplicatesNeedFaults
    <3>5. faults' # faults + 1
      BY <1>2, <2>1, <3>1, <3>4
    <3>6. drain'[e].rows = drain[e].rows /\ drain'[e].accepted = drain[e].accepted
      BY <3>3, <3>5 DEF Drops
    <3> QED
      BY <3>3, <3>6 DEF Answered
  <2>2. ASSUME NEW e \in Drains, NEW i \in 1..Len(drain'[e].rows)
        PROVE  mailed[drain'[e].rows[i].serial] <= faults' \/ (i = 1 /\ drain'[e].accepted)
    <3>1. drain'[e].rows = drain[e].rows /\ drain'[e].accepted = drain[e].accepted
      BY <1>4, <2>2
    <3>2. drain[e].rows[i].serial \in Serials
      BY <1>1, <3>1, BatchType
    <3>3. mailed[drain[e].rows[i].serial] <= faults \/ (i = 1 /\ drain[e].accepted)
      BY <1>1, <3>1, Zenon DEF AgainByFault
    <3>4. mailed[drain[e].rows[i].serial] \in Nat
      BY <1>2, <3>2
    <3>5. CASE mailed[drain[e].rows[i].serial] <= faults
      BY <1>2, <3>1, <3>4, <3>5
    <3>6. CASE i = 1 /\ drain[e].accepted
      BY <3>1, <3>6, Zenon
    <3> QED
      BY <3>3, <3>5, <3>6, Zenon
  <2> QED
    BY <2>1, <2>2, Zenon DEF AgainByFault
<1>8. DuplicatesNeedFaults'
  <2>1. ASSUME NEW s \in Serials PROVE mailed'[s] <= 1 + faults'
    <3>1. mailed[s] \in Nat /\ mailed[s] <= 1 + faults /\ mailed'[s] = mailed[s]
      BY <1>1, <1>2 DEF DuplicatesNeedFaults
    <3> QED
      BY <1>2, <3>1
  <2> QED
    BY <2>1, Zenon DEF DuplicatesNeedFaults
<1> QED
  BY <1>3, <1>5, <1>6, <1>7, <1>8 DEF Ordered, Counted

-----------------------------------------------------------------------------
(* Steps that mail, mark, list and insert                                  *)

LEMMA Parts ==
    ASSUME IInv
    PROVE  /\ Typed /\ OneDrain /\ RowsApart /\ HoldsWhileRunning /\ BatchApart
           /\ AheadInBatch /\ InOrder /\ AgainByFault /\ DuplicatesNeedFaults
  BY DEF IInv, Covered, Ordered, Counted

\* Only the one run that is under way holds rows or an answer.
LEMMA OthersHoldNothing ==
    ASSUME IInv, NEW d \in Drains, Active(d), NEW e \in Drains, e # d
    PROVE  drain[e].rows = <<>> /\ ~drain[e].accepted
<1>1. drain[e].pc = "idle"
  BY Parts DEF OneDrain, Active
<1> QED
  BY <1>1, Parts DEF HoldsWhileRunning

LEMMA MarkStep ==
    ASSUME IInv, NEW d \in Drains, Active(d), drain[d].rows # <<>>,
           MarkEmailed(Head(drain[d].rows).id),
           drain'[d].rows = Tail(drain[d].rows), drain'[d].accepted = FALSE,
           \A e \in Drains \ {d} : drain'[e] = drain[e],
           issued' = issued, mailed' = mailed, faults' = faults, HoldsWhileRunning'
    PROVE  Ordered' /\ Counted'
<1> DEFINE rows == drain[d].rows
           id == Head(rows).id
           f == [n \in notices |-> IF n.id = id THEN [n EXCEPT !.owed = FALSE] ELSE n]
<1>1. Typed /\ RowsApart /\ BatchApart /\ AheadInBatch /\ InOrder /\ AgainByFault
      /\ DuplicatesNeedFaults
  BY Parts
<1>2. /\ \A n \in notices : n.id \in Nat /\ n.serial \in Serials /\ n.owed \in BOOLEAN
      /\ mailed \in [Serials -> Nat] /\ faults \in Nat /\ issued \in Nat
      /\ Serials \subseteq Nat
  BY <1>1, NoticeTypes
<1>3. /\ 1 \in 1..Len(rows) /\ Head(rows) = rows[1]
      /\ Len(Tail(rows)) = Len(rows) - 1 /\ Len(rows) \in Nat
      /\ \A i \in 1..Len(Tail(rows)) :
           i + 1 \in 1..Len(rows) /\ Tail(rows)[i] = rows[i + 1]
  BY <1>1, HeadTail, BatchType
<1>4. \A e \in Drains \ {d} : drain'[e].rows = <<>> /\ ~drain'[e].accepted
  BY OthersHoldNothing
<1>5. notices' = {f[n] : n \in notices}
  BY DEF MarkEmailed
<1>6. ASSUME NEW n \in notices
      PROVE  /\ f[n].id = n.id /\ f[n].serial = n.serial
             /\ f[n].owed => n.owed /\ n.id # id
  <2>1. n \in Notice
    BY <1>1 DEF Typed, TypeOK
  <2> QED
    BY <2>1 DEF Notice
<1> HIDE DEF f, rows
<1>7. \A r \in notices' : \E n \in notices : r = f[n]
  BY <1>5, Zenon
<1>8. \A r \in notices' : \E n \in notices :
        r.id = n.id /\ r.serial = n.serial /\ (r.owed => n.owed /\ n.id # id)
  <2> TAKE r \in notices'
  <2>1. PICK n \in notices : r = f[n]
    BY <1>7, Zenon
  <2> QED
    BY <1>6, <2>1, Zenon
<1>9. \A n \in notices : n.serial = rows[1].serial => n.id = id
  <2>1. \A n \in notices : n.serial = rows[1].serial => n.id = rows[1].id
    BY <1>1, <1>3, Zenon DEF BatchApart, rows
  <2> QED
    BY <1>3, <2>1 DEF id
<1>10. ASSUME NEW e \in Drains, NEW i \in 1..Len(drain'[e].rows)
       PROVE  /\ e = d /\ drain'[e].rows = Tail(rows) /\ i \in 1..Len(Tail(rows))
              /\ i + 1 \in 1..Len(rows) /\ drain'[e].rows[i] = rows[i + 1]
  <2>1. e = d
    BY <1>4, <1>10
  <2>2. drain'[e].rows = Tail(rows)
    BY <2>1 DEF rows
  <2> QED
    BY <1>3, <2>1, <2>2
<1> HIDE DEF id
<1>11. RowsApart'
  <2>1. ASSUME NEW r \in notices', NEW t \in notices', r.id = t.id \/ r.serial = t.serial
        PROVE  r = t
    <3>1. PICK n \in notices, m \in notices : r = f[n] /\ t = f[m]
      BY <1>7, Zenon
    <3>2. n.id = m.id \/ n.serial = m.serial
      BY <1>6, <2>1, <3>1, Zenon
    <3>3. n = m
      BY <1>1, <3>2, Zenon DEF RowsApart
    <3> QED
      BY <3>1, <3>3, Zenon
  <2>2. ASSUME NEW r \in notices' PROVE r.serial <= issued'
    <3>1. PICK n \in notices : r.serial = n.serial
      BY <1>8, Zenon
    <3>2. n.serial <= issued
      BY <1>1 DEF RowsApart
    <3> QED
      BY <3>1, <3>2
  <2>3. \A x \in Serials : x > issued' => mailed'[x] = 0
    BY <1>1 DEF RowsApart
  <2> QED
    BY <2>1, <2>2, <2>3, Zenon DEF RowsApart
<1>12. BatchApart'
  <2> SUFFICES ASSUME NEW e \in Drains, NEW i \in 1..Len(drain'[e].rows)
               PROVE  /\ drain'[e].rows[i].serial <= issued'
                      /\ \A j \in 1..Len(drain'[e].rows) :
                           drain'[e].rows[i].serial = drain'[e].rows[j].serial => i = j
                      /\ \A n \in notices' :
                           n.serial = drain'[e].rows[i].serial => n.id = drain'[e].rows[i].id
    BY Zenon DEF BatchApart
  <2>1. e = d /\ i + 1 \in 1..Len(rows) /\ drain'[e].rows[i] = rows[i + 1]
    BY <1>10
  <2>2. /\ rows[i + 1].serial <= issued
        /\ \A j \in 1..Len(rows) : rows[i + 1].serial = rows[j].serial => i + 1 = j
        /\ \A n \in notices : n.serial = rows[i + 1].serial => n.id = rows[i + 1].id
    BY <1>1, <2>1, Zenon DEF BatchApart, rows
  <2>3. ASSUME NEW j \in 1..Len(drain'[e].rows),
               drain'[e].rows[i].serial = drain'[e].rows[j].serial
        PROVE  i = j
    <3>1. j + 1 \in 1..Len(rows) /\ drain'[e].rows[j] = rows[j + 1]
      BY <1>10
    <3>2. i + 1 = j + 1
      BY <2>1, <2>2, <2>3, <3>1
    <3> QED
      BY <1>10, <3>2
  <2>4. ASSUME NEW r \in notices', r.serial = drain'[e].rows[i].serial
        PROVE  r.id = drain'[e].rows[i].id
    <3>1. PICK n \in notices : r.id = n.id /\ r.serial = n.serial
      BY <1>8, Zenon
    <3> QED
      BY <2>1, <2>2, <2>4, <3>1, Zenon
  <2>5. drain'[e].rows[i].serial <= issued'
    BY <2>1, <2>2
  <2> QED
    BY <2>3, <2>4, <2>5, Zenon
<1>13. AheadInBatch'
  <2> SUFFICES ASSUME NEW e \in Drains, NEW i \in 1..Len(drain'[e].rows),
                      NEW r \in notices', NEW t \in notices',
                      r.owed, r.id < t.id, t.serial = drain'[e].rows[i].serial
               PROVE  \E j \in 1..Len(drain'[e].rows) :
                        j < i /\ drain'[e].rows[j].serial = r.serial
    BY Zenon DEF AheadInBatch
  <2>1. /\ e = d /\ i + 1 \in 1..Len(rows) /\ drain'[e].rows[i] = rows[i + 1]
        /\ drain'[e].rows = Tail(rows) /\ i \in 1..Len(Tail(rows))
    BY <1>10
  <2>2. PICK n \in notices : r.id = n.id /\ r.serial = n.serial /\ n.owed /\ n.id # id
    BY <1>8, Zenon
  <2>3. PICK m \in notices : t.id = m.id /\ t.serial = m.serial
    BY <1>8, Zenon
  <2>4. n.owed /\ n.id < m.id /\ m.serial = rows[i + 1].serial
    BY <2>1, <2>2, <2>3
  <2>5. PICK j \in 1..Len(rows) : j < i + 1 /\ rows[j].serial = n.serial
    BY <1>1, <2>1, <2>4, Zenon DEF AheadInBatch, rows
  <2>6. j # 1
    BY <1>9, <2>2, <2>5
  <2>7. j - 1 \in 1..Len(Tail(rows)) /\ j - 1 < i /\ j = (j - 1) + 1
    BY <1>3, <2>1, <2>5, <2>6
  <2>8. Tail(rows)[j - 1] = rows[j]
    BY <1>3, <2>7
  <2>9. drain'[e].rows[j - 1].serial = r.serial
    BY <2>1, <2>2, <2>5, <2>8
  <2> QED
    BY <2>1, <2>7, <2>9
<1>14. InOrder'
  <2> SUFFICES ASSUME NEW r \in notices', NEW t \in notices', r.owed, r.id < t.id
               PROVE  mailed'[t.serial] = 0
    BY Zenon DEF InOrder
  <2>1. PICK n \in notices : r.id = n.id /\ n.owed
    BY <1>8, Zenon
  <2>2. PICK m \in notices : t.id = m.id /\ t.serial = m.serial
    BY <1>8, Zenon
  <2>3. n.owed /\ n.id < m.id
    BY <2>1, <2>2
  <2>4. mailed[m.serial] = 0
    BY <1>1, <2>3, Zenon DEF InOrder
  <2> QED
    BY <2>2, <2>4
<1>15. AgainByFault'
  <2>1. ASSUME NEW r \in notices', r.owed PROVE mailed'[r.serial] <= faults'
    <3>1. PICK n \in notices : r.serial = n.serial /\ n.owed /\ n.id # id
      BY <1>8, <2>1, Zenon
    <3>2. ~Answered(n.serial)
      <4>1. SUFFICES ASSUME NEW e \in Drains, drain[e].accepted,
                            Head(drain[e].rows).serial = n.serial
                     PROVE  FALSE
        BY Zenon DEF Answered
      <4>2. e = d
        BY <4>1, OthersHoldNothing
      <4> QED
        BY <1>3, <1>9, <3>1, <4>1, <4>2 DEF rows
    <3>3. mailed[n.serial] <= faults
      BY <1>1, <3>1, <3>2, Zenon DEF AgainByFault
    <3> QED
      BY <3>1, <3>3
  <2>2. ASSUME NEW e \in Drains, NEW i \in 1..Len(drain'[e].rows)
        PROVE  mailed'[drain'[e].rows[i].serial] <= faults'
    <3>1. e = d /\ i + 1 \in 1..Len(rows) /\ drain'[e].rows[i] = rows[i + 1]
          /\ i \in 1..Len(Tail(rows))
      BY <1>10
    <3>2. mailed[rows[i + 1].serial] <= faults \/ i + 1 = 1
      BY <1>1, <3>1, Zenon DEF AgainByFault, rows
    <3>3. i + 1 # 1
      BY <1>3, <3>1
    <3> QED
      BY <3>1, <3>2, <3>3
  <2> QED
    BY <2>1, <2>2, Zenon DEF AgainByFault
<1>16. DuplicatesNeedFaults'
  BY <1>1 DEF DuplicatesNeedFaults
<1> QED
  BY <1>11, <1>12, <1>13, <1>14, <1>15, <1>16 DEF Ordered, Counted

LEMMA AcceptStep ==
    ASSUME IInv, NEW d \in Drains, Accept(d)
    PROVE  Ordered' /\ Counted'
<1> DEFINE rows == drain[d].rows
           x == rows[1].serial
<1>1. Typed /\ RowsApart /\ HoldsWhileRunning /\ BatchApart /\ AheadInBatch /\ InOrder
      /\ AgainByFault /\ DuplicatesNeedFaults
  BY Parts
<1>2. /\ \A n \in notices : n.id \in Nat /\ n.serial \in Serials /\ n.owed \in BOOLEAN
      /\ mailed \in [Serials -> Nat] /\ faults \in Nat /\ issued \in Nat
      /\ Serials \subseteq Nat
  BY <1>1, NoticeTypes
<1>3. /\ notices' = notices /\ issued' = issued /\ faults' = faults
      /\ drain[d].pc = "sending" /\ ~drain[d].accepted /\ Head(rows).user \notin Rejecting
      /\ drain' = [drain EXCEPT ![d].accepted = TRUE]
      /\ mailed' = [mailed EXCEPT ![Head(rows).serial] = @ + 1]
  BY DEF Accept
<1>4. rows # <<>> /\ Active(d)
  BY <1>1, <1>3 DEF Typed, SendingHasRow, Active
<1>5. 1 \in 1..Len(rows) /\ Head(rows) = rows[1] /\ x \in Serials
  BY <1>1, <1>4, HeadTail, BatchType
<1>6. mailed'[x] = mailed[x] + 1 /\ \A s \in Serials : s # x => mailed'[s] = mailed[s]
  BY <1>2, <1>3, <1>5
<1>7. /\ \A e \in Drains : drain'[e].rows = drain[e].rows /\ drain'[e].pc = drain[e].pc
      /\ \A e \in Drains \ {d} : drain'[e] = drain[e]
      /\ drain'[d].accepted = TRUE
  <2>1. drain \in [Drains -> DrainState]
    BY <1>1 DEF Typed, TypeOK
  <2> QED
    BY <1>3, <2>1 DEF DrainState
<1>8. \A e \in Drains : e # d => drain[e].rows = <<>> /\ ~drain[e].accepted
  BY <1>4, OthersHoldNothing
<1>9. \A s : ~Answered(s)
  BY <1>3, <1>8 DEF Answered
<1>10. mailed[x] <= faults /\ x <= issued
  <2>1. mailed[x] <= faults
    BY <1>1, <1>3, <1>5, Zenon DEF AgainByFault, rows, x
  <2>2. x <= issued
    BY <1>1, <1>5, Zenon DEF BatchApart, rows, x
  <2> QED
    BY <2>1, <2>2
<1> HIDE DEF rows, x
<1>11. RowsApart'
  <2>1. \A s \in Serials : s > issued => mailed'[s] = 0
    <3> TAKE s \in Serials
    <3>1. s > issued => s # x
      BY <1>2, <1>5, <1>10
    <3> QED
      BY <1>1, <1>6, <3>1 DEF RowsApart
  <2> QED
    BY <1>1, <1>3, <2>1 DEF RowsApart
<1>12. HoldsWhileRunning'
  <2>1. ASSUME NEW e \in Drains, drain'[e].accepted
        PROVE  drain'[e].pc = "sending" /\ Head(drain'[e].rows).user \notin Rejecting
    <3>1. e = d
      BY <1>7, <1>8, <2>1
    <3> QED
      BY <1>3, <1>7, <3>1 DEF rows
  <2>2. \A e \in Drains : drain'[e].pc \in {"idle", "list"} => drain'[e].rows = <<>>
    BY <1>1, <1>7 DEF HoldsWhileRunning
  <2> QED
    BY <2>1, <2>2 DEF HoldsWhileRunning
<1>13. BatchApart'
  BY <1>1, <1>3, <1>7 DEF BatchApart
<1>14. AheadInBatch'
  BY <1>1, <1>3, <1>7 DEF AheadInBatch
<1>15. InOrder'
  <2> SUFFICES ASSUME NEW n \in notices, NEW m \in notices, n.owed, n.id < m.id
               PROVE  mailed'[m.serial] = 0
    BY <1>3 DEF InOrder
  <2>1. m.serial # x
    <3>1. SUFFICES ASSUME m.serial = rows[1].serial PROVE FALSE
      BY DEF x
    <3>2. PICK j \in 1..Len(rows) : j < 1
      BY <1>1, <1>5, <3>1, Zenon DEF AheadInBatch, rows
    <3>3. Len(rows) \in Nat
      BY <1>1, BatchType DEF rows
    <3> QED
      BY <3>2, <3>3
  <2>2. mailed[m.serial] = 0
    BY <1>1, Zenon DEF InOrder
  <2> QED
    BY <1>2, <1>6, <2>1, <2>2
<1>16. AgainByFault'
  <2>1. ASSUME NEW n \in notices, n.owed
        PROVE  mailed'[n.serial] <= faults \/ Answered(n.serial)'
    <3>1. CASE n.serial = x
      BY <1>5, <1>7, <3>1 DEF Answered, rows, x
    <3>2. CASE n.serial # x
      <4>1. mailed[n.serial] <= faults
        BY <1>1, <1>9, <2>1, Zenon DEF AgainByFault
      <4> QED
        BY <1>2, <1>6, <3>2, <4>1
    <3> QED
      BY <3>1, <3>2
  <2>2. ASSUME NEW e \in Drains, NEW i \in 1..Len(drain[e].rows)
        PROVE  mailed'[drain[e].rows[i].serial] <= faults \/ (i = 1 /\ drain'[e].accepted)
    <3>1. e = d
      BY <1>8, <2>2
    <3>2. CASE i = 1
      BY <1>7, <3>1, <3>2
    <3>3. CASE i # 1
      <4>1. rows[i].serial # x
        BY <1>1, <1>5, <2>2, <3>1, <3>3, Zenon DEF BatchApart, rows, x
      <4>2. mailed[rows[i].serial] <= faults
        BY <1>1, <2>2, <3>1, <3>3, Zenon DEF AgainByFault, rows
      <4>3. rows[i].serial \in Serials
        BY <1>1, <2>2, <3>1, BatchType DEF rows
      <4> QED
        BY <1>6, <3>1, <4>1, <4>2, <4>3 DEF rows
    <3> QED
      BY <3>2, <3>3
  <2>3. \A n \in notices' : n.owed => mailed'[n.serial] <= faults' \/ Answered(n.serial)'
    BY <1>3, <2>1
  <2>4. \A e \in Drains : \A i \in 1..Len(drain'[e].rows) :
          mailed'[drain'[e].rows[i].serial] <= faults' \/ (i = 1 /\ drain'[e].accepted)
    BY <1>3, <1>7, <2>2
  <2> QED
    BY <2>3, <2>4, Zenon DEF AgainByFault
<1>17. DuplicatesNeedFaults'
  <2>1. ASSUME NEW s \in Serials PROVE mailed'[s] <= 1 + faults
    <3>1. CASE s = x
      BY <1>2, <1>5, <1>6, <1>10, <3>1
    <3>2. CASE s # x
      BY <1>1, <1>6, <3>2 DEF DuplicatesNeedFaults
    <3> QED
      BY <3>1, <3>2
  <2> QED
    BY <1>3, <2>1 DEF DuplicatesNeedFaults
<1> QED
  BY <1>11, <1>12, <1>13, <1>14, <1>15, <1>16, <1>17 DEF Ordered, Counted

LEMMA ListStep ==
    ASSUME IInv, NEW d \in Drains, ListBatch(d)
    PROVE  Ordered' /\ Counted'
<1>1. Typed /\ RowsApart /\ HoldsWhileRunning /\ BatchApart /\ AheadInBatch /\ InOrder
      /\ AgainByFault /\ DuplicatesNeedFaults
  BY Parts
<1>2. /\ \A n \in notices : n.id \in Nat /\ n.serial \in Serials /\ n.owed \in BOOLEAN
      /\ mailed \in [Serials -> Nat] /\ faults \in Nat /\ issued \in Nat
      /\ Serials \subseteq Nat
  BY <1>1, NoticeTypes
<1>3. /\ notices' = notices /\ issued' = issued /\ faults' = faults /\ mailed' = mailed
      /\ drain[d].pc = "list"
  BY DEF ListBatch
<1>4. PICK b \in Unsent :
        drain' = [drain EXCEPT ![d] =
           [pc |-> "row", batch |-> drain[d].batch + 1, accepted |-> FALSE,
            rows |-> [i \in DOMAIN b |->
                         [id |-> b[i].id, serial |-> b[i].serial,
                          user |-> b[i].user, off |-> b[i].user \in disabled]]]]
  BY DEF ListBatch
<1>5. /\ DOMAIN b = 1..Len(b) /\ Len(b) \in Nat
      /\ \A i \in 1..Len(b) : b[i] \in notices /\ b[i].owed
  <2>1. b \in Seq(Owed) /\ DOMAIN b = 1..Len(b) /\ Len(b) \in Nat
    BY UnsentType
  <2>2. \A i \in 1..Len(b) : b[i] \in Owed
    BY <2>1
  <2> QED
    BY <2>1, <2>2 DEF Owed
<1>6. /\ \A i, j \in 1..Len(b) : i < j => b[i].id < b[j].id
      /\ \A n \in Owed : \/ \E i \in 1..Len(b) : b[i] = n
                         \/ \A i \in 1..Len(b) : b[i].id < n.id
  BY <1>5 DEF Unsent
<1>7. /\ \A e \in Drains \ {d} : drain'[e] = drain[e]
      /\ drain'[d].accepted = FALSE /\ drain'[d].pc = "row"
      /\ drain'[d].rows = [i \in 1..Len(b) |->
                         [id |-> b[i].id, serial |-> b[i].serial,
                          user |-> b[i].user, off |-> b[i].user \in disabled]]
  BY <1>1, <1>4, <1>5 DEF Typed, TypeOK
<1>8. /\ Len(drain'[d].rows) = Len(b)
      /\ \A i \in 1..Len(b) : /\ drain'[d].rows[i].id = b[i].id
                              /\ drain'[d].rows[i].serial = b[i].serial
  BY <1>5, <1>7
<1>9. Active(d)
  BY <1>3 DEF Active
<1>10. \A e \in Drains \ {d} : drain[e].rows = <<>> /\ ~drain[e].accepted
  BY <1>9, OthersHoldNothing
<1>11. \A s : ~Answered(s)
  <2>1. ~drain[d].accepted
    BY <1>1, <1>3 DEF HoldsWhileRunning
  <2> QED
    BY <1>10, <2>1 DEF Answered
<1>12. ASSUME NEW e \in Drains, NEW i \in 1..Len(drain'[e].rows)
       PROVE  e = d /\ i \in 1..Len(b)
  BY <1>7, <1>8, <1>10, <1>12
<1>13. HoldsWhileRunning'
  BY <1>1, <1>7 DEF HoldsWhileRunning
<1>14. BatchApart'
  <2>1. ASSUME NEW i \in 1..Len(b) PROVE drain'[d].rows[i].serial <= issued'
    <3>1. b[i].serial <= issued
      BY <1>1, <1>5, Zenon DEF RowsApart
    <3> QED
      BY <1>3, <1>8, <3>1
  <2>2. ASSUME NEW i \in 1..Len(b), NEW j \in 1..Len(b),
               drain'[d].rows[i].serial = drain'[d].rows[j].serial
        PROVE  i = j
    <3>1. b[i].serial = b[j].serial
      BY <1>8, <2>2
    <3>2. b[i].id = b[j].id /\ b[i].id \in Nat
      BY <1>1, <1>2, <1>5, <3>1, Zenon DEF RowsApart
    <3> QED
      BY <1>5, <1>6, <3>2
  <2>3. ASSUME NEW i \in 1..Len(b), NEW n \in notices, n.serial = drain'[d].rows[i].serial
        PROVE  n.id = drain'[d].rows[i].id
    <3>0. n.serial = b[i].serial
      BY <1>8, <2>3
    <3>1. n = b[i]
      BY <1>1, <1>5, <3>0, Zenon DEF RowsApart
    <3> QED
      BY <1>8, <3>1
  <2>4. SUFFICES ASSUME NEW e \in Drains, NEW i \in 1..Len(drain'[e].rows)
                 PROVE  /\ drain'[e].rows[i].serial <= issued'
                        /\ \A j \in 1..Len(drain'[e].rows) :
                             drain'[e].rows[i].serial = drain'[e].rows[j].serial => i = j
                        /\ \A n \in notices' :
                             n.serial = drain'[e].rows[i].serial => n.id = drain'[e].rows[i].id
    BY Zenon DEF BatchApart
  <2>5. e = d /\ i \in 1..Len(b)
    BY <1>12
  <2> QED
    BY <1>3, <1>8, <2>1, <2>2, <2>3, <2>5
<1>15. AheadInBatch'
  <2> SUFFICES ASSUME NEW e \in Drains, NEW i \in 1..Len(drain'[e].rows),
                      NEW n \in notices', NEW m \in notices',
                      n.owed, n.id < m.id, m.serial = drain'[e].rows[i].serial
               PROVE  \E j \in 1..Len(drain'[e].rows) :
                        j < i /\ drain'[e].rows[j].serial = n.serial
    BY DEF AheadInBatch
  <2>0. n \in notices /\ m \in notices
    BY <1>3
  <2>1. e = d /\ i \in 1..Len(b)
    BY <1>12
  <2>2. m.serial = b[i].serial
    BY <1>8, <2>1
  <2>3. m = b[i]
    BY <1>1, <1>5, <2>0, <2>1, <2>2, Zenon DEF RowsApart
  <2>4. n \in Owed /\ b[i].id \in Nat /\ n.id \in Nat
    BY <1>2, <1>5, <2>0, <2>1 DEF Owed
  <2>5. ~(b[i].id < n.id)
    BY <2>3, <2>4
  <2>6. PICK j \in 1..Len(b) : b[j] = n
    BY <1>6, <2>1, <2>4, <2>5, Zenon
  <2>7. j < i
    <3>1. ~(i < j)
      BY <1>6, <2>1, <2>5, <2>6, Zenon
    <3>2. i # j
      BY <2>3, <2>4, <2>6
    <3> QED
      BY <1>5, <2>1, <3>1, <3>2
  <2>8. drain'[d].rows[j].serial = n.serial
    BY <1>8, <2>6
  <2> QED
    BY <1>8, <2>1, <2>7, <2>8
<1>16. AgainByFault'
  <2>1. \A n \in notices : n.owed => mailed[n.serial] <= faults
    BY <1>1, <1>11, Zenon DEF AgainByFault
  <2>2. ASSUME NEW e \in Drains, NEW i \in 1..Len(drain'[e].rows)
        PROVE  mailed'[drain'[e].rows[i].serial] <= faults'
    <3>1. e = d /\ i \in 1..Len(b)
      BY <1>12
    <3>2. mailed[b[i].serial] <= faults
      BY <1>5, <2>1, <3>1, Zenon
    <3> QED
      BY <1>3, <1>8, <3>1, <3>2
  <2>3. \A n \in notices' : n.owed => mailed'[n.serial] <= faults'
    BY <1>3, <2>1
  <2> QED
    BY <2>2, <2>3, Zenon DEF AgainByFault
<1>17. RowsApart' /\ InOrder' /\ DuplicatesNeedFaults'
  BY <1>1, <1>3 DEF RowsApart, InOrder, DuplicatesNeedFaults
<1> QED
  BY <1>13, <1>14, <1>15, <1>16, <1>17 DEF Ordered, Counted

LEMMA MutateStep ==
    ASSUME IInv, NEW p \in Projects, NEW r \in Recipients, Mutate(p, r)
    PROVE  Ordered' /\ Counted'
<1>1. Typed /\ RowsApart /\ HoldsWhileRunning /\ BatchApart /\ AheadInBatch /\ InOrder
      /\ AgainByFault /\ DuplicatesNeedFaults
  BY Parts
<1>2. /\ \A n \in notices : n.id \in Nat /\ n.serial \in Serials /\ n.owed \in BOOLEAN
      /\ mailed \in [Serials -> Nat] /\ faults \in Nat /\ issued \in Nat
      /\ Serials \subseteq Nat
  BY <1>1, NoticeTypes
<1>3. r \in Seq(Users) /\ Len(r) \in Nat /\ DOMAIN r = 1..Len(r)
  BY RecipientsType
<1>4. PICK top \in LastId :
        notices' = notices \cup
          {[id |-> top + i, serial |-> issued + i, user |-> r[i],
            project |-> p, owed |-> TRUE] : i \in DOMAIN r}
  BY DEF Mutate
<1>5. /\ drain' = drain /\ mailed' = mailed /\ faults' = faults
      /\ issued' = issued + Len(r) /\ issued' <= MaxNotices
  BY DEF Mutate
<1>6. top \in Nat /\ \A n \in notices : n.id <= top /\ n.serial <= issued
  BY <1>1 DEF LastId, RowsApart
<1> DEFINE new(i) == [id |-> top + i, serial |-> issued + i, user |-> r[i],
                      project |-> p, owed |-> TRUE]
<1>7. \A n \in notices' : n \in notices \/ \E i \in 1..Len(r) : n = new(i)
  BY <1>3, <1>4
<1>8. ASSUME NEW i \in 1..Len(r)
      PROVE  /\ new(i).id = top + i /\ new(i).serial = issued + i
             /\ i \in Nat /\ i > 0 /\ i <= Len(r) /\ issued + i \in Serials
  <2>1. i \in Nat /\ i > 0 /\ i <= Len(r)
    BY <1>3
  <2>2. issued + i \in 1..MaxNotices
    BY <1>2, <1>5, <2>1, DrainAssumption DEF DrainAssumption
  <2> QED
    BY <2>1, <2>2 DEF Serials
<1> HIDE DEF new
<1>9. ASSUME NEW n \in notices', n \notin notices
      PROVE  \E i \in 1..Len(r) : n = new(i) /\ n.id = top + i /\ n.serial = issued + i
  BY <1>7, <1>8, <1>9, Zenon
<1>10. ASSUME NEW n \in notices', n \notin notices
       PROVE  /\ n.id \in Nat /\ n.id > top /\ n.serial \in Serials
              /\ n.serial > issued /\ n.serial <= issued'
  <2>1. PICK i \in 1..Len(r) : n.id = top + i /\ n.serial = issued + i
    BY <1>9, <1>10, Zenon
  <2> QED
    BY <1>2, <1>3, <1>5, <1>6, <1>8, <2>1
<1>20. ASSUME NEW n \in notices, NEW m \in notices', m \notin notices
       PROVE  n.id # m.id /\ n.serial # m.serial
  <2>1. n.id \in Nat /\ n.serial \in Nat /\ n.id <= top /\ n.serial <= issued
    BY <1>2, <1>6
  <2>2. m.id \in Nat /\ m.serial \in Nat /\ m.id > top /\ m.serial > issued
    BY <1>2, <1>10, <1>20
  <2> QED
    BY <1>2, <1>6, <2>1, <2>2
<1>21. ASSUME NEW k \in Nat, k <= issued
       PROVE  k <= issued'
  <2>1. Len(r) \in Nat /\ issued \in Nat /\ issued' = issued + Len(r)
    BY <1>2, <1>3, <1>5
  <2> QED
    BY <1>21, <2>1
<1>11. RowsApart'
  <2>1. ASSUME NEW n \in notices', NEW m \in notices', n.id = m.id \/ n.serial = m.serial
        PROVE  n = m
    <3>1. CASE n \in notices /\ m \in notices
      BY <1>1, <2>1, <3>1, Zenon DEF RowsApart
    <3>2. CASE n \in notices /\ m \notin notices
      BY <1>20, <2>1, <3>2
    <3>3. CASE n \notin notices /\ m \in notices
      BY <1>20, <2>1, <3>3
    <3>4. CASE n \notin notices /\ m \notin notices
      <4>1. PICK i \in 1..Len(r) : n = new(i) /\ n.id = top + i /\ n.serial = issued + i
        BY <1>9, <3>4, Zenon
      <4>2. PICK j \in 1..Len(r) : m = new(j) /\ m.id = top + j /\ m.serial = issued + j
        BY <1>9, <3>4, Zenon
      <4>3. i = j
        BY <1>2, <1>6, <1>8, <2>1, <4>1, <4>2
      <4> QED
        BY <4>1, <4>2, <4>3, Zenon
    <3> QED
      BY <3>1, <3>2, <3>3, <3>4
  <2>2. ASSUME NEW n \in notices' PROVE n.serial <= issued'
    <3>1. CASE n \in notices
      BY <1>2, <1>6, <1>21, <3>1
    <3>2. CASE n \notin notices
      BY <1>10, <3>2
    <3> QED
      BY <3>1, <3>2
  <2>3. \A s \in Serials : s > issued' => mailed'[s] = 0
    <3> TAKE s \in Serials
    <3>1. s > issued' => s > issued
      BY <1>2, <1>3, <1>5
    <3> QED
      BY <1>1, <1>5, <3>1 DEF RowsApart
  <2> QED
    BY <2>1, <2>2, <2>3, Zenon DEF RowsApart
<1>12. HoldsWhileRunning' /\ DuplicatesNeedFaults'
  BY <1>1, <1>5 DEF HoldsWhileRunning, DuplicatesNeedFaults
<1>13. ASSUME NEW e \in Drains, NEW i \in 1..Len(drain[e].rows)
       PROVE  /\ drain[e].rows[i].serial \in Serials /\ drain[e].rows[i].serial <= issued
              /\ drain[e].rows[i].serial <= issued'
              /\ \A n \in notices' : n.serial = drain[e].rows[i].serial => n \in notices
  <2>1. drain[e].rows[i].serial \in Serials /\ drain[e].rows[i].serial <= issued
    <3>1. drain[e].rows[i].serial \in Serials
      BY <1>1, BatchType
    <3>2. drain[e].rows[i].serial <= issued
      BY <1>1, Zenon DEF BatchApart
    <3> QED
      BY <3>1, <3>2
  <2>0. drain[e].rows[i].serial \in Nat
    BY <1>2, <2>1
  <2>2. drain[e].rows[i].serial <= issued'
    BY <1>21, <2>0, <2>1
  <2>3. ASSUME NEW n \in notices', n.serial = drain[e].rows[i].serial, n \notin notices
        PROVE  FALSE
    <3>1. n.serial > issued /\ n.serial <= issued /\ n.serial \in Nat
      BY <1>10, <2>0, <2>1, <2>3
    <3> QED
      BY <1>2, <3>1
  <2> QED
    BY <2>1, <2>2, <2>3
<1>14. BatchApart'
  <2> SUFFICES ASSUME NEW e \in Drains, NEW i \in 1..Len(drain[e].rows)
               PROVE  /\ drain[e].rows[i].serial <= issued'
                      /\ \A j \in 1..Len(drain[e].rows) :
                           drain[e].rows[i].serial = drain[e].rows[j].serial => i = j
                      /\ \A n \in notices' :
                           n.serial = drain[e].rows[i].serial => n.id = drain[e].rows[i].id
    BY <1>5 DEF BatchApart
  <2>1. /\ \A j \in 1..Len(drain[e].rows) :
             drain[e].rows[i].serial = drain[e].rows[j].serial => i = j
        /\ \A n \in notices :
             n.serial = drain[e].rows[i].serial => n.id = drain[e].rows[i].id
    BY <1>1, Zenon DEF BatchApart
  <2> QED
    BY <1>13, <2>1, Zenon
<1>15. \A n, m \in notices' : m \in notices /\ n.id < m.id => n \in notices
  <2> SUFFICES ASSUME NEW n \in notices', NEW m \in notices, n.id < m.id, n \notin notices
               PROVE  FALSE
    OBVIOUS
  <2> QED
    BY <1>2, <1>6, <1>10
<1>16. AheadInBatch'
  <2> SUFFICES ASSUME NEW e \in Drains, NEW i \in 1..Len(drain[e].rows),
                      NEW n \in notices', NEW m \in notices',
                      n.owed, n.id < m.id, m.serial = drain[e].rows[i].serial
               PROVE  \E j \in 1..Len(drain[e].rows) :
                        j < i /\ drain[e].rows[j].serial = n.serial
    BY <1>5 DEF AheadInBatch
  <2>1. m \in notices
    BY <1>13, Zenon
  <2>2. n \in notices
    BY <1>15, <2>1, Zenon
  <2> QED
    BY <1>1, <2>1, <2>2, Zenon DEF AheadInBatch
<1>17. InOrder'
  <2> SUFFICES ASSUME NEW n \in notices', NEW m \in notices', n.owed, n.id < m.id
               PROVE  mailed[m.serial] = 0
    BY <1>5 DEF InOrder
  <2>1. CASE m \in notices
    BY <1>1, <1>15, <2>1, Zenon DEF InOrder
  <2>2. CASE m \notin notices
    <3>1. m.serial \in Serials /\ m.serial > issued
      BY <1>10, <2>2
    <3> QED
      BY <1>1, <3>1 DEF RowsApart
  <2> QED
    BY <2>1, <2>2
<1>18. AgainByFault'
  <2>1. ASSUME NEW n \in notices', n.owed PROVE mailed[n.serial] <= faults \/ Answered(n.serial)
    <3>1. CASE n \in notices
      BY <1>1, <2>1, <3>1, Zenon DEF AgainByFault
    <3>2. CASE n \notin notices
      <4>1. n.serial \in Serials /\ n.serial > issued
        BY <1>10, <3>2
      <4>2. mailed[n.serial] = 0
        BY <1>1, <4>1 DEF RowsApart
      <4> QED
        BY <1>2, <4>2
    <3> QED
      BY <3>1, <3>2
  <2>2. \A n \in notices' : n.owed => mailed'[n.serial] <= faults' \/ Answered(n.serial)'
    BY <1>5, <2>1 DEF Answered
  <2>3. \A e \in Drains : \A i \in 1..Len(drain'[e].rows) :
          mailed'[drain'[e].rows[i].serial] <= faults' \/ (i = 1 /\ drain'[e].accepted)
    BY <1>1, <1>5 DEF AgainByFault
  <2> QED
    BY <2>2, <2>3, Zenon DEF AgainByFault
<1> QED
  BY <1>11, <1>12, <1>14, <1>16, <1>17, <1>18 DEF Ordered, Counted

-----------------------------------------------------------------------------
(* The invariant                                                           *)

\* A run that leaves drainNotifications, or begins, holds nothing; one that had
\* been answered leaves by a fault only.
LEMMA EmptyHanded ==
    ASSUME IInv, NEW d \in Drains, NEW new, drain' = [drain EXCEPT ![d] = new],
           new.rows = <<>>, new.accepted = FALSE,
           drain[d].accepted => faults' = faults + 1,
           notices' = notices, issued' = issued, mailed' = mailed,
           faults' = faults \/ faults' = faults + 1
    PROVE  Ordered' /\ Counted'
<1>1. drain'[d] = new /\ \A e \in Drains \ {d} : drain'[e] = drain[e]
  BY Parts DEF Typed, TypeOK
<1>2. HoldsWhileRunning'
  BY <1>1, Parts DEF HoldsWhileRunning
<1>3. \A e \in Drains :
        \/ drain'[e].rows = drain[e].rows /\ drain'[e].accepted = drain[e].accepted
        \/ Drops(e)
  BY <1>1 DEF Drops
<1> QED
  BY <1>2, <1>3, QuietStep

LEMMA Unmoved ==
    ASSUME IInv, drain' = drain, notices' \subseteq notices, issued' = issued,
           mailed' = mailed, faults' = faults
    PROVE  Ordered' /\ Counted'
<1>1. HoldsWhileRunning'
  BY Parts DEF HoldsWhileRunning
<1> QED
  BY <1>1, QuietStep

LEMMA DrainerStep ==
    ASSUME IInv, NEW d \in Drains, DrainStep(d) \/ SendFails(d) \/ DrainThrows(d)
    PROVE  Ordered' /\ Counted'
<1>1. Typed /\ HoldsWhileRunning /\ drain[d] \in DrainState
  BY Parts DEF Typed, TypeOK
<1>2. CASE RunKick(d)
  <2>1. CASE isDraining
    BY <1>2, <2>1, Unmoved DEF RunKick
  <2>2. CASE ~isDraining
    <3> DEFINE new == [Idle EXCEPT !.pc = "list"]
    <3>1. /\ drain' = [drain EXCEPT ![d] = new]
          /\ notices' = notices /\ issued' = issued /\ mailed' = mailed /\ faults' = faults
      BY <1>2, <2>2 DEF RunKick
    <3>2. new.rows = <<>> /\ new.accepted = FALSE
      BY DEF Idle
    <3>3. ~drain[d].accepted
      BY <1>1, <1>2 DEF RunKick, HoldsWhileRunning, Active
    <3> HIDE DEF new
    <3> QED
      BY <3>1, <3>2, <3>3, EmptyHanded
  <2> QED
    BY <2>1, <2>2
<1>3. CASE ListBatch(d)
  BY <1>3, ListStep
<1>4. CASE EndDrain(d) \/ SendRefused(d) \/ SendFails(d) \/ DrainThrows(d)
  <2>1. /\ drain' = [drain EXCEPT ![d] = Idle]
        /\ notices' = notices /\ issued' = issued /\ mailed' = mailed
    BY <1>4 DEF EndDrain, SendRefused, SendFails, DrainThrows, Leave
  <2>2. Idle.rows = <<>> /\ Idle.accepted = FALSE
    BY DEF Idle
  <2>3. /\ faults' = faults \/ faults' = faults + 1
        /\ drain[d].accepted => faults' = faults + 1
    BY <1>1, <1>4 DEF EndDrain, SendRefused, SendFails, DrainThrows, HoldsWhileRunning
  <2> QED
    BY <2>1, <2>2, <2>3, EmptyHanded
<1>5. CASE SkipRow(d) \/ SendResolves(d)
  <2>1. /\ Active(d) /\ drain[d].rows # <<>> /\ MarkEmailed(Head(drain[d].rows).id)
        /\ issued' = issued /\ mailed' = mailed /\ faults' = faults
    BY <1>1, <1>5 DEF SkipRow, SendResolves, Active, Typed, SendingHasRow
  <2>2. /\ drain'[d].rows = Tail(drain[d].rows) /\ drain'[d].accepted = FALSE
        /\ drain'[d].pc = "row"
        /\ \A e \in Drains \ {d} : drain'[e] = drain[e]
    <3>1. CASE SkipRow(d)
      <4>1. ~drain[d].accepted /\ drain[d].pc = "row"
        BY <1>1, <3>1 DEF SkipRow, HoldsWhileRunning
      <4>2. /\ drain'[d].rows = Tail(drain[d].rows) /\ drain'[d].accepted = drain[d].accepted
            /\ drain'[d].pc = drain[d].pc
            /\ \A e \in Drains \ {d} : drain'[e] = drain[e]
        BY <1>1, <3>1 DEF SkipRow, Typed, TypeOK, DrainState
      <4>3. drain[d].accepted = FALSE
        BY <1>1, <4>1 DEF DrainState
      <4> QED
        BY <4>1, <4>2, <4>3
    <3>2. CASE SendResolves(d)
      BY <1>1, <3>2 DEF SendResolves, Typed, TypeOK, DrainState
    <3> QED
      BY <1>5, <3>1, <3>2
  <2>3. HoldsWhileRunning'
    BY <1>1, <2>2 DEF HoldsWhileRunning
  <2> QED
    BY <2>1, <2>2, <2>3, MarkStep
<1>6. CASE StartSend(d) \/ EndBatch(d)
  <2>1. /\ notices' = notices /\ issued' = issued /\ mailed' = mailed /\ faults' = faults
        /\ drain[d].pc = "row"
    BY <1>6 DEF StartSend, EndBatch
  <2>2. PICK pc \in {"list", "sending"} :
          /\ drain' = [drain EXCEPT ![d] = [drain[d] EXCEPT !.pc = pc]]
          /\ pc = "list" => drain[d].rows = <<>>
    BY <1>6 DEF StartSend, EndBatch
  <2>3. /\ \A e \in Drains \ {d} : drain'[e] = drain[e]
        /\ drain'[d].pc = pc /\ drain'[d].rows = drain[d].rows
        /\ drain'[d].accepted = drain[d].accepted
    BY <1>1, <2>2 DEF Typed, TypeOK, DrainState
  <2>4. ~drain[d].accepted
    BY <1>1, <2>1 DEF HoldsWhileRunning
  <2>5. HoldsWhileRunning'
    BY <1>1, <2>2, <2>3, <2>4 DEF HoldsWhileRunning
  <2>6. \A e \in Drains :
          drain'[e].rows = drain[e].rows /\ drain'[e].accepted = drain[e].accepted
    BY <2>3
  <2> QED
    BY <2>1, <2>5, <2>6, QuietStep
<1>7. CASE Accept(d)
  BY <1>7, AcceptStep
<1> QED
  BY <1>2, <1>3, <1>4, <1>5, <1>6, <1>7 DEF DrainStep

LEMMA InvStep == IInv /\ [Next]_vars => IInv'
<1> SUFFICES ASSUME IInv, [Next]_vars PROVE Ordered' /\ Counted'
  BY CoveredStep DEF IInv
<1>1. ASSUME NEW p \in Projects, NEW r \in Recipients, Mutate(p, r)
      PROVE  Ordered' /\ Counted'
  BY <1>1, MutateStep
<1>2. ASSUME NEW d \in Drains, DrainStep(d) \/ SendFails(d) \/ DrainThrows(d)
      PROVE  Ordered' /\ Counted'
  BY <1>2, DrainerStep
<1>3. ASSUME NEW u \in Users, NEW off \in BOOLEAN, SetDisabled(u, off)
      PROVE  Ordered' /\ Counted'
  BY <1>3, Unmoved DEF SetDisabled
<1>4. CASE FeedFetch \/ Boot \/ UNCHANGED vars
  <2>1. /\ drain' = drain /\ notices' = notices /\ issued' = issued /\ mailed' = mailed
        /\ faults' = faults
    BY <1>4 DEF FeedFetch, Boot, vars
  <2> QED
    BY <2>1, Unmoved
<1>5. CASE Crash
  <2>1. /\ notices' = notices /\ issued' = issued /\ mailed' = mailed
        /\ faults' = faults + 1
        /\ \A e \in Drains : drain'[e] = Idle
    BY <1>5 DEF Crash
  <2>2. HoldsWhileRunning' /\ \A e \in Drains : Drops(e)
    BY <2>1 DEF HoldsWhileRunning, Drops, Idle
  <2> QED
    BY <2>1, <2>2, QuietStep
<1>6. ASSUME NEW p \in Projects, Purge(p)
      PROVE  Ordered' /\ Counted'
  BY <1>6, Unmoved DEF Purge
<1> QED
  BY <1>1, <1>2, <1>3, <1>4, <1>5, <1>6 DEF Next

LEMMA InvInit == Init => IInv
<1> SUFFICES ASSUME Init PROVE Ordered /\ Counted
  BY CoveredInit DEF IInv
<1>1. /\ notices = {} /\ faults = 0 /\ mailed = [s \in Serials |-> 0]
      /\ \A d \in Drains : drain[d].rows = <<>> /\ drain[d].accepted = FALSE
  BY DEF Init, Idle
<1>2. Ordered
  BY <1>1 DEF Ordered, RowsApart, HoldsWhileRunning, BatchApart, AheadInBatch, InOrder
<1>3. Counted
  BY <1>1 DEF Counted, AgainByFault, DuplicatesNeedFaults
<1> QED
  BY <1>2, <1>3

\* The table and the running batch are as Ordered and Counted say, whatever is
\* hard-deleted beside the drain.
THEOREM OrderInvariance == Spec => []IInv
  BY InvInit, InvStep, PTL DEF Spec

\* Mail leaves in the order of the events: drainNotifications mails no row
\* while an earlier one is owed.
THEOREM AlwaysInOrder == Spec => []InOrder
<1>1. IInv => InOrder
  BY DEF IInv, Ordered
<1> QED
  BY <1>1, OrderInvariance, PTL

\* A notification is mailed at most once more than there were crashes and
\* failures: each comes between the SMTP server's answer and emailed_at at most
\* once.
THEOREM DuplicatesAlwaysNeedFaults == Spec => []DuplicatesNeedFaults
<1>1. IInv => DuplicatesNeedFaults
  BY DEF IInv, Counted
<1> QED
  BY <1>1, OrderInvariance, PTL
-----------------------------------------------------------------------------
(***************************************************************************)
(* The outbox keeps its promise: NotificationDrain implements Outbox.      *)
(*                                                                         *)
(* It has to be the turn of the row that is sent or marked, be it still in *)
(* the table or not.  Ordered says so by rowids, of rows in the table;     *)
(* here it is said by serial numbers, of everything a batch holds.         *)
(***************************************************************************)

\* Rowids and serial numbers ascend together, though rowids are given again.
SameOrder == \A n, m \in notices : n.id < m.id => n.serial < m.serial

\* A batch row that is still in the table is owed, and any earlier notice that is
\* owed is before it in the batch.
InTurn ==
    \A d \in Drains : \A i \in 1..Len(drain[d].rows) :
        /\ \A j \in 1..Len(drain[d].rows) :
             drain[d].rows[i].id = drain[d].rows[j].id => i = j
        /\ \A n \in notices : n.serial = drain[d].rows[i].serial => n.owed
        /\ \A n \in notices : n.owed /\ n.serial < drain[d].rows[i].serial =>
             \E j \in 1..Len(drain[d].rows) : j < i /\ drain[d].rows[j].serial = n.serial

\* What the mail server has answered for was sent.
AnsweredIsSent ==
    \A d \in Drains : drain[d].accepted => mailed[Head(drain[d].rows).serial] > 0

Turns == SameOrder /\ InTurn /\ AnsweredIsSent

-----------------------------------------------------------------------------
(* Turns is kept                                                           *)

\* A run keeps its batch or drops it.
Stays(e) ==
    \/ drain'[e].rows = drain[e].rows /\ drain'[e].accepted = drain[e].accepted
    \/ drain'[e].rows = <<>> /\ drain'[e].accepted = FALSE

\* A step that sends, marks, lists and inserts nothing.
LEMMA QuietTurns ==
    ASSUME IInv, Turns, notices' \subseteq notices, mailed' = mailed,
           \A e \in Drains : Stays(e)
    PROVE  Turns'
<1>1. SameOrder'
  BY DEF Turns, SameOrder
<1>2. ASSUME NEW e \in Drains, NEW i \in 1..Len(drain'[e].rows)
      PROVE  drain'[e].rows = drain[e].rows
  BY DEF Stays
<1>3. InTurn'
  <2> SUFFICES ASSUME NEW e \in Drains, NEW i \in 1..Len(drain'[e].rows)
               PROVE  /\ \A j \in 1..Len(drain'[e].rows) :
                           drain'[e].rows[i].id = drain'[e].rows[j].id => i = j
                      /\ \A n \in notices' : n.serial = drain'[e].rows[i].serial => n.owed
                      /\ \A n \in notices' : n.owed /\ n.serial < drain'[e].rows[i].serial =>
                           \E j \in 1..Len(drain'[e].rows) :
                              j < i /\ drain'[e].rows[j].serial = n.serial
    BY Zenon DEF InTurn
  <2>1. drain'[e].rows = drain[e].rows /\ i \in 1..Len(drain[e].rows)
    BY <1>2
  <2>2. /\ \A j \in 1..Len(drain[e].rows) :
             drain[e].rows[i].id = drain[e].rows[j].id => i = j
        /\ \A n \in notices : n.serial = drain[e].rows[i].serial => n.owed
        /\ \A n \in notices : n.owed /\ n.serial < drain[e].rows[i].serial =>
             \E j \in 1..Len(drain[e].rows) : j < i /\ drain[e].rows[j].serial = n.serial
    BY <2>1, Zenon DEF Turns, InTurn
  <2>3. \A j \in 1..Len(drain'[e].rows) :
          drain'[e].rows[i].id = drain'[e].rows[j].id => i = j
    BY <2>1, <2>2, Zenon
  <2>4. \A n \in notices' : n.serial = drain'[e].rows[i].serial => n.owed
    BY <2>1, <2>2, Zenon
  <2>5. ASSUME NEW n \in notices', n.owed, n.serial < drain'[e].rows[i].serial
        PROVE  \E j \in 1..Len(drain'[e].rows) : j < i /\ drain'[e].rows[j].serial = n.serial
    <3>1. n \in notices
      OBVIOUS
    <3>2. n.serial < drain[e].rows[i].serial
      BY <2>1, <2>5, Zenon
    <3>3. \E j \in 1..Len(drain[e].rows) : j < i /\ drain[e].rows[j].serial = n.serial
      BY <2>2, <2>5, <3>1, <3>2, Zenon
    <3> QED
      BY <2>1, <3>3, Zenon
  <2> QED
    BY <2>3, <2>4, <2>5, Zenon
<1>4. AnsweredIsSent'
  <2>1. ASSUME NEW e \in Drains, drain'[e].accepted
        PROVE  mailed'[Head(drain'[e].rows).serial] > 0
    <3>1. drain'[e].rows = drain[e].rows /\ drain'[e].accepted = drain[e].accepted
      BY <2>1 DEF Stays
    <3> QED
      BY <2>1, <3>1 DEF Turns, AnsweredIsSent
  <2> QED
    BY <2>1, Zenon DEF AnsweredIsSent
<1> QED
  BY <1>1, <1>3, <1>4 DEF Turns

\* What markEmailed does to the rows.
LEMMA Marked ==
    ASSUME IInv, NEW id, MarkEmailed(id)
    PROVE  /\ \A r \in notices' : \E n \in notices :
                r.id = n.id /\ r.serial = n.serial /\ (r.owed <=> n.owed /\ n.id # id)
           /\ \A n \in notices : \E r \in notices' :
                r.id = n.id /\ r.serial = n.serial /\ (r.owed <=> n.owed /\ n.id # id)
<1> DEFINE f(n) == IF n.id = id THEN [n EXCEPT !.owed = FALSE] ELSE n
<1>1. notices' = {f(n) : n \in notices}
  BY DEF MarkEmailed
<1>2. ASSUME NEW n \in notices
      PROVE  /\ f(n).id = n.id /\ f(n).serial = n.serial
             /\ f(n).owed <=> n.owed /\ n.id # id
  <2>1. n \in Notice
    BY Parts DEF Typed, TypeOK
  <2>2. CASE n.id = id
    <3>1. f(n) = [n EXCEPT !.owed = FALSE]
      BY <2>2
    <3> HIDE DEF f
    <3>2. f(n).id = n.id /\ f(n).serial = n.serial /\ f(n).owed = FALSE
      BY <2>1, <3>1 DEF Notice
    <3> QED
      BY <2>2, <3>2
  <2>3. CASE n.id # id
    BY <2>3, Zenon
  <2> QED
    BY <2>2, <2>3
<1> HIDE DEF f
<1>3. ASSUME NEW r \in notices'
      PROVE  \E n \in notices :
               r.id = n.id /\ r.serial = n.serial /\ (r.owed <=> n.owed /\ n.id # id)
  <2>1. PICK n \in notices : r = f(n)
    BY <1>1
  <2> QED
    BY <1>2, <2>1, Zenon
<1>4. ASSUME NEW n \in notices
      PROVE  \E r \in notices' :
               r.id = n.id /\ r.serial = n.serial /\ (r.owed <=> n.owed /\ n.id # id)
  <2>1. f(n) \in notices'
    BY <1>1
  <2> QED
    BY <1>2, <2>1, Zenon
<1> QED
  BY <1>3, <1>4, Zenon

\* The batch of a run goes on by the row it marks.
Marks(d) ==
    /\ Active(d) /\ drain[d].rows # <<>> /\ MarkEmailed(Head(drain[d].rows).id)
    /\ drain'[d].rows = Tail(drain[d].rows) /\ drain'[d].accepted = FALSE
    /\ \A e \in Drains \ {d} : drain'[e] = drain[e]
    /\ issued' = issued /\ mailed' = mailed /\ faults' = faults

LEMMA MarkTurns ==
    ASSUME IInv, Turns, NEW d \in Drains, Marks(d)
    PROVE  Turns'
<1> DEFINE rows == drain[d].rows
           id == Head(rows).id
<1>1. Typed /\ RowsApart /\ BatchApart
  BY Parts
<1>2. /\ 1 \in 1..Len(rows) /\ Head(rows) = rows[1]
      /\ Len(Tail(rows)) = Len(rows) - 1 /\ Len(rows) \in Nat
      /\ \A i \in 1..Len(Tail(rows)) :
           i + 1 \in 1..Len(rows) /\ Tail(rows)[i] = rows[i + 1]
  BY <1>1, HeadTail, BatchType DEF Marks
<1>3. \A e \in Drains \ {d} : drain'[e].rows = <<>> /\ ~drain'[e].accepted
  BY OthersHoldNothing DEF Marks
<1>4. drain'[d].rows = Tail(rows) /\ drain'[d].accepted = FALSE
  BY DEF Marks
<1>5. \A r \in notices' : \E n \in notices :
        r.id = n.id /\ r.serial = n.serial /\ (r.owed <=> n.owed /\ n.id # id)
  <2>1. MarkEmailed(id)
    BY DEF Marks
  <2> HIDE DEF rows, id
  <2> QED
    BY <2>1, Marked
<1>6. \A i \in 1..Len(rows) :
        /\ \A j \in 1..Len(rows) : rows[i].id = rows[j].id => i = j
        /\ \A n \in notices : n.serial = rows[i].serial => n.owed
        /\ \A n \in notices : n.serial = rows[i].serial => n.id = rows[i].id
        /\ \A n \in notices : n.owed /\ n.serial < rows[i].serial =>
             \E j \in 1..Len(rows) : j < i /\ rows[j].serial = n.serial
  BY <1>1, Zenon DEF Turns, InTurn, BatchApart
<1>7. ASSUME NEW e \in Drains, NEW i \in 1..Len(drain'[e].rows)
      PROVE  /\ e = d /\ i \in 1..Len(Tail(rows)) /\ i \in Nat
             /\ i + 1 \in 1..Len(rows) /\ drain'[e].rows[i] = rows[i + 1]
             /\ Len(drain'[e].rows) = Len(rows) - 1
  <2>1. e = d
    BY <1>3, <1>7
  <2>2. drain'[e].rows = Tail(rows)
    BY <1>4, <2>1
  <2> HIDE DEF rows
  <2> QED
    BY <1>2, <1>7, <2>1, <2>2
<1>8. AnsweredIsSent'
  BY <1>3, <1>4 DEF AnsweredIsSent
<1>9. rows[1].id = id
  BY <1>2
<1> HIDE DEF rows, id
<1>10. SameOrder'
  <2> SUFFICES ASSUME NEW r \in notices', NEW q \in notices', r.id < q.id
               PROVE  r.serial < q.serial
    BY DEF SameOrder
  <2>1. PICK n \in notices : r.id = n.id /\ r.serial = n.serial
    BY <1>5, Zenon
  <2>2. PICK m \in notices : q.id = m.id /\ q.serial = m.serial
    BY <1>5, Zenon
  <2> QED
    BY <2>1, <2>2 DEF Turns, SameOrder
<1>12. ASSUME NEW i \in 1..Len(rows), i # 1, NEW r \in notices', r.serial = rows[i].serial
       PROVE  r.owed
  <2>1. PICK n \in notices :
          r.id = n.id /\ r.serial = n.serial /\ (r.owed <=> n.owed /\ n.id # id)
    BY <1>5, Zenon
  <2>2. n.serial = rows[i].serial
    BY <1>12, <2>1, Zenon
  <2>3. n.owed /\ n.id = rows[i].id
    BY <1>6, <2>2, Zenon
  <2>4. rows[i].id # id
    BY <1>2, <1>6, <1>9, <1>12, Zenon
  <2> QED
    BY <2>1, <2>3, <2>4, Zenon
<1>13. ASSUME NEW i \in 1..Len(rows), NEW r \in notices', r.owed, r.serial < rows[i].serial
       PROVE  \E j \in 1..Len(rows) : j # 1 /\ j < i /\ rows[j].serial = r.serial
  <2>1. PICK n \in notices :
          r.id = n.id /\ r.serial = n.serial /\ (r.owed <=> n.owed /\ n.id # id)
    BY <1>5, Zenon
  <2>2. n.owed /\ n.id # id /\ n.serial < rows[i].serial
    BY <1>13, <2>1, Zenon
  <2>3. PICK j \in 1..Len(rows) : j < i /\ rows[j].serial = n.serial
    BY <1>6, <2>2, Zenon
  <2>4. n.id = rows[j].id
    BY <1>6, <2>3, Zenon
  <2>5. j # 1
    BY <1>9, <2>2, <2>4, Zenon
  <2> QED
    BY <2>1, <2>3, <2>5, Zenon
<1>11. InTurn'
  <2> SUFFICES ASSUME NEW e \in Drains, NEW i \in 1..Len(drain'[e].rows)
               PROVE  /\ \A j \in 1..Len(drain'[e].rows) :
                           drain'[e].rows[i].id = drain'[e].rows[j].id => i = j
                      /\ \A n \in notices' : n.serial = drain'[e].rows[i].serial => n.owed
                      /\ \A n \in notices' : n.owed /\ n.serial < drain'[e].rows[i].serial =>
                           \E j \in 1..Len(drain'[e].rows) :
                              j < i /\ drain'[e].rows[j].serial = n.serial
    BY Zenon DEF InTurn
  <2>1. /\ e = d /\ i \in Nat /\ i + 1 \in 1..Len(rows) /\ i + 1 # 1
        /\ drain'[e].rows[i] = rows[i + 1] /\ Len(drain'[e].rows) = Len(rows) - 1
    BY <1>7
  <2>2. ASSUME NEW j \in 1..Len(drain'[e].rows),
               drain'[e].rows[i].id = drain'[e].rows[j].id
        PROVE  i = j
    <3>1. drain'[e].rows[j] = rows[j + 1] /\ j + 1 \in 1..Len(rows) /\ j \in Nat
      BY <1>7
    <3>2. rows[i + 1].id = rows[j + 1].id
      BY <2>1, <2>2, <3>1
    <3>3. i + 1 = j + 1
      BY <1>6, <2>1, <3>1, <3>2
    <3> QED
      BY <2>1, <3>1, <3>3
  <2>3. ASSUME NEW n \in notices', n.serial = drain'[e].rows[i].serial PROVE n.owed
    BY <1>12, <2>1, <2>3
  <2>4. ASSUME NEW n \in notices', n.owed, n.serial < drain'[e].rows[i].serial
        PROVE  \E j \in 1..Len(drain'[e].rows) : j < i /\ drain'[e].rows[j].serial = n.serial
    <3>1. PICK k \in 1..Len(rows) : k # 1 /\ k < i + 1 /\ rows[k].serial = n.serial
      BY <1>13, <2>1, <2>4
    <3>2. k - 1 \in 1..Len(drain'[e].rows) /\ k - 1 < i /\ (k - 1) + 1 = k
      BY <1>2, <2>1, <3>1
    <3>3. drain'[e].rows[k - 1] = rows[(k - 1) + 1]
      BY <1>7, <3>2
    <3> QED
      BY <3>1, <3>2, <3>3
  <2> QED
    BY <2>2, <2>3, <2>4
<1> QED
  BY <1>8, <1>10, <1>11 DEF Turns

\* The mail server takes the message.
LEMMA AcceptTurns ==
    ASSUME IInv, Turns, NEW d \in Drains, Accept(d)
    PROVE  Turns'
<1>1. Typed /\ mailed \in [Serials -> Nat] /\ drain[d].rows # <<>>
  BY Parts DEF Accept, Typed, TypeOK, SendingHasRow
<1>2. /\ notices' = notices
      /\ drain' = [drain EXCEPT ![d] = [drain[d] EXCEPT !.accepted = TRUE]]
      /\ mailed' = [mailed EXCEPT ![Head(drain[d].rows).serial] = @ + 1]
  BY DEF Accept
<1>3. /\ \A e \in Drains \ {d} : drain'[e] = drain[e]
      /\ drain'[d].rows = drain[d].rows
  BY <1>1, <1>2 DEF Typed, TypeOK, DrainState
<1>4. \A e \in Drains : drain'[e].rows = drain[e].rows
  BY <1>3
<1>5. SameOrder' /\ InTurn'
  BY <1>2, <1>4 DEF Turns, SameOrder, InTurn
<1>6. AnsweredIsSent'
  <2>1. Head(drain[d].rows).serial \in Serials
    BY <1>1, HeadTail, BatchType
  <2>2. mailed'[Head(drain'[d].rows).serial] > 0
    BY <1>1, <1>2, <1>3, <2>1
  <2>3. ASSUME NEW e \in Drains, e # d PROVE ~drain'[e].accepted
    <3>1. Active(d)
      BY DEF Accept, Active
    <3>2. ~drain[e].accepted
      BY <2>3, <3>1, OthersHoldNothing
    <3> QED
      BY <1>3, <2>3, <3>2
  <2> QED
    BY <2>2, <2>3, Zenon DEF AnsweredIsSent
<1> QED
  BY <1>5, <1>6 DEF Turns

\* The batch that is listed is of owed rows, in order, and leaves out no earlier one.
LEMMA ListTurns ==
    ASSUME IInv, Turns, NEW d \in Drains, ListBatch(d)
    PROVE  Turns'
<1>1. Typed /\ RowsApart /\ HoldsWhileRunning
  BY Parts
<1>2. /\ \A n \in notices : n.id \in Nat /\ n.serial \in Nat /\ n.owed \in BOOLEAN
      /\ notices' = notices /\ mailed' = mailed
  BY <1>1, NoticeTypes DEF ListBatch
<1>3. PICK b \in Unsent :
        drain' = [drain EXCEPT ![d] =
           [pc |-> "row", batch |-> drain[d].batch + 1, accepted |-> FALSE,
            rows |-> [i \in DOMAIN b |->
                         [id |-> b[i].id, serial |-> b[i].serial,
                          user |-> b[i].user, off |-> b[i].user \in disabled]]]]
  BY DEF ListBatch
<1>4. /\ DOMAIN b = 1..Len(b) /\ Len(b) \in Nat
      /\ \A i \in 1..Len(b) : b[i] \in notices /\ b[i].owed /\ b[i] \in Owed
  <2>1. b \in Seq(Owed) /\ DOMAIN b = 1..Len(b) /\ Len(b) \in Nat
    BY UnsentType
  <2>2. \A i \in 1..Len(b) : b[i] \in Owed
    BY <2>1
  <2> QED
    BY <2>1, <2>2 DEF Owed
<1>5. /\ \A i, j \in 1..Len(b) : i < j => b[i].id < b[j].id
      /\ \A n \in Owed : \/ \E i \in 1..Len(b) : b[i] = n
                         \/ \A i \in 1..Len(b) : b[i].id < n.id
  BY <1>4 DEF Unsent
<1>6. /\ \A e \in Drains \ {d} : drain'[e] = drain[e]
      /\ drain'[d].accepted = FALSE
      /\ drain'[d].rows = [i \in 1..Len(b) |->
                         [id |-> b[i].id, serial |-> b[i].serial,
                          user |-> b[i].user, off |-> b[i].user \in disabled]]
  BY <1>1, <1>3, <1>4 DEF Typed, TypeOK
<1>7. /\ Len(drain'[d].rows) = Len(b)
      /\ \A i \in 1..Len(b) : /\ drain'[d].rows[i].id = b[i].id
                              /\ drain'[d].rows[i].serial = b[i].serial
  BY <1>4, <1>6
<1>8. \A e \in Drains \ {d} : drain'[e].rows = <<>> /\ ~drain'[e].accepted
  <2>1. Active(d)
    BY DEF ListBatch, Active
  <2> QED
    BY <1>6, <2>1, OthersHoldNothing
<1>9. SameOrder' /\ AnsweredIsSent'
  BY <1>2, <1>6, <1>8 DEF Turns, SameOrder, AnsweredIsSent
<1>10. ASSUME NEW i \in 1..Len(b), NEW n \in Owed, n.serial < b[i].serial
       PROVE  \E j \in 1..Len(b) : j < i /\ b[j].serial = n.serial
  <2>1. n \in notices /\ b[i] \in notices
    BY <1>4 DEF Owed
  <2>2. n.id < b[i].id
    <3>1. n.id # b[i].id
      BY <1>1, <1>2, <1>10, <2>1 DEF RowsApart
    <3>2. ~(b[i].id < n.id)
      BY <1>2, <1>10, <2>1 DEF Turns, SameOrder
    <3> QED
      BY <1>2, <2>1, <3>1, <3>2
  <2>3. PICK j \in 1..Len(b) : b[j] = n
    BY <1>2, <1>5, <2>1, <2>2
  <2>4. ~(i < j) /\ i # j
    BY <1>2, <1>5, <2>1, <2>2, <2>3
  <2> QED
    BY <1>4, <2>3, <2>4
<1>11. ASSUME NEW i \in 1..Len(b), NEW j \in 1..Len(b), b[i].id = b[j].id
       PROVE  i = j
  BY <1>2, <1>4, <1>5, <1>11
<1>12. ASSUME NEW i \in 1..Len(b), NEW n \in notices, n.serial = b[i].serial
       PROVE  n.owed
  <2>1. n = b[i]
    BY <1>1, <1>4, <1>12, Zenon DEF RowsApart
  <2> QED
    BY <1>4, <2>1
<1>13. InTurn'
  <2> SUFFICES ASSUME NEW e \in Drains, NEW i \in 1..Len(drain'[e].rows)
               PROVE  /\ \A j \in 1..Len(drain'[e].rows) :
                           drain'[e].rows[i].id = drain'[e].rows[j].id => i = j
                      /\ \A n \in notices' : n.serial = drain'[e].rows[i].serial => n.owed
                      /\ \A n \in notices' : n.owed /\ n.serial < drain'[e].rows[i].serial =>
                           \E j \in 1..Len(drain'[e].rows) :
                              j < i /\ drain'[e].rows[j].serial = n.serial
    BY Zenon DEF InTurn
  <2>1. e = d /\ i \in 1..Len(b)
    BY <1>7, <1>8
  <2>2. /\ drain'[e].rows[i].id = b[i].id /\ drain'[e].rows[i].serial = b[i].serial
        /\ Len(drain'[e].rows) = Len(b)
    BY <1>7, <2>1
  <2>3. \A j \in 1..Len(drain'[e].rows) :
          drain'[e].rows[i].id = drain'[e].rows[j].id => i = j
    BY <1>7, <1>11, <2>1, <2>2
  <2>4. \A n \in notices' : n.serial = drain'[e].rows[i].serial => n.owed
    BY <1>2, <1>12, <2>1, <2>2
  <2>5. ASSUME NEW n \in notices', n.owed, n.serial < drain'[e].rows[i].serial
        PROVE  \E j \in 1..Len(drain'[e].rows) : j < i /\ drain'[e].rows[j].serial = n.serial
    <3>1. n \in Owed
      BY <1>2, <2>5 DEF Owed
    <3>2. PICK j \in 1..Len(b) : j < i /\ b[j].serial = n.serial
      BY <1>10, <2>1, <2>2, <2>5, <3>1
    <3> QED
      BY <1>7, <2>1, <2>2, <3>2
  <2> QED
    BY <2>3, <2>4, <2>5
<1> QED
  BY <1>9, <1>13 DEF Turns

\* An event: its rows come last, by rowid and by serial number.
LEMMA MutateTurns ==
    ASSUME IInv, Turns, NEW p \in Projects, NEW r \in Recipients, Mutate(p, r)
    PROVE  /\ Turns'
           /\ Waiting' = Waiting \cup (issued + 1)..(issued + Len(r))
           /\ Dropped' = Dropped
           /\ Len(r) \in Nat /\ issued' = issued + Len(r) /\ issued' <= MaxNotices
           /\ UNCHANGED <<mailed, skipped, faults>>
<1>1. Typed /\ RowsApart /\ BatchApart
  BY Parts
<1>2. /\ \A n \in notices : n.id \in Nat /\ n.serial \in Nat /\ n.owed \in BOOLEAN
      /\ issued \in Nat /\ MaxNotices \in Nat
  BY <1>1, NoticeTypes, DrainAssumption DEF Serials
<1>3. Len(r) \in Nat /\ DOMAIN r = 1..Len(r)
  BY RecipientsType
<1>4. PICK top \in LastId :
        notices' = notices \cup
          {[id |-> top + i, serial |-> issued + i, user |-> r[i],
            project |-> p, owed |-> TRUE] : i \in DOMAIN r}
  BY DEF Mutate
<1>5. /\ drain' = drain /\ issued' = issued + Len(r) /\ issued' <= MaxNotices
      /\ mailed' = mailed /\ skipped' = skipped /\ faults' = faults
  BY DEF Mutate
<1>6. top \in Nat /\ \A n \in notices : n.id <= top /\ n.serial <= issued
  BY <1>1 DEF LastId, RowsApart
<1> DEFINE new(i) == [id |-> top + i, serial |-> issued + i, user |-> r[i],
                      project |-> p, owed |-> TRUE]
<1>7. notices' = notices \cup {new(i) : i \in 1..Len(r)}
  BY <1>3, <1>4
<1>8. \A i \in 1..Len(r) :
        new(i).id = top + i /\ new(i).serial = issued + i /\ new(i).owed = TRUE
  OBVIOUS
<1> HIDE DEF new
<1>9. ASSUME NEW n \in notices'
      PROVE  \/ n \in notices
             \/ \E i \in 1..Len(r) : n.id = top + i /\ n.serial = issued + i /\ n.owed
  BY <1>7, <1>8
<1>10. SameOrder'
  <2> SUFFICES ASSUME NEW n \in notices', NEW m \in notices', n.id < m.id
               PROVE  n.serial < m.serial
    BY DEF SameOrder
  <2>1. CASE n \in notices /\ m \in notices
    BY <2>1 DEF Turns, SameOrder
  <2>2. CASE n \in notices /\ m \notin notices
    <3>1. PICK i \in 1..Len(r) : m.serial = issued + i
      BY <1>9, <2>2
    <3> QED
      BY <1>2, <1>3, <1>6, <2>2, <3>1
  <2>3. CASE n \notin notices /\ m \in notices
    <3>1. PICK i \in 1..Len(r) : n.id = top + i
      BY <1>9, <2>3
    <3> QED
      BY <1>2, <1>3, <1>6, <2>3, <3>1
  <2>4. CASE n \notin notices /\ m \notin notices
    <3>1. PICK i \in 1..Len(r) : n.id = top + i /\ n.serial = issued + i
      BY <1>9, <2>4
    <3>2. PICK j \in 1..Len(r) : m.id = top + j /\ m.serial = issued + j
      BY <1>9, <2>4
    <3> QED
      BY <1>2, <1>3, <1>6, <3>1, <3>2
  <2> QED
    BY <2>1, <2>2, <2>3, <2>4
<1>11. ASSUME NEW e \in Drains, NEW i \in 1..Len(drain[e].rows), NEW n \in notices',
              n.serial <= drain[e].rows[i].serial
       PROVE  n \in notices
  <2>1. drain[e].rows[i].serial <= issued /\ drain[e].rows[i].serial \in Nat
    <3>1. drain[e].rows[i].serial \in Serials
      BY <1>1, BatchType
    <3>2. drain[e].rows[i].serial <= issued
      BY <1>1, Zenon DEF BatchApart
    <3> QED
      BY <3>1, <3>2 DEF Serials
  <2>2. ASSUME NEW k \in 1..Len(r), n.serial = issued + k PROVE FALSE
    BY <1>2, <1>3, <1>11, <2>1, <2>2
  <2> QED
    BY <1>9, <2>2
<1>12. InTurn'
  <2> SUFFICES ASSUME NEW e \in Drains, NEW i \in 1..Len(drain[e].rows)
               PROVE  /\ \A j \in 1..Len(drain[e].rows) :
                           drain[e].rows[i].id = drain[e].rows[j].id => i = j
                      /\ \A n \in notices' : n.serial = drain[e].rows[i].serial => n.owed
                      /\ \A n \in notices' : n.owed /\ n.serial < drain[e].rows[i].serial =>
                           \E j \in 1..Len(drain[e].rows) :
                              j < i /\ drain[e].rows[j].serial = n.serial
    BY <1>5 DEF InTurn
  <2>1. drain[e].rows[i].serial \in Nat
    BY <1>1, BatchType DEF Serials
  <2>2. \A j \in 1..Len(drain[e].rows) : drain[e].rows[i].id = drain[e].rows[j].id => i = j
    BY Zenon DEF Turns, InTurn
  <2>3. ASSUME NEW n \in notices', n.serial = drain[e].rows[i].serial PROVE n.owed
    <3>1. n \in notices
      BY <1>11, <2>1, <2>3
    <3> QED
      BY <2>3, <3>1, Zenon DEF Turns, InTurn
  <2>4. ASSUME NEW n \in notices', n.owed, n.serial < drain[e].rows[i].serial
        PROVE  \E j \in 1..Len(drain[e].rows) : j < i /\ drain[e].rows[j].serial = n.serial
    <3>1. n.serial \in Nat
      BY <1>2, <1>3, <1>9
    <3>2. n \in notices
      BY <1>11, <2>1, <2>4, <3>1
    <3>3. \A m \in notices : m.owed /\ m.serial < drain[e].rows[i].serial =>
            \E j \in 1..Len(drain[e].rows) : j < i /\ drain[e].rows[j].serial = m.serial
      BY Zenon DEF Turns, InTurn
    <3> QED
      BY <2>4, <3>2, <3>3, Zenon
  <2> QED
    BY <2>2, <2>3, <2>4
<1>13. AnsweredIsSent'
  BY <1>5 DEF Turns, AnsweredIsSent
<1>14. Waiting' = Waiting \cup (issued + 1)..(issued + Len(r))
  <2>1. ASSUME NEW s \in Waiting' PROVE s \in Waiting \cup (issued + 1)..(issued + Len(r))
    <3>1. PICK n \in notices' : n.owed /\ s = n.serial
      BY DEF Waiting, Owed
    <3>2. CASE n \in notices
      BY <3>1, <3>2 DEF Waiting, Owed
    <3>3. ASSUME NEW i \in 1..Len(r), n.serial = issued + i
          PROVE  s \in (issued + 1)..(issued + Len(r))
      BY <1>2, <1>3, <3>1, <3>3
    <3> QED
      BY <1>9, <3>2, <3>3
  <2>2. ASSUME NEW s \in Waiting PROVE s \in Waiting'
    BY <1>7 DEF Waiting, Owed
  <2>3. ASSUME NEW s \in (issued + 1)..(issued + Len(r)) PROVE s \in Waiting'
    <3>1. s - issued \in 1..Len(r) /\ issued + (s - issued) = s
      BY <1>2, <1>3
    <3>2. /\ new(s - issued) \in notices' /\ new(s - issued).serial = s
          /\ new(s - issued).owed
      BY <1>7, <1>8, <3>1
    <3> QED
      BY <3>2 DEF Waiting, Owed
  <2> QED
    BY <2>1, <2>2, <2>3
<1>15. Dropped' = Dropped
  <2>1. ASSUME NEW s \in Dropped' PROVE s \in Dropped
    <3>1. s \in 1..(issued + Len(r)) /\ \A n \in notices' : n.serial # s
      BY <1>5 DEF Dropped
    <3>2. CASE s <= issued
      BY <1>2, <1>3, <1>7, <3>1, <3>2 DEF Dropped
    <3>3. CASE s > issued
      <4>1. s - issued \in 1..Len(r) /\ issued + (s - issued) = s
        BY <1>2, <1>3, <3>1, <3>3
      <4> QED
        BY <1>7, <1>8, <3>1, <4>1
    <3> QED
      BY <1>2, <1>3, <3>1, <3>2, <3>3
  <2>2. ASSUME NEW s \in Dropped PROVE s \in Dropped'
    <3>1. s \in 1..issued /\ \A n \in notices : n.serial # s
      BY DEF Dropped
    <3>2. ASSUME NEW i \in 1..Len(r) PROVE issued + i # s
      BY <1>2, <1>3, <3>1
    <3>3. \A n \in notices' : n.serial # s
      BY <1>9, <3>1, <3>2
    <3> QED
      BY <1>2, <1>3, <1>5, <3>1, <3>3 DEF Dropped
  <2> QED
    BY <2>1, <2>2
<1> QED
  BY <1>3, <1>5, <1>10, <1>12, <1>13, <1>14, <1>15 DEF Turns

-----------------------------------------------------------------------------
(* The steps of the drain                                                  *)

\* It is the turn of the row at hand.
LEMMA HeadsTurn ==
    ASSUME IInv, Turns, NEW d \in Drains, drain[d].rows # <<>>
    PROVE  /\ Head(drain[d].rows).serial \in 1..issued
           /\ Head(drain[d].rows).serial \in Serials
           /\ Promise!Turn(Head(drain[d].rows).serial)
<1> DEFINE rows == drain[d].rows
           s == Head(rows).serial
<1>1. Typed /\ BatchApart
  BY Parts
<1>2. 1 \in 1..Len(rows) /\ Head(rows) = rows[1]
  BY <1>1, HeadTail
<1>3. s \in Serials /\ s <= issued
  BY <1>1, <1>2, BatchType DEF BatchApart
<1>4. s \in 1..issued
  BY <1>1, <1>3, NoticeTypes DEF Serials
<1>5. /\ \A n \in notices : n.serial = s => n.owed
      /\ \A n \in notices : n.owed /\ n.serial < s =>
           \E j \in 1..Len(rows) : j < 1 /\ rows[j].serial = n.serial
  BY <1>2 DEF Turns, InTurn
<1> HIDE DEF rows, s
<1>6. s \in Waiting \cup Dropped
  <2>1. CASE \E n \in notices : n.serial = s
    BY <1>5, <2>1 DEF Waiting, Owed
  <2>2. CASE \A n \in notices : n.serial # s
    BY <1>4, <2>2 DEF Dropped
  <2> QED
    BY <2>1, <2>2
<1>7. ASSUME NEW t \in Waiting PROVE s <= t
  <2>1. PICK n \in notices : n.owed /\ n.serial = t
    BY DEF Waiting, Owed
  <2>2. ~(n.serial < s)
    BY <1>5, <2>1
  <2>3. n.serial \in Nat /\ s \in Nat
    BY <1>1, <1>3, NoticeTypes
  <2> QED
    BY <2>1, <2>2, <2>3
<1> QED
  BY <1>3, <1>4, <1>6, <1>7 DEF Promise!Turn, rows, s

\* A row that is marked waits no longer, nor does what has the rowid of one that was
\* dropped.
LEMMA MarkStrikes ==
    ASSUME IInv, Turns, NEW d \in Drains, drain[d].rows # <<>>,
           MarkEmailed(Head(drain[d].rows).id), issued' = issued
    PROVE  Promise!Strike(Head(drain[d].rows).serial) /\ Dropped' = Dropped
<1> DEFINE s == Head(drain[d].rows).serial
           id == Head(drain[d].rows).id
<1>1. Typed /\ RowsApart /\ BatchApart
  BY Parts
<1>2. 1 \in 1..Len(drain[d].rows) /\ Head(drain[d].rows) = drain[d].rows[1]
  BY <1>1, HeadTail
<1>3. \A n \in notices : n.serial = s => n.id = id
  BY <1>1, <1>2 DEF BatchApart
<1>4. s \in Waiting \cup Dropped
  BY HeadsTurn DEF Promise!Turn
<1>5. MarkEmailed(id)
  OBVIOUS
<1> HIDE DEF s, id
<1>6. /\ \A r \in notices' : \E n \in notices :
           r.id = n.id /\ r.serial = n.serial /\ (r.owed <=> n.owed /\ n.id # id)
      /\ \A n \in notices : \E r \in notices' :
           r.id = n.id /\ r.serial = n.serial /\ (r.owed <=> n.owed /\ n.id # id)
  BY <1>5, Marked
<1>7. Dropped' = Dropped
  <2>1. ASSUME NEW t, \A n \in notices : n.serial # t
        PROVE  \A r \in notices' : r.serial # t
    BY <1>6, <2>1
  <2>2. ASSUME NEW t, \A r \in notices' : r.serial # t
        PROVE  \A n \in notices : n.serial # t
    BY <1>6, <2>2
  <2> QED
    BY <2>1, <2>2 DEF Dropped
<1>8. \A t : t \in Waiting' <=> \E n \in notices : n.owed /\ n.id # id /\ n.serial = t
  <2> SUFFICES ASSUME NEW t
               PROVE  t \in Waiting' <=> \E n \in notices : n.owed /\ n.id # id /\ n.serial = t
    OBVIOUS
  <2>1. t \in Waiting' <=> \E r \in notices' : r.owed /\ r.serial = t
    BY DEF Waiting, Owed
  <2>2. ASSUME NEW r \in notices', r.owed, r.serial = t
        PROVE  \E n \in notices : n.owed /\ n.id # id /\ n.serial = t
    <3>1. PICK n \in notices :
            r.id = n.id /\ r.serial = n.serial /\ (r.owed <=> n.owed /\ n.id # id)
      BY <1>6
    <3>2. n.owed /\ n.id # id
      BY <2>2, <3>1, Zenon
    <3> QED
      BY <2>2, <3>1, <3>2
  <2>3. ASSUME NEW n \in notices, n.owed, n.id # id, n.serial = t
        PROVE  \E r \in notices' : r.owed /\ r.serial = t
    <3>1. PICK r \in notices' :
            r.id = n.id /\ r.serial = n.serial /\ (r.owed <=> n.owed /\ n.id # id)
      BY <1>6
    <3>2. r.owed
      BY <2>3, <3>1, Zenon
    <3> QED
      BY <2>3, <3>1, <3>2
  <2> QED
    BY <2>1, <2>2, <2>3
<1>9. \A t : t \in Waiting <=> \E n \in notices : n.owed /\ n.serial = t
  BY DEF Waiting, Owed
<1>10. CASE s \in Waiting
  <2>1. PICK m \in notices : m.owed /\ m.serial = s
    BY <1>9, <1>10
  <2>2. m.id = id
    BY <1>3, <2>1
  <2>3. \A n \in notices : n.id = id <=> n.serial = s
    BY <1>1, <1>3, <2>1, <2>2, Zenon DEF RowsApart
  <2>4. Waiting' = Waiting \ {s}
    <3>1. \A t : t \in Waiting' <=> t \in Waiting /\ t # s
      BY <1>8, <1>9, <2>3, Zenon
    <3> QED
      BY <3>1
  <2> QED
    BY <1>7, <1>10, <2>4 DEF Promise!Strike, s
<1>11. CASE s \notin Waiting
  <2>1. s \in Dropped
    BY <1>4, <1>11
  <2>2. CASE \E m \in notices : m.id = id /\ m.owed
    <3>1. PICK m \in notices : m.id = id /\ m.owed
      BY <2>2
    <3>2. \A n \in notices : n.id = id <=> n.serial = m.serial
      BY <1>1, <3>1, Zenon DEF RowsApart
    <3>3. \A t : t \in Waiting' <=> t \in Waiting /\ t # m.serial
      BY <1>8, <1>9, <3>2, Zenon
    <3>4. Waiting' = Waiting \ {m.serial} /\ m.serial \in Waiting
      BY <1>9, <3>1, <3>3
    <3> QED
      BY <1>7, <2>1, <3>4 DEF Promise!Strike, s
  <2>3. CASE \A m \in notices : ~(m.id = id /\ m.owed)
    <3>1. \A t : t \in Waiting' <=> t \in Waiting
      BY <1>8, <1>9, <2>3, Zenon
    <3>2. Waiting' = Waiting \ {s}
      BY <1>11, <3>1
    <3> QED
      BY <1>7, <2>1, <3>2 DEF Promise!Strike, s
  <2> QED
    BY <2>2, <2>3, Zenon
<1> QED
  BY <1>10, <1>11

\* The outbox as Outbox sees it stands still when the table and its counter do.
LEMMA Standing ==
    ASSUME notices' = notices, issued' = issued
    PROVE  Waiting' = Waiting /\ Dropped' = Dropped
  BY DEF Waiting, Owed, Dropped

\* A run that leaves drainNotifications, begins it, or goes on without a word to
\* the mail server, keeps the turns; what failed is a trouble of the outbox.
LEMMA QuietDrain ==
    ASSUME IInv, Turns,
           notices' = notices, issued' = issued, mailed' = mailed, skipped' = skipped,
           faults' = faults \/ faults' = faults + 1,
           \A e \in Drains : Stays(e)
    PROVE  Turns' /\ [Promise!OutboxNext]_(Promise!outboxVars)
<1>1. Turns'
  BY QuietTurns
<1>2. Waiting' = Waiting /\ Dropped' = Dropped
  BY Standing
<1>3. CASE faults' = faults
  BY <1>1, <1>2, <1>3 DEF Promise!outboxVars
<1>4. CASE faults' = faults + 1
  BY <1>1, <1>2, <1>4 DEF Promise!OutboxNext, Promise!Trouble
<1> QED
  BY <1>3, <1>4

\* The answer of the mail server is a Send: it was the turn of the row, and it was
\* not sent more often than there was trouble.
LEMMA AcceptSends ==
    ASSUME IInv, Turns, NEW d \in Drains, Accept(d)
    PROVE  Promise!OutboxNext
<1> DEFINE s == Head(drain[d].rows).serial
<1>1. drain[d].rows # <<>> /\ ~drain[d].accepted
  BY Parts DEF Accept, Typed, SendingHasRow
<1>2. s \in 1..issued /\ Promise!Turn(s)
  BY <1>1, HeadsTurn
<1>3. /\ 1 \in 1..Len(drain[d].rows) /\ Head(drain[d].rows) = drain[d].rows[1]
  BY <1>1, Parts, HeadTail
<1>4. mailed[s] <= faults
  BY <1>1, <1>3, Parts DEF AgainByFault
<1>5. /\ mailed' = [mailed EXCEPT ![s] = @ + 1]
      /\ notices' = notices /\ issued' = issued /\ skipped' = skipped /\ faults' = faults
  BY DEF Accept
<1>6. Waiting' = Waiting /\ Dropped' = Dropped
  BY <1>5, Standing
<1> HIDE DEF s
<1>7. Promise!Send(s)
  BY <1>2, <1>4, <1>5, <1>6 DEF Promise!Send
<1> QED
  BY <1>2, <1>7 DEF Promise!OutboxNext

\* markEmailed after the answer, and for a disabled account.
LEMMA MarkSettles ==
    ASSUME IInv, Turns, NEW d \in Drains, SkipRow(d) \/ SendResolves(d)
    PROVE  Turns' /\ Promise!OutboxNext
<1> DEFINE s == Head(drain[d].rows).serial
<1>1. Typed /\ HoldsWhileRunning /\ drain[d] \in DrainState
  BY Parts DEF Typed, TypeOK
<1>2. /\ Active(d) /\ drain[d].rows # <<>> /\ MarkEmailed(Head(drain[d].rows).id)
      /\ issued' = issued /\ mailed' = mailed /\ faults' = faults
  BY <1>1 DEF SkipRow, SendResolves, Active, Typed, SendingHasRow
<1>3. /\ drain'[d].rows = Tail(drain[d].rows) /\ drain'[d].accepted = FALSE
      /\ \A e \in Drains \ {d} : drain'[e] = drain[e]
  <2>1. CASE SkipRow(d)
    <3>1. ~drain[d].accepted /\ drain[d].accepted \in BOOLEAN
      BY <1>1, <2>1 DEF SkipRow, HoldsWhileRunning, DrainState
    <3>2. /\ drain'[d].rows = Tail(drain[d].rows) /\ drain'[d].accepted = drain[d].accepted
          /\ \A e \in Drains \ {d} : drain'[e] = drain[e]
      BY <1>1, <2>1 DEF SkipRow, Typed, TypeOK, DrainState
    <3> QED
      BY <3>1, <3>2
  <2>2. CASE SendResolves(d)
    BY <1>1, <2>2 DEF SendResolves, Typed, TypeOK, DrainState
  <2> QED
    BY <2>1, <2>2
<1>4. Turns'
  BY <1>2, <1>3, MarkTurns DEF Marks
<1>5. s \in 1..issued /\ Promise!Turn(s)
  BY <1>2, HeadsTurn
<1>6. Promise!Strike(s) /\ Dropped' = Dropped
  BY <1>2, MarkStrikes
<1>7. CASE SendResolves(d)
  <2>1. skipped' = skipped /\ mailed[s] > 0
    BY <1>7 DEF SendResolves, Turns, AnsweredIsSent
  <2> HIDE DEF s
  <2>2. Promise!Settle(s)
    BY <1>2, <1>5, <1>6, <2>1 DEF Promise!Settle
  <2> QED
    BY <1>4, <1>5, <2>2 DEF Promise!OutboxNext
<1>8. CASE SkipRow(d)
  <2>1. skipped' = skipped \cup {s}
    BY <1>8 DEF SkipRow
  <2> HIDE DEF s
  <2>2. Promise!Excuse(s)
    BY <1>2, <1>5, <1>6, <2>1 DEF Promise!Excuse
  <2> QED
    BY <1>4, <1>5, <2>2 DEF Promise!OutboxNext
<1> QED
  BY <1>7, <1>8

\* Every step of a drain is a step of the outbox, or none.
LEMMA DrainerPromise ==
    ASSUME IInv, Turns, NEW d \in Drains, DrainStep(d) \/ SendFails(d) \/ DrainThrows(d)
    PROVE  Turns' /\ [Promise!OutboxNext]_(Promise!outboxVars)
<1>1. Typed /\ drain[d] \in DrainState
  BY Parts DEF Typed, TypeOK
<1>2. CASE RunKick(d)
  <2>1. /\ notices' = notices /\ issued' = issued /\ mailed' = mailed /\ skipped' = skipped
        /\ faults' = faults
        /\ drain' = drain \/ drain' = [drain EXCEPT ![d] = [Idle EXCEPT !.pc = "list"]]
    BY <1>2 DEF RunKick
  <2>2. \A e \in Drains : Stays(e)
    <3>1. CASE drain' = drain
      BY <3>1 DEF Stays
    <3>2. CASE drain' = [drain EXCEPT ![d] = [Idle EXCEPT !.pc = "list"]]
      BY <1>1, <3>2 DEF Stays, Typed, TypeOK, Idle
    <3> QED
      BY <2>1, <3>1, <3>2
  <2> QED
    BY <2>1, <2>2, QuietDrain
<1>3. CASE EndDrain(d) \/ SendRefused(d) \/ SendFails(d) \/ DrainThrows(d)
  <2>1. /\ drain' = [drain EXCEPT ![d] = Idle]
        /\ notices' = notices /\ issued' = issued /\ mailed' = mailed /\ skipped' = skipped
        /\ faults' = faults \/ faults' = faults + 1
    BY <1>3 DEF EndDrain, SendRefused, SendFails, DrainThrows, Leave
  <2>2. \A e \in Drains : Stays(e)
    BY <1>1, <2>1 DEF Stays, Typed, TypeOK, Idle
  <2> QED
    BY <2>1, <2>2, QuietDrain
<1>4. CASE StartSend(d) \/ EndBatch(d)
  <2>1. /\ notices' = notices /\ issued' = issued /\ mailed' = mailed /\ skipped' = skipped
        /\ faults' = faults
    BY <1>4 DEF StartSend, EndBatch
  <2>2. PICK pc \in {"list", "sending"} :
          drain' = [drain EXCEPT ![d] = [drain[d] EXCEPT !.pc = pc]]
    BY <1>4 DEF StartSend, EndBatch
  <2>3. \A e \in Drains : Stays(e)
    BY <1>1, <2>2 DEF Stays, Typed, TypeOK, DrainState
  <2> QED
    BY <2>1, <2>3, QuietDrain
<1>5. CASE ListBatch(d)
  <2>1. /\ notices' = notices /\ issued' = issued /\ mailed' = mailed /\ skipped' = skipped
        /\ faults' = faults
    BY <1>5 DEF ListBatch
  <2>2. Waiting' = Waiting /\ Dropped' = Dropped
    BY <2>1, Standing
  <2>3. UNCHANGED Promise!outboxVars
    BY <2>1, <2>2 DEF Promise!outboxVars
  <2> QED
    BY <1>5, <2>3, ListTurns
<1>6. CASE SkipRow(d) \/ SendResolves(d)
  BY <1>6, MarkSettles
<1>7. CASE Accept(d)
  BY <1>7, AcceptTurns, AcceptSends
<1> QED
  BY <1>2, <1>3, <1>4, <1>5, <1>6, <1>7 DEF DrainStep

\* The rows of a deleted project are dropped, and nothing else.
LEMMA PurgeDrops ==
    ASSUME IInv, Turns, NEW p \in Projects, Purge(p)
    PROVE  Turns' /\ Promise!OutboxNext
<1> DEFINE gone == {n \in notices : n.project = p}
           S == {n.serial : n \in gone}
<1>1. Typed /\ RowsApart
  BY Parts
<1>2. /\ notices' = {n \in notices : n.project # p} /\ drain' = drain
      /\ issued' = issued /\ mailed' = mailed /\ skipped' = skipped /\ faults' = faults
  BY DEF Purge
<1>3. Turns'
  BY <1>2, QuietTurns DEF Stays
<1>4. \A n, m \in notices : n.serial = m.serial => n = m
  BY <1>1 DEF RowsApart
<1>5. \A n \in notices : n.serial \in 1..issued
  BY <1>1, NoticeTypes DEF Serials, RowsApart
<1>6. S \in SUBSET (1..issued)
  BY <1>5
<1>7. Waiting' = Waiting \ S
  <2>1. ASSUME NEW t \in Waiting' PROVE t \in Waiting \ S
    <3>1. PICK n \in notices' : n.owed /\ t = n.serial
      BY DEF Waiting, Owed
    <3> QED
      BY <1>2, <1>4, <3>1 DEF Waiting, Owed
  <2>2. ASSUME NEW t \in Waiting \ S PROVE t \in Waiting'
    <3>1. PICK n \in notices : n.owed /\ t = n.serial
      BY DEF Waiting, Owed
    <3> QED
      BY <1>2, <2>2, <3>1 DEF Waiting, Owed
  <2> QED
    BY <2>1, <2>2
<1>8. Dropped' = Dropped \cup S
  <2>1. ASSUME NEW t \in Dropped' PROVE t \in Dropped \cup S
    BY <1>2, <2>1 DEF Dropped
  <2>2. ASSUME NEW t \in Dropped PROVE t \in Dropped'
    BY <1>2, <2>2 DEF Dropped
  <2>3. ASSUME NEW t \in S PROVE t \in Dropped'
    <3>1. PICK n \in gone : t = n.serial
      OBVIOUS
    <3> QED
      BY <1>2, <1>4, <1>5, <3>1 DEF Dropped
  <2> QED
    BY <2>1, <2>2, <2>3
<1> HIDE DEF S
<1>9. Promise!Drop(S)
  BY <1>2, <1>7, <1>8 DEF Promise!Drop
<1> QED
  BY <1>3, <1>6, <1>9 DEF Promise!OutboxNext

\* An issue event posts as many notices as it has recipients.
LEMMA MutatePosts ==
    ASSUME IInv, Turns, NEW p \in Projects, NEW r \in Recipients, Mutate(p, r)
    PROVE  Turns' /\ [Promise!OutboxNext]_(Promise!outboxVars)
<1>1. /\ Turns'
      /\ Waiting' = Waiting \cup (issued + 1)..(issued + Len(r)) /\ Dropped' = Dropped
      /\ Len(r) \in Nat /\ issued' = issued + Len(r) /\ issued' <= MaxNotices
      /\ mailed' = mailed /\ skipped' = skipped /\ faults' = faults
  BY MutateTurns
<1>2. issued \in Nat /\ MaxNotices \in Nat
  BY DrainAssumption, Parts, NoticeTypes
<1>3. CASE Len(r) = 0
  <2>1. (issued + 1)..(issued + Len(r)) = {}
    BY <1>2, <1>3
  <2>2. Waiting' = Waiting /\ issued' = issued
    BY <1>1, <1>2, <1>3, <2>1
  <2> QED
    BY <1>1, <2>2 DEF Promise!outboxVars
<1>4. CASE Len(r) # 0
  <2>1. Len(r) \in 1..MaxNotices
    BY <1>1, <1>2, <1>4
  <2>2. Promise!Post(Len(r))
    BY <1>1 DEF Promise!Post
  <2> QED
    BY <1>1, <2>1, <2>2 DEF Promise!OutboxNext
<1> QED
  BY <1>3, <1>4

\* Every step of the drain, and of what runs beside it, is a step of the outbox, or
\* none.
LEMMA PromiseStep ==
    ASSUME IInv, Turns, [Next]_vars
    PROVE  Turns' /\ [Promise!OutboxNext]_(Promise!outboxVars)
<1>1. ASSUME NEW p \in Projects, NEW r \in Recipients, Mutate(p, r)
      PROVE  Turns' /\ [Promise!OutboxNext]_(Promise!outboxVars)
  BY <1>1, MutatePosts
<1>2. ASSUME NEW d \in Drains, DrainStep(d) \/ SendFails(d) \/ DrainThrows(d)
      PROVE  Turns' /\ [Promise!OutboxNext]_(Promise!outboxVars)
  BY <1>2, DrainerPromise
<1>3. ASSUME NEW p \in Projects, Purge(p)
      PROVE  Turns' /\ [Promise!OutboxNext]_(Promise!outboxVars)
  BY <1>3, PurgeDrops
<1>4. CASE Crash
  <2>1. /\ notices' = notices /\ issued' = issued /\ mailed' = mailed /\ skipped' = skipped
        /\ faults' = faults + 1
        /\ \A e \in Drains : Stays(e)
    BY <1>4 DEF Crash, Stays, Idle
  <2> QED
    BY <2>1, QuietDrain
<1>5. ASSUME drain' = drain, notices' = notices, issued' = issued, mailed' = mailed,
             skipped' = skipped, faults' = faults
      PROVE  Turns' /\ [Promise!OutboxNext]_(Promise!outboxVars)
  <2>1. \A e \in Drains : Stays(e)
    BY <1>5 DEF Stays
  <2> QED
    BY <1>5, <2>1, QuietDrain
<1>6. ASSUME NEW u \in Users, NEW off \in BOOLEAN, SetDisabled(u, off)
      PROVE  Turns' /\ [Promise!OutboxNext]_(Promise!outboxVars)
  BY <1>5, <1>6 DEF SetDisabled
<1>7. CASE FeedFetch \/ Boot \/ UNCHANGED vars
  <2>1. /\ drain' = drain /\ notices' = notices /\ issued' = issued /\ mailed' = mailed
        /\ skipped' = skipped /\ faults' = faults
    BY <1>7 DEF FeedFetch, Boot, vars
  <2> QED
    BY <1>5, <2>1
<1> QED
  BY <1>1, <1>2, <1>3, <1>4, <1>6, <1>7 DEF Next

LEMMA PromiseInit == Init => Turns /\ Promise!OutboxInit
<1> SUFFICES ASSUME Init PROVE Turns /\ Promise!OutboxInit
  OBVIOUS
<1>1. /\ notices = {} /\ issued = 0 /\ faults = 0 /\ skipped = {}
      /\ mailed = [s \in 1..MaxNotices |-> 0]
      /\ \A d \in Drains : drain[d].rows = <<>> /\ drain[d].accepted = FALSE
  BY DEF Init, Idle, Serials
<1>2. Turns
  BY <1>1 DEF Turns, SameOrder, InTurn, AnsweredIsSent
<1>3. Waiting = {} /\ Dropped = {}
  BY <1>1 DEF Waiting, Owed, Dropped
<1> QED
  BY <1>1, <1>2, <1>3 DEF Promise!OutboxInit

\* The drain, the crashes and failures it goes through, the issue events and the
\* hard-deletes beside it are an outbox: notices are sent in their turn, never again
\* without a trouble of its own, and done with only when sent or excused.
THEOREM IsAnOutbox == Spec => ImplementsOutbox
<1>1. IInv /\ Turns /\ [Next]_vars =>
        (IInv /\ Turns)' /\ [Promise!OutboxNext]_(Promise!outboxVars)
  BY InvStep, PromiseStep
<1>2. Init => IInv /\ Turns /\ Promise!OutboxInit
  BY InvInit, PromiseInit
<1> QED
  BY <1>1, <1>2, PTL DEF Spec, ImplementsOutbox, Promise!OutboxSpec
=============================================================================
