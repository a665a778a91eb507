------------------------------- MODULE Outbox -------------------------------
(***************************************************************************)
(* What the outbox of notifications promises to those who are told of an   *)
(* event: their notices are sent in the order of the events, each at least *)
(* once and at most once more than there was trouble, and none again that  *)
(* is done with.  A notice is done with only when it was sent or its       *)
(* account was excused.                                                    *)
(*                                                                         *)
(* There is one exception.  A notice whose project is deleted is dropped,  *)
(* and may still be sent by a drain that has it in its hands; when such a  *)
(* drain is done with it, a later notice that has taken its row may be     *)
(* lost with it.                                                           *)
(***************************************************************************)
EXTENDS Naturals

CONSTANT MaxNotices    \* bound: notices ever posted

VARIABLES
    posted,      \* how many notices were posted; they are numbered from 1
    waiting,     \* the notices that are still owed
    sent,        \* how often each was sent
    excused,     \* those of disabled accounts, which need not be sent
    dropped,     \* those whose project was deleted
    troubles     \* crashes and failures so far

outboxVars == <<posted, waiting, sent, excused, dropped, troubles>>

OutboxInit ==
    /\ posted = 0 /\ troubles = 0
    /\ waiting = {} /\ excused = {} /\ dropped = {}
    /\ sent = [s \in 1..MaxNotices |-> 0]

\* An event of which k accounts are told.
Post(k) ==
    /\ posted + k <= MaxNotices
    /\ posted' = posted + k
    /\ waiting' = waiting \cup (posted + 1)..(posted + k)
    /\ UNCHANGED <<sent, excused, dropped, troubles>>

\* It is the turn of s: no earlier notice waits.
Turn(s) ==
    /\ s \in waiting \cup dropped
    /\ \A t \in waiting : s <= t

Send(s) ==
    /\ Turn(s)
    /\ sent[s] <= troubles
    /\ sent' = [sent EXCEPT ![s] = @ + 1]
    /\ UNCHANGED <<posted, waiting, excused, dropped, troubles>>

\* s waits no longer, or, when it was dropped, perhaps a later one instead.
Strike(s) ==
    \/ s \in waiting /\ waiting' = waiting \ {s}
    \/ s \in dropped /\ \E t \in waiting \cup {s} : waiting' = waiting \ {t}

\* s is done with, since it was sent ...
Settle(s) ==
    /\ Turn(s)
    /\ sent[s] > 0
    /\ Strike(s)
    /\ UNCHANGED <<posted, sent, excused, dropped, troubles>>

\* ... or need not be sent.
Excuse(s) ==
    /\ Turn(s)
    /\ Strike(s)
    /\ excused' = excused \cup {s}
    /\ UNCHANGED <<posted, sent, dropped, troubles>>

Trouble ==
    /\ troubles' = troubles + 1
    /\ UNCHANGED <<posted, waiting, sent, excused, dropped>>

\* The project of the notices in S is deleted.
Drop(S) ==
    /\ waiting' = waiting \ S
    /\ dropped' = dropped \cup S
    /\ UNCHANGED <<posted, sent, excused, troubles>>

OutboxNext ==
    \/ \E k \in 1..MaxNotices : Post(k)
    \/ \E s \in 1..posted : Send(s) \/ Settle(s) \/ Excuse(s)
    \/ Trouble
    \/ \E S \in SUBSET (1..posted) : Drop(S)

OutboxSpec == OutboxInit /\ [][OutboxNext]_outboxVars
=============================================================================
