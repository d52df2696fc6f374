------------------------- MODULE ConnectionNotices -------------------------
(***************************************************************************)
(* The `connected` property of every transport: who sets it reports a lost *)
(* or restored connection through a queue that is emptied when no lock is  *)
(* held, and a marker file carries an unanswered "lost" to the next run.   *)
(***************************************************************************)
EXTENDS Naturals, Sequences, SequencesExt

CONSTANTS
    Setters,       \* threads that assign `connected` of this transport
    MayHold,       \* TRUE: an assignment may be made within _notices_held()
    CrashesMidway, \* TRUE: the process may die while a notice is on its way
    MaxChanges     \* bound: changes of the connection

ASSUME NoticesAssumption ==
    MaxChanges \in Nat /\ {MayHold, CrashesMidway} \subseteq BOOLEAN

VARIABLES
    link,          \* _connected
    everUp,        \* _ever_connected
    setter,        \* where each setter is
    noticing,      \* what it has to report
    wasEverUp,     \* its was_ever_connected
    holding,       \* TRUE: it is within _notices_held()
    pendingNotices,\* _pending_notices
    marker,        \* TRUE: the .disconnected file exists
    told,          \* history: the last notice sent by this run
    owed,          \* history: a "lost" was sent, by any run, and no "restored" since
    changes        \* counts what MaxChanges bounds

noticeVars == <<link, everUp, setter, noticing, wasEverUp, holding,
                pendingNotices, marker, told, owed, changes>>

Notices == {"lost", "restored"}

NoticesInit ==
    /\ link = FALSE /\ everUp = FALSE /\ pendingNotices = <<>> /\ marker = FALSE
    /\ setter = [s \in Setters |-> "idle"] /\ noticing = [s \in Setters |-> "lost"]
    /\ wasEverUp = [s \in Setters |-> FALSE] /\ holding = [s \in Setters |-> FALSE]
    /\ told = "none" /\ owed = FALSE /\ changes = 0

At(s, here, there) == setter[s] = here /\ setter' = [setter EXCEPT ![s] = there]

----------------------------------------------------------------------------
(* The setter, under _conn_state_lock. Only a change goes on.              *)

Change(s) ==
    /\ changes < MaxChanges /\ changes' = changes + 1
    /\ link' = ~link /\ everUp' = TRUE
    /\ wasEverUp' = [wasEverUp EXCEPT ![s] = everUp]
    /\ noticing' = [noticing EXCEPT ![s] = IF link THEN "lost" ELSE "restored"]

SetConnected(s, held) ==
    /\ At(s, "idle", "notice")
    /\ Change(s)
    /\ holding' = [holding EXCEPT ![s] = held]
    /\ UNCHANGED <<pendingNotices, marker, told, owed>>

(* What follows runs outside the lock.                                     *)

\* The first connection of a run is reported only if a marker waits for it.
QueueRestored(s) ==
    /\ noticing[s] = "restored"
    /\ marker' = FALSE
    /\ IF wasEverUp[s] \/ marker
          THEN /\ At(s, "notice", IF holding[s] THEN "release" ELSE "deliver")
               /\ pendingNotices' = Append(pendingNotices, "restored")
          ELSE /\ At(s, "notice", IF holding[s] THEN "release" ELSE "idle")
               /\ UNCHANGED pendingNotices
    /\ UNCHANGED <<link, everUp, noticing, wasEverUp, holding, told, owed, changes>>

QueueLost(s) ==
    /\ noticing[s] = "lost"
    /\ At(s, "notice", IF holding[s] THEN "mark" ELSE "deliver")
    /\ pendingNotices' = Append(pendingNotices, "lost")
    /\ UNCHANGED <<link, everUp, noticing, wasEverUp, holding, marker, told, owed, changes>>

\* Mutant of Sent: the latest notice first.
SentLatest ==
    /\ told' = pendingNotices[Len(pendingNotices)]
    /\ pendingNotices' = SubSeq(pendingNotices, 1, Len(pendingNotices) - 1)

\* One turn of the loop: the oldest notice is popped and sent.
Sent == told' = Head(pendingNotices) /\ pendingNotices' = Tail(pendingNotices)

\* _deliver_pending_notices(), until none is left.
Deliver(s) ==
    /\ setter[s] = "deliver"
    /\ IF pendingNotices = <<>>
          THEN /\ setter' = [setter EXCEPT ![s] =
                                IF noticing[s] = "lost" /\ ~holding[s] THEN "mark" ELSE "idle"]
               /\ UNCHANGED <<pendingNotices, told, owed>>
          ELSE Sent /\ owed' = (told' = "lost") /\ UNCHANGED setter
    /\ UNCHANGED <<link, everUp, noticing, wasEverUp, holding, marker, changes>>

\* _mark_disconnect_alert_sent()
Mark(s) ==
    /\ At(s, "mark", IF holding[s] THEN "release" ELSE "idle")
    /\ marker' = TRUE
    /\ UNCHANGED <<link, everUp, noticing, wasEverUp, holding, pendingNotices, told, owed, changes>>

\* Within _notices_held() `connected` may change again, or the region ends and
\* what it has queued is sent.
Release(s) ==
    /\ \/ At(s, "release", "deliver")
          /\ UNCHANGED <<link, everUp, noticing, wasEverUp, changes>>
       \/ At(s, "release", "notice") /\ Change(s)
    /\ UNCHANGED <<holding, pendingNotices, marker, told, owed>>

----------------------------------------------------------------------------
NobodySets == \A s \in Setters : setter[s] = "idle"

\* prepare_for_reload(): the transport of the next gateway counts as connected
\* before; its predecessor's cleanup() has set `connected` to False.
Reload ==
    /\ NobodySets /\ ~link /\ ~everUp
    /\ everUp' = TRUE
    /\ UNCHANGED <<link, setter, noticing, wasEverUp, holding, pendingNotices, marker,
                   told, owed, changes>>

\* The process ends and starts again: the marker is all that is left.
Restart ==
    /\ CrashesMidway \/ NobodySets
    /\ link' = FALSE /\ everUp' = FALSE /\ pendingNotices' = <<>> /\ told' = "none"
    /\ setter' = [s \in Setters |-> "idle"] /\ noticing' = [s \in Setters |-> "lost"]
    /\ wasEverUp' = [s \in Setters |-> FALSE] /\ holding' = [s \in Setters |-> FALSE]
    /\ UNCHANGED <<marker, owed, changes>>

NoticesNext ==
    \/ \E s \in Setters :
          \/ \E held \in {MayHold, FALSE} : SetConnected(s, held)
          \/ QueueRestored(s) \/ QueueLost(s) \/ Deliver(s) \/ Mark(s) \/ Release(s)
    \/ Reload \/ Restart

NoticesSpec == NoticesInit /\ [][NoticesNext]_noticeVars

----------------------------------------------------------------------------
(* Properties.                                                             *)

\* The shape of the state; no more than one notice per change ever waits.
NoticesTypeOK ==
    /\ {link, everUp, marker, owed} \subseteq BOOLEAN
    /\ setter \in [Setters -> {"idle", "notice", "deliver", "mark", "release"}]
    /\ noticing \in [Setters -> Notices]
    /\ {wasEverUp, holding} \subseteq [Setters -> BOOLEAN]
    /\ ToSet(pendingNotices) \subseteq Notices /\ Len(pendingNotices) <= changes
    /\ told \in Notices \cup {"none"} /\ changes \in 0..MaxChanges

Quiet == NobodySets /\ pendingNotices = <<>>

\* When nothing is on its way, the last notice the operator got says what the
\* connection is: _queue_notice() and _deliver_pending_notices() keep the order.
LastNoticeIsTrue ==
    Quiet => /\ link => told # "lost"
             /\ ~link /\ everUp => told # "restored"

\* A reported outage is answered when the connection is back, over restarts and
\* reloads too, and no marker is left to answer it twice.
OutageIsAnswered == Quiet /\ link => ~owed /\ ~marker
\* The two together.
NoticesAreTrue == LastNoticeIsTrue /\ OutageIsAnswered
=============================================================================
