------------------------- MODULE FlushPipelineProofs -------------------------
(***************************************************************************)
(* Theorems about FlushPipeline, for any readings, bridges and bounds.     *)
(***************************************************************************)
EXTENDS FlushPipeline, FiniteSetTheorems, TLAPS

----------------------------------------------------------------------------
(* The flush queue. *)

\* Taking the head off a queue leaves the rest as it was.
LEMMA TailOfQueue ==
  ASSUME NEW q \in Seq(Items), q # <<>>
  PROVE  /\ Tail(q) \in Seq(Items) /\ Head(q) \in Items /\ Head(q) = q[1]
         /\ 1 \in DOMAIN q
         /\ \A i \in DOMAIN Tail(q) : i + 1 \in DOMAIN q /\ Tail(q)[i] = q[i + 1]
         /\ \A i \in DOMAIN q : i # 1 => i - 1 \in DOMAIN Tail(q) /\ Tail(q)[i - 1] = q[i]
  OBVIOUS

\* Adding at the end keeps what was there, the head included.
LEMMA ConcatQueue ==
  ASSUME NEW q \in Seq(Items), NEW t \in Seq(Items)
  PROVE  /\ q \o t \in Seq(Items)
         /\ \A i \in DOMAIN q : i \in DOMAIN (q \o t) /\ (q \o t)[i] = q[i]
         /\ \A i \in DOMAIN (q \o t) :
               \/ i \in DOMAIN q
               \/ i - Len(q) \in DOMAIN t /\ (q \o t)[i] = t[i - Len(q)]
         /\ q # <<>> => q \o t # <<>> /\ Head(q \o t) = Head(q)
  OBVIOUS

LEMMA AppendQueue ==
  ASSUME NEW q \in Seq(Items), NEW e \in Items
  PROVE  /\ Append(q, e) \in Seq(Items) /\ Append(q, e) # <<>>
         /\ \A i \in DOMAIN q : i \in DOMAIN Append(q, e) /\ Append(q, e)[i] = q[i]
         /\ \A i \in DOMAIN Append(q, e) : i \in DOMAIN q \/ Append(q, e)[i] = e
         /\ q # <<>> => Head(Append(q, e)) = Head(q)
  OBVIOUS

\* replay_to_queue() adds copies of journalled readings, marked as replayed.
ReplayAdds(b, t) ==
    /\ t \in Seq(Items)
    /\ \A i \in DOMAIN t : t[i].point \in mem[b] /\ t[i].replayed
    /\ queue' = [queue EXCEPT ![b] = @ \o t]

LEMMA ReplayTail ==
  ASSUME FlushTypeOK, NEW b \in Bridges, Replay(b)
  PROVE  \E t : ReplayAdds(b, t)
<1>1. PICK s \in [1..Cardinality(Unqueued(b)) -> Unqueued(b)] :
        queue' = [queue EXCEPT ![b] =
            @ \o [i \in DOMAIN s |-> [point |-> s[i], replayed |-> TRUE]]]
  BY DEF Replay
<1>2. mem[b] \subseteq Points /\ Unqueued(b) \subseteq mem[b]
  BY DEF FlushTypeOK, BacklogTypeOK, Unqueued
<1>3. Cardinality(Unqueued(b)) \in Nat
  BY <1>2, BacklogAssumption, FS_Subset, FS_CardinalityType
<1> DEFINE t == [i \in DOMAIN s |-> [point |-> s[i], replayed |-> TRUE]]
<1>4. t \in Seq(Items)
  <2>1. \A i \in DOMAIN s : [point |-> s[i], replayed |-> TRUE] \in Items
    BY <1>2 DEF Items
  <2>2. DOMAIN s = 1..Cardinality(Unqueued(b))
    OBVIOUS
  <2> QED BY <1>3, <2>1, <2>2
<1>5. \A i \in DOMAIN t : t[i].point \in mem[b] /\ t[i].replayed
  BY <1>2
<1> QED BY <1>1, <1>4, <1>5 DEF ReplayAdds

----------------------------------------------------------------------------
(* Type correctness. *)

RecStates == {"off", "waiting", "answered", "flagged", "restoring",
              "broken", "replaying", "ending"}
WorkStates == {"off", "idle", "judge", "gate", "write", "lost", "wrote", "keep", "done"}

\* FlushTypeOK without the queue: what most steps have to show.
PlainTypes ==
    /\ life \in [Bridges -> {"none", "loaded", "built", "live", "retired"}]
    /\ registered \in [Bridges -> BOOLEAN]
    /\ refresh \in [Bridges -> {"off", "sleeping", "joining"}]
    /\ known \in [Bridges -> BOOLEAN] /\ connected \in [Bridges -> BOOLEAN]
    /\ rec \in [Bridges -> RecStates] /\ tries \in [Bridges -> Nat]
    /\ db \in {"up", "down"} /\ stored \subseteq Points /\ offered \subseteq Points
    /\ faults \in [FaultKinds -> Nat]

WorkTypes ==
    /\ queue \in [Bridges -> Seq(Items)]
    /\ phase \in [Bridges -> WorkStates]
    /\ \A b \in Bridges : phase[b] \notin {"off", "idle"} => queue[b] # <<>>

LEMMA TypeParts == FlushTypeOK <=> BacklogTypeOK /\ PlainTypes /\ WorkTypes
  BY DEF FlushTypeOK, PlainTypes, WorkTypes, RecStates, WorkStates

LEMMA TypePartsNext == BacklogTypeOK' /\ PlainTypes' /\ WorkTypes' => FlushTypeOK'
  BY DEF FlushTypeOK, PlainTypes, WorkTypes, RecStates, WorkStates

LEMMA TypeInit == Init => FlushTypeOK
<1> SUFFICES ASSUME Init PROVE BacklogTypeOK /\ PlainTypes /\ WorkTypes
  BY TypeParts
<1> USE DEF Init, WorkInit
<1>1. BacklogTypeOK BY DEF BacklogInit, BacklogTypeOK
<1>2. PlainTypes    BY DEF PlainTypes, RecStates
<1>3. WorkTypes     BY DEF WorkTypes, WorkStates
<1> QED BY <1>1, <1>2, <1>3

\* Every operation of the journal keeps its types.
LEMMA TypeBacklog ==
  ASSUME BacklogTypeOK, NEW b \in Bridges, NEW p \in Points,
         \/ \E e \in SUBSET disk : Load(b, e)
         \/ Enqueue(b, p) \/ EnqueueFails(b, p) \/ MarkInflight(b)
         \/ Ack(b, p) \/ Release(b, p) \/ CommitRows(b) \/ BacklogHalts
         \/ Drop(p) \/ UNCHANGED backlogVars
  PROVE  BacklogTypeOK'
<1> USE DEF BacklogTypeOK
<1>1. Victims(b) \subseteq Points
  BY DEF Victims
<1>2. ASSUME NEW e \in SUBSET disk, Load(b, e) PROVE BacklogTypeOK'
  BY <1>2 DEF Load
<1>3. CASE Enqueue(b, p)      BY <1>1, <1>3 DEF Enqueue
<1>4. CASE EnqueueFails(b, p) BY <1>1, <1>4 DEF EnqueueFails, backlogVars
<1>5. CASE MarkInflight(b)    BY <1>5 DEF MarkInflight, Unqueued
<1>6. CASE Ack(b, p)          BY <1>6 DEF Ack
<1>7. CASE Release(b, p)      BY <1>7 DEF Release
<1>8. CASE CommitRows(b)      BY <1>8 DEF CommitRows
<1>9. CASE BacklogHalts       BY <1>9 DEF BacklogHalts
<1>10. CASE Drop(p)           BY <1>10 DEF Drop
<1>11. CASE UNCHANGED backlogVars BY <1>11 DEF backlogVars
<1> QED BY <1>2, <1>3, <1>4, <1>5, <1>6, <1>7, <1>8, <1>9, <1>10, <1>11

LEMMA TypeMarkInflight ==
  ASSUME BacklogTypeOK, NEW b \in Bridges, MarkInflight(b)
  PROVE  BacklogTypeOK'
  BY DEF MarkInflight, Unqueued, BacklogTypeOK

\* A replay keeps the types of the journal and of the queue.
LEMMA TypeReplay ==
  ASSUME FlushTypeOK, NEW b \in Bridges, NEW ok \in BOOLEAN, MaybeReplay(b, ok),
         UNCHANGED phase
  PROVE  BacklogTypeOK' /\ WorkTypes'
<1> USE TypeParts
<1>1. CASE Replay(b)
  <2>1. BacklogTypeOK'
    BY <1>1, TypeMarkInflight DEF Replay
  <2>2. PICK t : ReplayAdds(b, t)
    BY <1>1, ReplayTail
  <2>3. queue[b] \in Seq(Items) /\ t \in Seq(Items)
    BY <2>2 DEF ReplayAdds, WorkTypes
  <2>4. queue[b] \o t \in Seq(Items) /\ (queue[b] # <<>> => queue[b] \o t # <<>>)
    BY <2>3, ConcatQueue
  <2>5. WorkTypes'
    BY <2>2, <2>4 DEF ReplayAdds, WorkTypes
  <2> QED BY <2>1, <2>5
<1>2. CASE UNCHANGED <<queue, backlogVars>>
  BY <1>2 DEF WorkTypes, BacklogTypeOK, backlogVars
<1> QED BY <1>1, <1>2 DEF MaybeReplay

LEMMA TypeQuietBacklog == BacklogTypeOK /\ UNCHANGED backlogVars => BacklogTypeOK'
  BY DEF BacklogTypeOK, backlogVars

LEMMA TypeProducer ==
  ASSUME FlushTypeOK, NEW b \in Bridges, Producer(b)
  PROVE  FlushTypeOK'
<1> USE TypeParts, TypePartsNext
<1> SUFFICES BacklogTypeOK' /\ PlainTypes' /\ WorkTypes'
  OBVIOUS
<1> USE DEF bridgeVars, recVars, envVars
<1>1. CASE Construct(b)
  <2>1. PlainTypes' /\ WorkTypes'
    BY <1>1 DEF Construct, PlainTypes, WorkTypes
  <2>2. UNCHANGED backlogVars \/ \E e \in SUBSET disk : Load(b, e)
    BY <1>1 DEF Construct, LoadFails
  <2>3. BacklogTypeOK'
    BY <2>2, TypeQuietBacklog DEF Load, BacklogTypeOK
  <2> QED BY <2>1, <2>3
<1>2. CASE ConnectTsdb(b)
  <2>1. BacklogTypeOK'
    BY <1>2, TypeQuietBacklog DEF ConnectTsdb
  <2>2. PlainTypes'
    BY <1>2 DEF ConnectTsdb, PlainTypes
  <2>3. WorkTypes'
    BY <1>2 DEF ConnectTsdb, WorkTypes, WorkStates
  <2> QED BY <2>1, <2>2, <2>3
<1>3. CASE InitBridge(b)
  <2>1. PlainTypes'
    BY <1>3 DEF InitBridge, Register, PlainTypes
  <2>2. CASE Register(b)
    BY <1>3, <2>1, <2>2, TypeReplay DEF InitBridge, Register
  <2>3. CASE UNCHANGED <<backlogVars, registered, refresh, queue>>
    BY <1>3, <2>1, <2>3, TypeQuietBacklog DEF InitBridge, WorkTypes
  <2> QED BY <1>3, <2>2, <2>3 DEF InitBridge
<1>4. CASE Retire(b)
  <2>1. BacklogTypeOK'
    BY <1>4, TypeQuietBacklog DEF Retire
  <2>2. PlainTypes' /\ WorkTypes'
    BY <1>4 DEF Retire, PlainTypes, WorkTypes
  <2> QED BY <2>1, <2>2
<1>5. ASSUME NEW p \in Points, WriteData(b, p)
      PROVE  BacklogTypeOK' /\ PlainTypes' /\ WorkTypes'
  <2>1. PlainTypes'
    BY <1>5 DEF WriteData, PlainTypes
  <2>2. BacklogTypeOK'
    BY <1>5, TypeQuietBacklog DEF WriteData, BacklogTypeOK
  <2> DEFINE e == [point |-> p, replayed |-> FALSE]
  <2>3. Append(queue[b], e) \in Seq(Items) /\ Append(queue[b], e) # <<>>
    <3>1. e \in Items /\ queue[b] \in Seq(Items)
      BY DEF Items, WorkTypes
    <3> QED BY <3>1, AppendQueue
  <2>4. WorkTypes'
    <3>1. CASE UNCHANGED queue
      BY <1>5, <3>1 DEF WriteData, WorkTypes
    <3>2. CASE queue' = [queue EXCEPT ![b] = Append(@, e)]
      BY <1>5, <2>3, <3>2 DEF WriteData, WorkTypes
    <3> QED BY <1>5, <3>1, <3>2 DEF WriteData
  <2> QED BY <2>1, <2>2, <2>4
<1> QED BY <1>1, <1>2, <1>3, <1>4, <1>5 DEF Producer

LEMMA TypeFault ==
  ASSUME PlainTypes, NEW k \in FaultKinds, NEW n, Fault(k, n)
  PROVE  faults' \in [FaultKinds -> Nat]
  BY DEF Fault, PlainTypes

LEMMA TypeTrigger ==
  ASSUME PlainTypes, NEW b \in Bridges, Trigger(b)
  PROVE  connected' \in [Bridges -> BOOLEAN] /\ rec' \in [Bridges -> RecStates]
         /\ tries' \in [Bridges -> Nat]
  BY DEF Trigger, PlainTypes, RecStates

LEMMA TypeWork ==
  ASSUME FlushTypeOK, NEW b \in Bridges, Work(b) \/ CommitAcks(b)
  PROVE  FlushTypeOK'
<1> USE TypeParts, TypePartsNext
<1> SUFFICES BacklogTypeOK' /\ PlainTypes' /\ WorkTypes'
  OBVIOUS
<1> USE DEF bridgeVars, recVars, envVars, GoTo
<1>1. CASE CommitAcks(b)
  BY <1>1 DEF CommitAcks, CommitRows, flushVars, BacklogTypeOK, PlainTypes, WorkTypes
<1>2. CASE Get(b)
  BY <1>2, TypeQuietBacklog DEF Get, PlainTypes, WorkTypes, WorkStates
<1>3. phase[b] \notin {"off", "idle"} => queue[b] # <<>> /\ InHand(b) \in Points
  BY TailOfQueue DEF WorkTypes, InHand, Hand, Items
<1>4. CASE Judge(b)
  <2>1. BacklogTypeOK'
    BY <1>3, <1>4, TypeQuietBacklog DEF Judge, Drop, BacklogTypeOK
  <2>2. PlainTypes' /\ WorkTypes'
    BY <1>3, <1>4 DEF Judge, PlainTypes, WorkTypes, WorkStates
  <2> QED BY <2>1, <2>2
<1>5. CASE Gate(b)
  BY <1>3, <1>5, TypeQuietBacklog DEF Gate, PlainTypes, WorkTypes, WorkStates
<1>6. CASE Write(b)
  <2>1. BacklogTypeOK'
    BY <1>3, <1>6, TypeQuietBacklog
       DEF Write, WriteCommits, WriteRejected, WriteRefused, WriteUnanswered, Drop, BacklogTypeOK
  <2>2. PlainTypes'
    <3>1. faults' \in [FaultKinds -> Nat]
      <4>1. faults' = faults \/ Fault("refusal", MaxRefusals) \/ Fault("outage", MaxOutages)
        BY <1>6 DEF Write, WriteCommits, WriteRejected, WriteRefused, WriteUnanswered
      <4> QED BY <4>1, TypeFault DEF FaultKinds, PlainTypes
    <3>2. db' \in {"up", "down"} /\ stored' \subseteq Points
      BY <1>3, <1>6
         DEF Write, WriteCommits, WriteRejected, WriteRefused, WriteUnanswered, PlainTypes
    <3> QED BY <1>6, <3>1, <3>2 DEF Write, PlainTypes
  <2>3. WorkTypes'
    BY <1>3, <1>6 DEF Write, WriteCommits, WriteRejected, WriteRefused, WriteUnanswered,
                      WorkTypes, WorkStates
  <2> QED BY <2>1, <2>2, <2>3
<1>7. CASE Lost(b)
  <2>1. PlainTypes'
    BY <1>7, TypeTrigger DEF Lost, PlainTypes
  <2> QED BY <1>3, <1>7, <2>1, TypeQuietBacklog DEF Lost, WorkTypes, WorkStates
<1>8. CASE AfterWrite(b)
  <2>1. PlainTypes'
    BY <1>8, TypeTrigger DEF AfterWrite, PlainTypes
  <2> QED BY <1>3, <1>8, <2>1, TypeQuietBacklog DEF AfterWrite, WorkTypes, WorkStates
<1>9. CASE Settle(b)
  <2>1. BacklogTypeOK'
    BY <1>3, <1>9, TypeBacklog DEF Settle
  <2>2. PlainTypes'
    BY <1>9 DEF Settle, PlainTypes
  <2>3. Tail(queue[b]) \in Seq(Items)
    BY <1>3, <1>9, TailOfQueue DEF Settle, WorkTypes
  <2>4. WorkTypes'
    BY <1>9, <2>3 DEF Settle, WorkTypes, WorkStates
  <2> QED BY <2>1, <2>2, <2>4
<1> QED BY <1>1, <1>2, <1>4, <1>5, <1>6, <1>7, <1>8, <1>9 DEF Work

LEMMA TypeReconnect ==
  ASSUME FlushTypeOK, NEW b \in Bridges, Reconnect(b) \/ Refresh(b) \/ Joined(b)
  PROVE  FlushTypeOK'
<1> USE TypeParts, TypePartsNext
<1> SUFFICES BacklogTypeOK' /\ PlainTypes' /\ WorkTypes'
  OBVIOUS
<1> USE DEF bridgeVars, recVars, envVars, Reach
<1>1. CASE Attempt(b) \/ Flag(b) \/ Recheck(b) \/ RediscoverRaised(b) \/ RecEnds(b)
  <2>1. UNCHANGED <<backlogVars, queue, phase>>
    BY <1>1 DEF Attempt, Flag, Recheck, RediscoverRaised, RecEnds
  <2>2. Retry(b) \in {"waiting", "ending"}
    BY DEF Retry
  <2>3. PlainTypes'
    <3>1. CASE Attempt(b)
      <4>1. tries' \in [Bridges -> Nat] /\ connected' \in [Bridges -> BOOLEAN]
        <5>1. tries \in [Bridges -> Nat] /\ connected \in [Bridges -> BOOLEAN]
          BY DEF PlainTypes
        <5>2. tries' = [tries EXCEPT ![b] = IF MaxTries = 0 THEN 0 ELSE tries[b] + 1]
          BY <3>1 DEF Attempt
        <5>3. connected' = connected \/ connected' = [connected EXCEPT ![b] = FALSE]
          BY <3>1 DEF Attempt
        <5>4. tries' \in [Bridges -> Nat]
          BY <5>1, <5>2
        <5> QED BY <5>1, <5>3, <5>4
      <4>2. rec' \in [Bridges -> RecStates]
        BY <2>2, <3>1 DEF Attempt, PlainTypes, RecStates
      <4> QED BY <3>1, <4>1, <4>2 DEF Attempt, PlainTypes
    <3>2. CASE Flag(b) \/ Recheck(b) \/ RediscoverRaised(b) \/ RecEnds(b)
      BY <2>2, <3>2 DEF Flag, Recheck, RediscoverRaised, RecEnds, PlainTypes, RecStates
    <3> QED BY <1>1, <3>1, <3>2
  <2> QED BY <2>1, <2>3, TypeQuietBacklog DEF WorkTypes
<1>2. CASE Rediscover(b)
  <2>1. PlainTypes'
    BY <1>2 DEF Rediscover, Register, PlainTypes, RecStates
  <2>2. CASE Register(b)
    BY <1>2, <2>1, <2>2, TypeReplay DEF Rediscover, Register
  <2>3. CASE UNCHANGED <<backlogVars, registered, refresh, queue>>
    BY <1>2, <2>1, <2>3, TypeQuietBacklog DEF Rediscover, WorkTypes
  <2> QED BY <1>2, <2>2, <2>3 DEF Rediscover
<1>3. CASE ReplayAfterReconnect(b)
  <2>1. PlainTypes'
    BY <1>3 DEF ReplayAfterReconnect, PlainTypes, RecStates
  <2> QED BY <1>3, <2>1, TypeReplay, FlushAssumption DEF ReplayAfterReconnect
<1>4. CASE Refresh(b)
  <2>1. PlainTypes'
    BY <1>4 DEF Refresh, PlainTypes
  <2>2. MaybeReplay(b, TRUE)
    BY <1>4 DEF Refresh, MaybeReplay
  <2> QED BY <1>4, <2>1, <2>2, TypeReplay DEF Refresh
<1>5. CASE Joined(b)
  BY <1>5, TypeQuietBacklog DEF Joined, PlainTypes, WorkTypes
<1> QED BY <1>1, <1>2, <1>3, <1>4, <1>5 DEF Reconnect

LEMMA TypeNext == FlushTypeOK /\ [Next]_vars => FlushTypeOK'
<1> SUFFICES ASSUME FlushTypeOK, [Next]_vars PROVE FlushTypeOK'
  OBVIOUS
<1> USE TypeParts, TypePartsNext DEF bridgeVars, recVars, envVars
<1>1. CASE Crash
  <2>1. BacklogTypeOK'
    BY <1>1 DEF Crash, BacklogHalts, BacklogTypeOK
  <2>2. PlainTypes'
    BY <1>1 DEF Crash, Fault, FaultKinds, PlainTypes, RecStates
  <2>3. WorkTypes'
    BY <1>1 DEF Crash, WorkTypes, WorkStates
  <2> QED BY <2>1, <2>2, <2>3
<1>2. CASE DbDown
  BY <1>2, TypeQuietBacklog DEF DbDown, Fault, FaultKinds, PlainTypes, WorkTypes
<1>3. CASE DbUp
  BY <1>3, TypeQuietBacklog DEF DbUp, PlainTypes, WorkTypes
<1>4. CASE UNCHANGED vars
  BY <1>4, TypeQuietBacklog DEF vars, flushVars, PlainTypes, WorkTypes
<1> QED BY <1>1, <1>2, <1>3, <1>4, TypeProducer, TypeWork, TypeReconnect DEF Next

\* The types declared for the write path hold in every state: in particular
\* the worker never has an item in hand that is not in the queue.
THEOREM TypeCorrect == Spec => []FlushTypeOK
<1> QED BY TypeInit, TypeNext, PTL DEF Spec

----------------------------------------------------------------------------
(* A journalled reading is never lost: JournalKeepsUnwritten.              *)
(* It needs to know that the worker acknowledges only what is settled, and *)
(* that rows of memory and of SQLite were journalled.                      *)

QueueOffered == \A b \in Bridges, p \in Points : InQueue(b, p) => p \in offered
AcksSettled  == \A b \in Bridges : pending[b] \subseteq stored \cup dropped
HandSettled  == \A b \in Bridges :
                    phase[b] \in {"wrote", "done"} => InHand(b) \in stored \cup dropped
RowsNumbered == /\ \A p \in disk : rowid[p] # 0
                /\ \A b \in Bridges : \A p \in mem[b] : rowid[p] # 0
RowsOffered  == \A p \in Points : rowid[p] # 0 => p \in offered

JournalInv ==
    FlushTypeOK /\ QueueOffered /\ AcksSettled /\ HandSettled /\ RowsNumbered /\ RowsOffered
        /\ JournalKeepsUnwritten

\* What each change of the queue does to the readings in it.
LEMMA QueueTail ==
  ASSUME FlushTypeOK, NEW b \in Bridges, queue[b] # <<>>,
         queue' = [queue EXCEPT ![b] = Tail(@)], NEW c \in Bridges, NEW p \in Points
  PROVE  /\ InQueue(c, p)' => InQueue(c, p)
         /\ InQueue(c, p) => InQueue(c, p)' \/ p = InHand(b)
<1>1. queue \in [Bridges -> Seq(Items)]
  BY DEF FlushTypeOK
<1>2. CASE c # b
  BY <1>1, <1>2 DEF InQueue
<1>3. CASE c = b
  <2>1. queue'[b] = Tail(queue[b]) /\ queue[b] \in Seq(Items)
    BY <1>1
  <2>2. InQueue(b, p)' => InQueue(b, p)
    BY <2>1, TailOfQueue DEF InQueue
  <2>3. InQueue(b, p) => InQueue(b, p)' \/ p = InHand(b)
    <3> SUFFICES ASSUME NEW i \in DOMAIN queue[b], queue[b][i].point = p, i # 1
                 PROVE  InQueue(b, p)'
      BY <2>1, TailOfQueue DEF InQueue, InHand, Hand
    <3>1. i - 1 \in DOMAIN Tail(queue[b]) /\ Tail(queue[b])[i - 1] = queue[b][i]
      BY <2>1, TailOfQueue
    <3>2. \E j \in DOMAIN queue'[b] : queue'[b][j].point = p
      BY <2>1, <3>1
    <3> QED BY <3>2 DEF InQueue
  <2> QED BY <1>3, <2>2, <2>3
<1> QED BY <1>2, <1>3

LEMMA QueueReplay ==
  ASSUME FlushTypeOK, NEW b \in Bridges, NEW t, ReplayAdds(b, t),
         NEW c \in Bridges, NEW p \in Points
  PROVE  /\ InQueue(c, p)' => InQueue(c, p) \/ (c = b /\ p \in mem[b])
         /\ InQueue(c, p) => InQueue(c, p)'
         /\ queue[c] # <<>> => InHand(c)' = InHand(c)
<1>1. queue \in [Bridges -> Seq(Items)]
  BY DEF FlushTypeOK
<1>2. CASE c # b
  BY <1>1, <1>2 DEF InQueue, ReplayAdds, InHand, Hand
<1>3. CASE c = b
  <2>1. queue'[b] = queue[b] \o t /\ queue[b] \in Seq(Items) /\ t \in Seq(Items)
    BY <1>1 DEF ReplayAdds
  <2>2. InQueue(b, p)' => InQueue(b, p) \/ p \in mem[b]
    BY <2>1, ConcatQueue DEF InQueue, ReplayAdds
  <2>3. InQueue(b, p) => InQueue(b, p)'
    BY <2>1, ConcatQueue DEF InQueue
  <2>4. queue[b] # <<>> => InHand(b)' = InHand(b)
    BY <2>1, ConcatQueue DEF InHand, Hand
  <2> QED BY <1>3, <2>2, <2>3, <2>4
<1> QED BY <1>2, <1>3

LEMMA QueuePut ==
  ASSUME FlushTypeOK, NEW b \in Bridges, NEW q \in Points,
         queue' = [queue EXCEPT ![b] = Append(@, [point |-> q, replayed |-> FALSE])],
         NEW c \in Bridges, NEW p \in Points
  PROVE  /\ InQueue(c, p)' => InQueue(c, p) \/ p = q
         /\ InQueue(c, p) => InQueue(c, p)'
         /\ InQueue(b, q)'
         /\ queue[c] # <<>> => InHand(c)' = InHand(c)
<1> DEFINE e == [point |-> q, replayed |-> FALSE]
<1>1. queue \in [Bridges -> Seq(Items)] /\ e \in Items
  BY DEF FlushTypeOK, Items
<1>2. queue'[b] = Append(queue[b], e) /\ queue[b] \in Seq(Items)
  BY <1>1
<1>3. InQueue(b, q)'
  BY <1>2 DEF InQueue
<1>4. CASE c # b
  BY <1>1, <1>3, <1>4 DEF InQueue, InHand, Hand
<1>5. CASE c = b
  <2>1. InQueue(b, p)' => InQueue(b, p) \/ p = q
    BY <1>1, <1>2, AppendQueue DEF InQueue
  <2>2. InQueue(b, p) => InQueue(b, p)'
    BY <1>1, <1>2, AppendQueue DEF InQueue
  <2>3. queue[b] # <<>> => InHand(b)' = InHand(b)
    BY <1>1, <1>2, AppendQueue DEF InHand, Hand
  <2> QED BY <1>3, <1>5, <2>1, <2>2, <2>3
<1> QED BY <1>4, <1>5

NoDrift == DriftPoints = {}

LEMMA JournalInit == Init => JournalInv
<1> SUFFICES ASSUME Init PROVE JournalInv
  OBVIOUS
<1> USE DEF Init, WorkInit, BacklogInit
<1>1. QueueOffered BY DEF QueueOffered, InQueue
<1>2. AcksSettled /\ HandSettled BY DEF AcksSettled, HandSettled
<1>3. RowsNumbered /\ RowsOffered /\ JournalKeepsUnwritten
  BY DEF RowsNumbered, RowsOffered, JournalKeepsUnwritten
<1> QED BY <1>1, <1>2, <1>3, TypeInit DEF JournalInv

\* A step that leaves the journal and the queue alone keeps the invariant if
\* the worker calls settled only what is.
LEMMA JournalQuiet ==
  ASSUME JournalInv, FlushTypeOK', UNCHANGED <<backlogVars, queue, offered>>,
         stored \subseteq stored',
         \A b \in Bridges : phase'[b] \in {"wrote", "done"}
             => phase[b] \in {"wrote", "done"} \/ InHand(b) \in stored' \cup dropped
  PROVE  JournalInv'
<1> USE DEF JournalInv, backlogVars
<1>1. QueueOffered' BY DEF QueueOffered, InQueue
<1>2. AcksSettled'  BY DEF AcksSettled
<1>3. HandSettled'  BY DEF HandSettled, InHand, Hand
<1>4. RowsNumbered' /\ RowsOffered' BY DEF RowsNumbered, RowsOffered
<1>5. JournalKeepsUnwritten' BY DEF JournalKeepsUnwritten
<1> QED BY <1>1, <1>2, <1>3, <1>4, <1>5

LEMMA JournalDrop ==
  ASSUME JournalInv, FlushTypeOK', NEW b \in Bridges, Drop(InHand(b)),
         phase' = [phase EXCEPT ![b] = "done"], UNCHANGED <<queue, offered, stored>>
  PROVE  JournalInv'
<1> USE DEF JournalInv, Drop
<1>1. QueueOffered' BY DEF QueueOffered, InQueue
<1>2. AcksSettled'  BY DEF AcksSettled
<1>3. HandSettled'  BY DEF HandSettled, InHand, Hand, FlushTypeOK
<1>4. RowsNumbered' /\ RowsOffered' BY DEF RowsNumbered, RowsOffered
<1>5. JournalKeepsUnwritten' BY DEF JournalKeepsUnwritten
<1> QED BY <1>1, <1>2, <1>3, <1>4, <1>5

LEMMA JournalReplay ==
  ASSUME JournalInv, FlushTypeOK', NEW b \in Bridges, NEW ok \in BOOLEAN, MaybeReplay(b, ok),
         UNCHANGED <<phase, stored, offered>>
  PROVE  JournalInv'
<1>1. CASE UNCHANGED <<queue, backlogVars>>
  BY <1>1, JournalQuiet
<1>2. CASE Replay(b)
  <2>1. PICK t : ReplayAdds(b, t)
    BY <1>2, ReplayTail DEF JournalInv
  <2>2. UNCHANGED <<disk, rowid, lastRow, mem, pending, dropped>>
    BY <1>2 DEF Replay, MarkInflight
  <2>3. mem[b] \subseteq Points
    BY DEF JournalInv, FlushTypeOK, BacklogTypeOK
  <2>4. QueueOffered'
    <3> SUFFICES ASSUME NEW c \in Bridges, NEW p \in Points, InQueue(c, p)'
                 PROVE  p \in offered'
      BY DEF QueueOffered
    <3> QED BY <2>1, QueueReplay DEF JournalInv, QueueOffered, RowsNumbered, RowsOffered
  <2>5. AcksSettled'
    BY <2>2 DEF JournalInv, AcksSettled
  <2>6. HandSettled'
    <3> SUFFICES ASSUME NEW c \in Bridges, phase'[c] \in {"wrote", "done"}
                 PROVE  InHand(c)' \in stored \cup dropped
      BY <2>2 DEF HandSettled
    <3>1. queue[c] # <<>>
      BY DEF JournalInv, FlushTypeOK
    <3>2. InHand(c)' = InHand(c)
      <4>1. ASSUME NEW p \in Points PROVE InHand(c)' = InHand(c)
        BY <2>1, <3>1, <4>1, QueueReplay DEF JournalInv
      <4>2. InHand(c) \in Points
        BY <3>1, TailOfQueue DEF JournalInv, FlushTypeOK, InHand, Hand, Items
      <4> QED BY <4>1, <4>2
    <3> QED BY <3>2 DEF JournalInv, HandSettled
  <2>7. RowsNumbered' /\ RowsOffered' /\ JournalKeepsUnwritten'
    BY <2>2 DEF JournalInv, RowsNumbered, RowsOffered, JournalKeepsUnwritten
  <2> QED BY <2>4, <2>5, <2>6, <2>7 DEF JournalInv
<1> QED BY <1>1, <1>2 DEF MaybeReplay

LEMMA JournalPut ==
  ASSUME JournalInv, FlushTypeOK', NEW b \in Bridges, NEW p \in Points, WriteData(b, p)
  PROVE  JournalInv'
<1>1. UNCHANGED <<phase, stored, disk, rowid, mem, pending>> /\ offered' = offered \cup {p}
  BY DEF WriteData, recVars, backlogVars
<1>2. dropped \subseteq dropped'
  BY DEF WriteData, backlogVars
<1>3. AcksSettled' /\ RowsNumbered' /\ RowsOffered' /\ JournalKeepsUnwritten'
  BY <1>1, <1>2 DEF JournalInv, AcksSettled, RowsNumbered, RowsOffered, JournalKeepsUnwritten
<1>4. CASE UNCHANGED queue
  <2>1. QueueOffered'
    BY <1>1, <1>4 DEF JournalInv, QueueOffered, InQueue
  <2>2. HandSettled'
    BY <1>1, <1>2, <1>4 DEF JournalInv, HandSettled, InHand, Hand
  <2> QED BY <1>3, <2>1, <2>2 DEF JournalInv
<1>5. CASE queue' = [queue EXCEPT ![b] = Append(@, [point |-> p, replayed |-> FALSE])]
  <2>1. QueueOffered'
    <3> SUFFICES ASSUME NEW c \in Bridges, NEW q \in Points, InQueue(c, q)'
                 PROVE  q \in offered'
      BY DEF QueueOffered
    <3> QED BY <1>1, <1>5, QueuePut DEF JournalInv, QueueOffered
  <2>2. HandSettled'
    <3> SUFFICES ASSUME NEW c \in Bridges, phase'[c] \in {"wrote", "done"}
                 PROVE  InHand(c)' \in stored \cup dropped'
      BY <1>1 DEF HandSettled
    <3>1. queue[c] # <<>>
      BY <1>1 DEF JournalInv, FlushTypeOK
    <3>2. InHand(c)' = InHand(c)
      BY <1>5, <3>1, QueuePut DEF JournalInv
    <3> QED BY <1>1, <1>2, <3>2 DEF JournalInv, HandSettled
  <2> QED BY <1>3, <2>1, <2>2 DEF JournalInv
<1> QED BY <1>4, <1>5 DEF WriteData

\* What the journal's own operations owe the invariant.
BacklogKeeps ==
    AcksSettled' /\ RowsNumbered' /\ RowsOffered' /\ JournalKeepsUnwritten' /\ dropped \subseteq dropped'

LEMMA JournalConstruct ==
  ASSUME JournalInv, FlushTypeOK', NEW b \in Bridges, Construct(b)
  PROVE  JournalInv'
<1>1. UNCHANGED <<queue, phase, offered, stored>>
  BY DEF Construct, envVars
<1>2. CASE UNCHANGED backlogVars
  BY <1>1, <1>2, JournalQuiet
<1>3. ASSUME NEW e \in SUBSET disk, Load(b, e) PROVE JournalInv'
  <2>1. BacklogKeeps
    BY <1>1, <1>3 DEF Load, BacklogKeeps, JournalInv, FlushTypeOK, BacklogTypeOK, AcksSettled,
                      RowsNumbered, RowsOffered, JournalKeepsUnwritten
  <2>2. QueueOffered' /\ HandSettled'
    BY <1>1, <2>1 DEF BacklogKeeps, JournalInv, QueueOffered, InQueue, HandSettled, InHand, Hand
  <2> QED BY <2>1, <2>2 DEF JournalInv, BacklogKeeps
<1> QED BY <1>2, <1>3 DEF Construct, LoadFails

LEMMA JournalCommit ==
  ASSUME JournalInv, FlushTypeOK', NEW b \in Bridges, CommitAcks(b)
  PROVE  JournalInv'
<1>1. CommitRows(b) /\ UNCHANGED <<queue, phase, offered, stored>>
  BY DEF CommitAcks, flushVars, envVars
<1>2. BacklogKeeps
  BY <1>1 DEF CommitRows, BacklogKeeps, JournalInv, FlushTypeOK, BacklogTypeOK, AcksSettled,
              RowsNumbered, RowsOffered, JournalKeepsUnwritten
<1>3. QueueOffered' /\ HandSettled'
  BY <1>1, <1>2 DEF BacklogKeeps, JournalInv, QueueOffered, InQueue, HandSettled, InHand, Hand
<1> QED BY <1>2, <1>3 DEF JournalInv, BacklogKeeps

\* Settling the item in hand: acknowledged rows were settled, new rows are on
\* disk, evicted ones were given up.
LEMMA JournalSettle ==
  ASSUME JournalInv, FlushTypeOK', NEW b \in Bridges, Settle(b)
  PROVE  JournalInv'
<1>1. /\ phase' = [phase EXCEPT ![b] = "idle"] /\ queue' = [queue EXCEPT ![b] = Tail(@)]
      /\ UNCHANGED <<offered, stored>>
  BY DEF Settle, envVars, GoTo
<1>2. queue[b] # <<>> /\ InHand(b) \in Points
  BY TailOfQueue DEF Settle, JournalInv, FlushTypeOK, InHand, Hand, Items
<1>3. InHand(b) \in offered
  BY <1>2, TailOfQueue DEF JournalInv, QueueOffered, InQueue, InHand, Hand, FlushTypeOK
<1> USE DEF JournalInv, AcksSettled, RowsNumbered, RowsOffered, JournalKeepsUnwritten,
            FlushTypeOK, BacklogTypeOK
<1>4. BacklogKeeps
  <2>1. CASE phase[b] = "done" /\ Ack(b, InHand(b))
    <3>1. InHand(b) \in stored \cup dropped
      BY <2>1 DEF HandSettled
    <3> QED BY <1>1, <1>2, <2>1, <3>1 DEF Ack, BacklogKeeps
  <2>2. CASE Release(b, InHand(b))
    BY <1>1, <2>2 DEF Release, BacklogKeeps
  <2>3. CASE Enqueue(b, InHand(b))
    <3>1. Victims(b) \subseteq mem[b]
      BY DEF Victims
    <3> QED BY <1>1, <1>2, <1>3, <2>3, <3>1 DEF Enqueue, BacklogKeeps
  <2>4. CASE EnqueueFails(b, InHand(b))
    <3>1. Victims(b) \subseteq mem[b]
      BY DEF Victims
    <3>2. CASE UNCHANGED backlogVars
      BY <1>1, <3>2 DEF BacklogKeeps, backlogVars
    <3>3. CASE UNCHANGED <<rowid, pending>> /\ disk' = disk \ Victims(b)
               /\ dropped' = dropped \cup Victims(b) /\ mem' = [mem EXCEPT ![b] = @ \ Victims(b)]
      BY <1>1, <3>1, <3>3 DEF BacklogKeeps
    <3> QED BY <2>4, <3>2, <3>3 DEF EnqueueFails
  <2>5. CASE UNCHANGED backlogVars
    BY <1>1, <2>5 DEF BacklogKeeps, backlogVars
  <2> QED BY <2>1, <2>2, <2>3, <2>4, <2>5 DEF Settle
<1>5. QueueOffered'
  <2> SUFFICES ASSUME NEW c \in Bridges, NEW p \in Points, InQueue(c, p)' PROVE p \in offered
    BY <1>1 DEF QueueOffered
  <2> QED BY <1>1, <1>2, QueueTail DEF QueueOffered
<1>6. HandSettled'
  BY <1>1, <1>4 DEF BacklogKeeps, HandSettled, InHand, Hand
<1> QED BY <1>4, <1>5, <1>6 DEF BacklogKeeps

LEMMA JournalCrash ==
  ASSUME JournalInv, FlushTypeOK', Crash
  PROVE  JournalInv'
<1> USE DEF JournalInv, Crash, BacklogHalts
<1>1. QueueOffered' BY DEF QueueOffered, InQueue
<1>2. AcksSettled' /\ HandSettled' BY DEF AcksSettled, HandSettled
<1>3. RowsNumbered' /\ RowsOffered' /\ JournalKeepsUnwritten'
  BY DEF RowsNumbered, RowsOffered, JournalKeepsUnwritten
<1> QED BY <1>1, <1>2, <1>3

LEMMA JournalWork ==
  ASSUME NoDrift, JournalInv, FlushTypeOK', NEW b \in Bridges, Work(b)
  PROVE  JournalInv'
<1> USE DEF envVars, GoTo
<1>1. CASE Get(b) \/ Gate(b) \/ Lost(b) \/ AfterWrite(b)
  <2>1. UNCHANGED <<backlogVars, queue, offered, stored>>
    BY <1>1 DEF Get, Gate, Lost, AfterWrite
  <2>2. \A c \in Bridges : phase'[c] \in {"wrote", "done"} => phase[c] \in {"wrote", "done"}
    BY <1>1 DEF Get, Gate, Lost, AfterWrite, JournalInv, FlushTypeOK
  <2> QED BY <2>1, <2>2, JournalQuiet
<1>2. CASE Judge(b)
  <2>1. CASE Drop(InHand(b)) /\ phase' = [phase EXCEPT ![b] = "done"]
    <3>1. UNCHANGED <<queue, offered, stored>>
      BY <1>2 DEF Judge
    <3> QED BY <2>1, <3>1, JournalDrop
  <2>2. CASE UNCHANGED backlogVars /\ phase' = [phase EXCEPT ![b] = "gate"]
    BY <1>2, <2>2, JournalQuiet DEF Judge, JournalInv, FlushTypeOK
  <2> QED BY <1>2, <2>1, <2>2 DEF Judge, NoDrift
<1>3. CASE Write(b)
  <2>1. CASE Drop(InHand(b)) /\ phase' = [phase EXCEPT ![b] = "done"] /\ UNCHANGED stored
    <3>1. UNCHANGED <<queue, offered>>
      BY <1>3 DEF Write
    <3> QED BY <2>1, <3>1, JournalDrop
  <2>2. CASE UNCHANGED backlogVars
    <3>1. \A c \in Bridges : phase'[c] \in {"wrote", "done"}
             => phase[c] \in {"wrote", "done"} \/ InHand(c) \in stored' \cup dropped
      BY <1>3, <2>2 DEF Write, WriteCommits, WriteRejected, WriteRefused, WriteUnanswered,
                        JournalInv, FlushTypeOK, Drop, backlogVars
    <3>2. stored \subseteq stored' /\ UNCHANGED <<queue, offered>>
      BY <1>3 DEF Write, WriteCommits, WriteRejected, WriteRefused, WriteUnanswered
    <3> QED BY <2>2, <3>1, <3>2, JournalQuiet
  <2> QED BY <1>3, <2>1, <2>2
           DEF Write, WriteCommits, WriteRejected, WriteRefused, WriteUnanswered
<1>4. CASE Settle(b)
  BY <1>4, JournalSettle
<1> QED BY <1>1, <1>2, <1>3, <1>4 DEF Work

LEMMA JournalNext ==
  ASSUME NoDrift, JournalInv, [Next]_vars
  PROVE  JournalInv'
<1>1. FlushTypeOK'
  BY TypeNext DEF JournalInv
<1> USE <1>1 DEF envVars, bridgeVars, Reach
<1>2. ASSUME NEW b \in Bridges, Producer(b) PROVE JournalInv'
  <2>1. CASE Construct(b)
    BY <2>1, JournalConstruct
  <2>2. CASE ConnectTsdb(b) \/ Retire(b)
    <3>1. UNCHANGED <<backlogVars, queue, offered, stored>>
      BY <2>2 DEF ConnectTsdb, Retire
    <3>2. \A c \in Bridges : phase'[c] \in {"wrote", "done"} => phase[c] \in {"wrote", "done"}
      BY <2>2 DEF ConnectTsdb, Retire, JournalInv, FlushTypeOK
    <3> QED BY <3>1, <3>2, JournalQuiet
  <2>3. CASE InitBridge(b)
    <3>1. UNCHANGED <<phase, stored, offered>>
      BY <2>3 DEF InitBridge
    <3>2. \E ok \in BOOLEAN : MaybeReplay(b, ok)
      BY <2>3, FlushAssumption DEF InitBridge, Register, MaybeReplay
    <3> QED BY <3>1, <3>2, JournalReplay
  <2>4. ASSUME NEW p \in Points, WriteData(b, p) PROVE JournalInv'
    BY <2>4, JournalPut
  <2> QED BY <1>2, <2>1, <2>2, <2>3, <2>4 DEF Producer
<1>3. ASSUME NEW b \in Bridges, Reconnect(b) \/ Refresh(b) \/ Joined(b) PROVE JournalInv'
  <2>1. UNCHANGED <<phase, stored, offered>>
    BY <1>3 DEF Reconnect, Attempt, Flag, Recheck, Rediscover, RediscoverRaised,
                ReplayAfterReconnect, RecEnds, Refresh, Joined
  <2>2. \E ok \in BOOLEAN : MaybeReplay(b, ok)
    <3>1. CASE Rediscover(b) \/ ReplayAfterReconnect(b) \/ Refresh(b)
      BY <3>1, FlushAssumption DEF Rediscover, Register, ReplayAfterReconnect, Refresh, MaybeReplay
    <3>2. CASE UNCHANGED <<queue, backlogVars>>
      BY <3>2 DEF MaybeReplay
    <3> QED BY <1>3, <3>1, <3>2
            DEF Reconnect, Attempt, Flag, Recheck, RediscoverRaised, RecEnds, Joined
  <2> QED BY <2>1, <2>2, JournalReplay
<1>4. CASE Crash
  BY <1>4, JournalCrash
<1>5. CASE DbDown \/ DbUp \/ UNCHANGED vars
  <2>1. UNCHANGED <<backlogVars, queue, phase, stored, offered>>
    BY <1>5 DEF DbDown, DbUp, vars, flushVars
  <2> QED BY <2>1, JournalQuiet
<1>6. ASSUME NEW b \in Bridges, Work(b) \/ CommitAcks(b) PROVE JournalInv'
  BY <1>6, JournalWork, JournalCommit
<1> QED BY <1>2, <1>3, <1>4, <1>5, <1>6 DEF Next

\* Whatever crashes, outages, evictions, failing files and gateway reloads do,
\* a journalled reading stays in SQLite until it is in the database or given
\* up by a rule, as long as no reading has a metric without a column.
THEOREM JournalNeverLoses == NoDrift /\ Spec => []JournalKeepsUnwritten
<1> SUFFICES ASSUME NoDrift PROVE Spec => []JournalKeepsUnwritten
  OBVIOUS
<1>1. JournalInv /\ [Next]_vars => JournalInv'
  BY JournalNext
<1>2. JournalInv => JournalKeepsUnwritten
  BY DEF JournalInv
<1> QED BY JournalInit, <1>1, <1>2, PTL DEF Spec

----------------------------------------------------------------------------
(* The write path implements DurableStore: a step changes what is stored,  *)
(* given up, journalled or queued only in the ways the fates allow.        *)

Queued(p) == \E b \in Bridges : InQueue(b, p)
Present(p) == p \in disk \cup stored \cup dropped \/ Queued(p)

Move ==
    /\ stored \subseteq stored' /\ dropped \subseteq dropped' /\ offered \subseteq offered'
    /\ disk \subseteq disk' \cup stored' \cup dropped'
    /\ \A p \in Points :
        /\ p \in stored' => Present(p)
        /\ p \in disk' => p \in disk \/ Queued(p)
        /\ p \in dropped' => Present(p) \/ p \notin offered
        /\ Queued(p)' => Present(p) \/ p \notin offered
        /\ p \in offered' => p \in offered \/ Queued(p)' \/ p \in dropped'

LEMMA FateMoves ==
  ASSUME JournalInv, Move
  PROVE  Store!Next /\ DOMAIN fate' = Points
<1>1. ASSUME NEW p \in Points PROVE fate'[p] = fate[p] \/ <<fate[p], fate'[p]>> \in Store!Allowed
  <2> USE DEF Move, Present, Queued, Store!Allowed, fate
  <2>1. CASE p \in stored
    BY <2>1
  <2>2. CASE p \in dropped \ stored
    BY <2>2
  <2>3. CASE p \in disk \ (stored \cup dropped)
    BY <2>3
  <2>4. CASE p \notin disk \cup stored \cup dropped /\ Queued(p)
    <3>1. p \in offered'
      BY <2>4 DEF JournalInv, QueueOffered
    <3> QED BY <2>4, <3>1
  <2>5. CASE ~Present(p)
    BY <2>5
  <2> QED BY <2>1, <2>2, <2>3, <2>4, <2>5
<1> QED BY <1>1 DEF Store!Next, fate

LEMMA MoveQuiet ==
  ASSUME UNCHANGED <<disk, dropped, queue, offered>>, stored \subseteq stored',
         \A p \in stored' \ stored : Queued(p)
  PROVE  Move
  BY DEF Move, Present, Queued, InQueue

\* Readings may be given up that are queued or in the journal.
LEMMA MoveDrop ==
  ASSUME UNCHANGED <<queue, offered, stored>>, dropped \subseteq dropped',
         disk' \subseteq disk, disk \subseteq disk' \cup stored \cup dropped',
         \A p \in dropped' : Present(p)
  PROVE  Move
  BY DEF Move, Present, Queued, InQueue

LEMMA MoveReplay ==
  ASSUME JournalInv, NEW b \in Bridges, NEW ok \in BOOLEAN, MaybeReplay(b, ok),
         UNCHANGED <<stored, offered>>
  PROVE  Move
<1>1. CASE UNCHANGED <<queue, backlogVars>>
  BY <1>1, MoveQuiet DEF backlogVars
<1>2. CASE Replay(b)
  <2>1. PICK t : ReplayAdds(b, t)
    BY <1>2, ReplayTail DEF JournalInv
  <2>2. UNCHANGED <<disk, dropped>>
    BY <1>2 DEF Replay, MarkInflight
  <2>3. ASSUME NEW p \in Points, Queued(p)' PROVE Present(p)
    <3>1. PICK c \in Bridges : InQueue(c, p)'
      BY <2>3 DEF Queued
    <3>2. InQueue(c, p) \/ p \in mem[b]
      BY <2>1, <3>1, QueueReplay DEF JournalInv
    <3> QED BY <3>2 DEF Present, Queued, JournalInv, RowsNumbered, JournalKeepsUnwritten
  <2> QED BY <2>2, <2>3 DEF Move, Present
<1> QED BY <1>1, <1>2 DEF MaybeReplay

LEMMA MovePut ==
  ASSUME JournalInv, NEW b \in Bridges, NEW p \in Points, WriteData(b, p)
  PROVE  Move
<1>1. /\ UNCHANGED <<stored, disk>> /\ offered' = offered \cup {p} /\ p \notin offered
      /\ dropped \subseteq dropped'
  BY DEF WriteData, backlogVars
<1>2. CASE UNCHANGED queue /\ dropped' = dropped \cup {p}
  BY <1>1, <1>2 DEF Move, Present, Queued, InQueue
<1>3. CASE /\ UNCHANGED backlogVars
           /\ queue' = [queue EXCEPT ![b] = Append(@, [point |-> p, replayed |-> FALSE])]
  <2>1. ASSUME NEW q \in Points, Queued(q)' PROVE Queued(q) \/ q = p
    BY <1>3, <2>1, QueuePut DEF JournalInv, Queued
  <2>2. Queued(p)'
    BY <1>3, QueuePut DEF JournalInv, Queued
  <2> QED BY <1>1, <1>3, <2>1, <2>2 DEF Move, Present, backlogVars
<1> QED BY <1>2, <1>3 DEF WriteData

LEMMA MoveSettle ==
  ASSUME JournalInv, NEW b \in Bridges, Settle(b)
  PROVE  Move
<1>1. queue' = [queue EXCEPT ![b] = Tail(@)] /\ UNCHANGED <<offered, stored>>
  BY DEF Settle, envVars
<1>2. queue[b] # <<>> /\ InHand(b) \in Points /\ InQueue(b, InHand(b))
  BY TailOfQueue DEF Settle, JournalInv, FlushTypeOK, InHand, Hand, Items, InQueue
<1>3. ASSUME NEW p \in Points, Queued(p)' PROVE Queued(p)
  BY <1>1, <1>2, <1>3, QueueTail DEF JournalInv, Queued
<1>4. Queued(InHand(b))
  BY <1>2 DEF Queued
<1>5. CASE Ack(b, InHand(b)) \/ Release(b, InHand(b)) \/ UNCHANGED backlogVars
  <2>1. UNCHANGED <<disk, dropped>>
    BY <1>5 DEF Ack, Release, backlogVars
  <2> QED BY <1>1, <1>3, <2>1 DEF Move, Present
<1>6. CASE Enqueue(b, InHand(b)) \/ EnqueueFails(b, InHand(b))
  <2>1. Victims(b) \subseteq disk \cup stored \cup dropped
    BY DEF Victims, JournalInv, RowsNumbered, JournalKeepsUnwritten, FlushTypeOK, BacklogTypeOK
  <2>2. /\ dropped' = dropped \/ dropped' = dropped \cup Victims(b)
        /\ disk \subseteq disk' \cup dropped' /\ disk' \subseteq disk \cup {InHand(b)}
    BY <1>6 DEF Enqueue, EnqueueFails, backlogVars
  <2> QED BY <1>1, <1>2, <1>3, <1>4, <2>1, <2>2 DEF Move, Present
<1> QED BY <1>5, <1>6 DEF Settle

LEMMA MoveNext ==
  ASSUME NoDrift, JournalInv, [Next]_vars
  PROVE  Move
<1> USE DEF envVars, bridgeVars, Reach
<1>1. ASSUME NEW b \in Bridges, Producer(b) PROVE Move
  <2>1. CASE Construct(b)
    <3>1. UNCHANGED <<queue, offered, stored>>
      BY <2>1 DEF Construct
    <3>2. CASE UNCHANGED backlogVars
      BY <3>1, <3>2, MoveQuiet DEF backlogVars
    <3>3. ASSUME NEW e \in SUBSET disk, Load(b, e) PROVE Move
      BY <3>1, <3>3, MoveDrop DEF Load, Present
    <3> QED BY <2>1, <3>2, <3>3 DEF Construct, LoadFails
  <2>2. CASE ConnectTsdb(b) \/ Retire(b)
    BY <2>2, MoveQuiet DEF ConnectTsdb, Retire, backlogVars
  <2>3. CASE InitBridge(b)
    <3>1. \E ok \in BOOLEAN : MaybeReplay(b, ok)
      BY <2>3, FlushAssumption DEF InitBridge, Register, MaybeReplay
    <3> QED BY <2>3, <3>1, MoveReplay DEF InitBridge
  <2>4. ASSUME NEW p \in Points, WriteData(b, p) PROVE Move
    BY <2>4, MovePut
  <2> QED BY <1>1, <2>1, <2>2, <2>3, <2>4 DEF Producer
<1>2. ASSUME NEW b \in Bridges, Reconnect(b) \/ Refresh(b) \/ Joined(b) PROVE Move
  <2>1. UNCHANGED <<stored, offered>>
    BY <1>2 DEF Reconnect, Attempt, Flag, Recheck, Rediscover, RediscoverRaised,
                ReplayAfterReconnect, RecEnds, Refresh, Joined
  <2>2. CASE Rediscover(b) \/ ReplayAfterReconnect(b) \/ Refresh(b)
    <3>1. \E ok \in BOOLEAN : MaybeReplay(b, ok)
      BY <2>2, FlushAssumption DEF Rediscover, Register, ReplayAfterReconnect, Refresh, MaybeReplay
    <3> QED BY <2>1, <3>1, MoveReplay
  <2>3. CASE UNCHANGED <<queue, backlogVars>>
    BY <2>1, <2>3, MoveQuiet DEF backlogVars
  <2> QED BY <1>2, <2>2, <2>3
          DEF Reconnect, Attempt, Flag, Recheck, RediscoverRaised, RecEnds, Joined
<1>3. CASE Crash
  BY <1>3 DEF Crash, BacklogHalts, Move, Present, Queued, InQueue
<1>4. CASE DbDown \/ DbUp \/ UNCHANGED vars
  BY <1>4, MoveQuiet DEF DbDown, DbUp, vars, flushVars, backlogVars
<1>5. ASSUME NEW b \in Bridges, CommitAcks(b) PROVE Move
  <2>1. CommitRows(b) /\ UNCHANGED <<queue, offered, stored>>
    BY <1>5 DEF CommitAcks, flushVars
  <2>2. pending[b] \subseteq stored \cup dropped
    BY DEF JournalInv, AcksSettled
  <2> QED BY <2>1, <2>2, MoveDrop DEF CommitRows, Present
<1>6. ASSUME NEW b \in Bridges, Work(b) PROVE Move
  <2>1. CASE Settle(b)
    BY <2>1, MoveSettle
  <2>2. CASE ~Settle(b)
    <3>1. queue[b] # <<>> => InHand(b) \in Points /\ Queued(InHand(b))
      <4>1. queue[b] # <<>> => InHand(b) \in Points /\ InQueue(b, InHand(b))
        BY TailOfQueue DEF JournalInv, FlushTypeOK, InHand, Hand, Items, InQueue
      <4> QED BY <4>1 DEF Queued
    <3>2. UNCHANGED <<queue, offered>>
      BY <1>6, <2>2 DEF Work, Get, Judge, Gate, Write, Lost, AfterWrite
    <3>3. CASE Get(b) \/ Gate(b) \/ Lost(b) \/ AfterWrite(b)
      BY <3>2, <3>3, MoveQuiet DEF Get, Gate, Lost, AfterWrite, backlogVars
    <3>4. CASE Judge(b) \/ Write(b)
      <4>1. queue[b] # <<>>
        BY <3>4 DEF Judge, Write, JournalInv, FlushTypeOK
      <4>2. CASE UNCHANGED stored /\ Drop(InHand(b))
        BY <3>1, <3>2, <4>1, <4>2, MoveDrop DEF Drop, Present
      <4>3. CASE UNCHANGED backlogVars /\ stored' \in {stored, stored \cup {InHand(b)}}
        BY <3>1, <3>2, <4>1, <4>3, MoveQuiet DEF backlogVars
      <4> QED BY <3>4, <4>2, <4>3
              DEF Judge, NoDrift, Write, WriteCommits, WriteRejected, WriteRefused, WriteUnanswered
    <3> QED BY <1>6, <2>2, <3>3, <3>4 DEF Work
  <2> QED BY <2>1, <2>2
<1> QED BY <1>1, <1>2, <1>3, <1>4, <1>5, <1>6 DEF Next

\* For any number of readings, bridges, reloads, crashes and outages the write
\* path does with each reading only what DurableStore allows: once journalled
\* it is stored or given up by a rule, and nothing stored is taken back.
THEOREM WritePathIsDurable == NoDrift /\ Spec => ReadingsAreDurable
<1> SUFFICES ASSUME NoDrift PROVE Spec => ReadingsAreDurable
  OBVIOUS
<1>1. JournalInv /\ [Next]_vars => JournalInv'
  BY JournalNext
<1>2. JournalInv /\ [Next]_vars => Store!Next /\ DOMAIN fate' = Points
  BY MoveNext, FateMoves
<1>3. Init => Store!Init
  BY DEF Init, WorkInit, BacklogInit, Store!Init, fate, InQueue
<1> QED BY JournalInit, <1>1, <1>2, <1>3, PTL DEF Spec, ReadingsAreDurable, Store!Spec

----------------------------------------------------------------------------
(* One copy of a row in the queue, for any number of bridges: a row is       *)
(* copied when it is not in flight, its copy keeps it in flight as long as   *)
(* it is in memory, and a reading that gets its first row has no copy yet.   *)

ItemOf(p, r) == [point |-> p, replayed |-> r]
Has(b, e) == \E i \in DOMAIN queue[b] : queue[b][i] = e
ItemsApart(q) == \A i, j \in DOMAIN q : q[i] = q[j] => i = j

\* A bridge that is not built has no thread at work and nothing queued.
Dormant == \A b \in Bridges : life[b] = "none" =>
               queue[b] = <<>> /\ rec[b] = "off" /\ refresh[b] = "off" /\ phase[b] = "off"

QueuesApart ==
    /\ \A b \in Bridges : ItemsApart(queue[b])
    /\ \A b, c \in Bridges, p \in Points :
           Has(b, ItemOf(p, FALSE)) /\ Has(c, ItemOf(p, FALSE)) => b = c
    /\ \A b \in Bridges, p \in Points : Has(b, ItemOf(p, FALSE)) => rowid[p] = 0 /\ p \in offered

CopiesInFlight ==
    \A b \in Bridges, p \in Points : Has(b, ItemOf(p, TRUE)) =>
        rowid[p] # 0 /\ (p \in mem[b] => p \in inflight[b])

CopyInv == FlushTypeOK /\ Dormant /\ QueuesApart /\ CopiesInFlight /\ RowsNumbered /\ RowsOffered

LEMMA ApartTail ==
  ASSUME NEW q \in Seq(Items), q # <<>>, ItemsApart(q)
  PROVE  /\ ItemsApart(Tail(q))
         /\ \A i \in DOMAIN Tail(q) : Tail(q)[i] # Head(q)
<1>1. ASSUME NEW i \in DOMAIN Tail(q), NEW j \in DOMAIN Tail(q), Tail(q)[i] = Tail(q)[j]
      PROVE  i = j
  <2>1. i + 1 \in DOMAIN q /\ j + 1 \in DOMAIN q /\ q[i + 1] = Tail(q)[i] /\ q[j + 1] = Tail(q)[j]
    BY TailOfQueue
  <2>2. i + 1 = j + 1
    BY <1>1, <2>1 DEF ItemsApart
  <2> QED BY <2>2
<1>2. ASSUME NEW i \in DOMAIN Tail(q), Tail(q)[i] = Head(q) PROVE FALSE
  <2>1. i + 1 \in DOMAIN q /\ q[i + 1] = Tail(q)[i] /\ 1 \in DOMAIN q /\ q[1] = Head(q)
    BY TailOfQueue
  <2>2. i + 1 = 1
    BY <1>2, <2>1 DEF ItemsApart
  <2> QED BY <2>2
<1> QED BY <1>1, <1>2 DEF ItemsApart

LEMMA ApartAppend ==
  ASSUME NEW q \in Seq(Items), NEW e \in Items, ItemsApart(q), \A i \in DOMAIN q : q[i] # e
  PROVE  ItemsApart(Append(q, e))
<1> DEFINE a == Append(q, e)
<1>1. \A i \in DOMAIN a : (i \in DOMAIN q /\ a[i] = q[i]) \/ (i = Len(q) + 1 /\ a[i] = e)
  OBVIOUS
<1> HIDE DEF a
<1>2. ItemsApart(a)
  BY <1>1 DEF ItemsApart
<1> QED BY <1>2 DEF a

LEMMA ApartConcat ==
  ASSUME NEW q \in Seq(Items), NEW t \in Seq(Items), ItemsApart(q), ItemsApart(t),
         \A i \in DOMAIN q, j \in DOMAIN t : q[i] # t[j]
  PROVE  ItemsApart(q \o t)
<1> DEFINE a == q \o t
<1>1. \A i \in DOMAIN a :
        \/ i \in DOMAIN q /\ a[i] = q[i]
        \/ i \in Nat /\ i > Len(q) /\ i - Len(q) \in DOMAIN t /\ a[i] = t[i - Len(q)]
  OBVIOUS
<1>2. Len(q) \in Nat
  OBVIOUS
<1> HIDE DEF a
<1>3. ASSUME NEW i \in DOMAIN a, NEW j \in DOMAIN a, a[i] = a[j] PROVE i = j
  <2>1. CASE i \in DOMAIN q /\ a[i] = q[i] /\ j \in DOMAIN q /\ a[j] = q[j]
    BY <1>3, <2>1 DEF ItemsApart
  <2>2. CASE /\ i \in Nat /\ i - Len(q) \in DOMAIN t /\ a[i] = t[i - Len(q)]
             /\ j \in Nat /\ j - Len(q) \in DOMAIN t /\ a[j] = t[j - Len(q)]
    <3>1. i - Len(q) = j - Len(q)
      BY <1>3, <2>2 DEF ItemsApart
    <3> QED BY <1>2, <2>2, <3>1
  <2> QED BY <1>1, <1>3, <2>1, <2>2
<1> QED BY <1>3 DEF ItemsApart, a

\* What replay_to_queue() adds: one copy of each row not in flight.
LEMMA ReplayCopies ==
  ASSUME FlushTypeOK, NEW b \in Bridges, Replay(b)
  PROVE  \E t \in Seq(Items) :
           /\ ItemsApart(t)
           /\ \A i \in DOMAIN t : \E p \in Unqueued(b) : t[i] = ItemOf(p, TRUE)
           /\ queue' = [queue EXCEPT ![b] = @ \o t]
<1>1. PICK s \in [1..Cardinality(Unqueued(b)) -> Unqueued(b)] :
        /\ \A i, j \in DOMAIN s : i < j => rowid[s[i]] < rowid[s[j]]
        /\ queue' = [queue EXCEPT ![b] =
               @ \o [i \in DOMAIN s |-> [point |-> s[i], replayed |-> TRUE]]]
  BY DEF Replay
<1>2. mem[b] \subseteq Points /\ Unqueued(b) \subseteq mem[b] /\ rowid \in [Points -> Nat]
  BY DEF FlushTypeOK, BacklogTypeOK, Unqueued
<1>3. Cardinality(Unqueued(b)) \in Nat
  BY <1>2, BacklogAssumption, FS_Subset, FS_CardinalityType
<1> DEFINE t == [i \in DOMAIN s |-> [point |-> s[i], replayed |-> TRUE]]
<1>4. \A i \in DOMAIN s : s[i] \in Unqueued(b) /\ s[i] \in Points
  BY <1>2
<1>5. t \in Seq(Items)
  <2>1. \A i \in DOMAIN s : [point |-> s[i], replayed |-> TRUE] \in Items
    BY <1>4 DEF Items
  <2>2. DOMAIN s = 1..Cardinality(Unqueued(b))
    OBVIOUS
  <2> QED BY <1>3, <2>1, <2>2
<1>6. DOMAIN t = DOMAIN s /\ DOMAIN s = 1..Cardinality(Unqueued(b))
  OBVIOUS
<1>7. \A i \in DOMAIN t : t[i] = [point |-> s[i], replayed |-> TRUE]
  OBVIOUS
<1> HIDE DEF t
<1>8. ASSUME NEW i \in DOMAIN t, NEW j \in DOMAIN t, t[i] = t[j] PROVE i = j
  <2>1. s[i] = s[j]
    BY <1>7, <1>8
  <2>2. i \in Nat /\ j \in Nat /\ rowid[s[i]] \in Nat
    BY <1>2, <1>3, <1>4, <1>6
  <2>3. ~(i < j) /\ ~(j < i)
    BY <1>1, <1>6, <2>1, <2>2
  <2> QED BY <2>2, <2>3
<1>9. \A i \in DOMAIN t : t[i] = ItemOf(s[i], TRUE)
  BY <1>7 DEF ItemOf
<1>10. queue' = [queue EXCEPT ![b] = @ \o t]
  BY <1>1 DEF t
<1> QED BY <1>4, <1>5, <1>6, <1>8, <1>9, <1>10 DEF ItemsApart

LEMMA CopyInit == Init => CopyInv
<1> SUFFICES ASSUME Init PROVE CopyInv
  OBVIOUS
<1> USE DEF Init, WorkInit, BacklogInit
<1>1. Dormant BY DEF Dormant
<1>2. QueuesApart /\ CopiesInFlight BY DEF QueuesApart, CopiesInFlight, Has, ItemsApart
<1>3. RowsNumbered /\ RowsOffered BY DEF RowsNumbered, RowsOffered
<1> QED BY <1>1, <1>2, <1>3, TypeInit DEF CopyInv

\* A step that leaves queues, rows and memory alone.
LEMMA CopyQuiet ==
  ASSUME CopyInv, UNCHANGED <<disk, rowid, mem, inflight, queue, offered>>
  PROVE  QueuesApart' /\ CopiesInFlight' /\ RowsNumbered' /\ RowsOffered'
<1>1. \A b \in Bridges, p \in Points, r \in BOOLEAN :
         Has(b, ItemOf(p, r))' <=> Has(b, ItemOf(p, r))
  BY DEF Has
<1>2. \A b \in Bridges : ItemsApart(queue[b])' <=> ItemsApart(queue[b])
  BY DEF ItemsApart
<1>3. QueuesApart'
  BY <1>1, <1>2 DEF CopyInv, QueuesApart
<1>4. CopiesInFlight'
  BY <1>1 DEF CopyInv, CopiesInFlight
<1> QED BY <1>3, <1>4 DEF CopyInv, RowsNumbered, RowsOffered

LEMMA CopyReplay ==
  ASSUME CopyInv, NEW b \in Bridges, NEW ok \in BOOLEAN, MaybeReplay(b, ok), UNCHANGED offered
  PROVE  QueuesApart' /\ CopiesInFlight' /\ RowsNumbered' /\ RowsOffered'
<1>1. CASE UNCHANGED <<queue, backlogVars>>
  BY <1>1, CopyQuiet DEF backlogVars
<1>2. CASE Replay(b)
  <2>1. PICK t \in Seq(Items) :
           /\ ItemsApart(t)
           /\ \A i \in DOMAIN t : \E p \in Unqueued(b) : t[i] = ItemOf(p, TRUE)
           /\ queue' = [queue EXCEPT ![b] = @ \o t]
    BY <1>2, ReplayCopies DEF CopyInv
  <2>2. UNCHANGED <<disk, rowid, lastRow, mem>> /\ inflight' = [inflight EXCEPT ![b] = @ \cup Unqueued(b)]
    BY <1>2 DEF Replay, MarkInflight
  <2>3. /\ queue \in [Bridges -> Seq(Items)] /\ inflight \in [Bridges -> SUBSET Points]
        /\ mem \in [Bridges -> SUBSET Points]
    BY DEF CopyInv, FlushTypeOK, BacklogTypeOK
  <2>4. queue[b] \in Seq(Items) /\ queue'[b] = queue[b] \o t
        /\ \A c \in Bridges : c # b => queue'[c] = queue[c]
    BY <2>1, <2>3
  <2>5. \A p \in Unqueued(b) : p \in Points /\ p \in mem[b] /\ p \notin inflight[b] /\ rowid[p] # 0
    BY <2>3 DEF Unqueued, CopyInv, RowsNumbered
  <2>6. \A i \in DOMAIN queue[b], j \in DOMAIN t : queue[b][i] # t[j]
    BY <2>1, <2>5 DEF CopyInv, CopiesInFlight, Has
  <2>7. ItemsApart(queue'[b])
    BY <2>1, <2>4, <2>6, ApartConcat DEF CopyInv, QueuesApart
  <2>8. ASSUME NEW c \in Bridges, NEW p \in Points, NEW r \in BOOLEAN, Has(c, ItemOf(p, r))'
        PROVE  Has(c, ItemOf(p, r)) \/ (c = b /\ r = TRUE /\ p \in Unqueued(b))
    <3>1. CASE c # b
      BY <2>4, <2>8, <3>1 DEF Has
    <3>2. CASE c = b
      <4>1. PICK i \in DOMAIN queue'[b] : queue'[b][i] = ItemOf(p, r)
        BY <2>8, <3>2 DEF Has
      <4>2. \/ i \in DOMAIN queue[b] /\ queue'[b][i] = queue[b][i]
            \/ i - Len(queue[b]) \in DOMAIN t /\ queue'[b][i] = t[i - Len(queue[b])]
        BY <2>4, ConcatQueue
      <4>3. ASSUME NEW j \in DOMAIN t, t[j] = ItemOf(p, r) PROVE r = TRUE /\ p \in Unqueued(b)
        BY <2>1, <4>3 DEF ItemOf
      <4> QED BY <3>2, <4>1, <4>2, <4>3 DEF Has
    <3> QED BY <3>1, <3>2
  <2>9. QueuesApart'
    <3>1. \A c \in Bridges : ItemsApart(queue'[c])
      BY <2>4, <2>7 DEF CopyInv, QueuesApart
    <3>2. \A c \in Bridges, p \in Points : Has(c, ItemOf(p, FALSE))' => Has(c, ItemOf(p, FALSE))
      BY <2>8
    <3> QED BY <2>2, <3>1, <3>2 DEF CopyInv, QueuesApart, ItemsApart
  <2>10. CopiesInFlight'
    BY <2>2, <2>3, <2>5, <2>8 DEF CopyInv, CopiesInFlight
  <2> QED BY <2>2, <2>9, <2>10 DEF CopyInv, RowsNumbered, RowsOffered
<1> QED BY <1>1, <1>2 DEF MaybeReplay

LEMMA CopyPut ==
  ASSUME CopyInv, NEW b \in Bridges, NEW p \in Points, WriteData(b, p)
  PROVE  QueuesApart' /\ CopiesInFlight' /\ RowsNumbered' /\ RowsOffered'
<1>1. UNCHANGED <<disk, rowid, mem, inflight>> /\ p \notin offered /\ offered' = offered \cup {p}
  BY DEF WriteData, backlogVars
<1>2. RowsNumbered' /\ RowsOffered'
  BY <1>1 DEF CopyInv, RowsNumbered, RowsOffered
<1>3. CASE UNCHANGED queue
  <2>1. \A c \in Bridges, o \in Points, r \in BOOLEAN :
           Has(c, ItemOf(o, r))' <=> Has(c, ItemOf(o, r))
    BY <1>3 DEF Has
  <2>2. \A c \in Bridges : ItemsApart(queue[c])' <=> ItemsApart(queue[c])
    BY <1>3 DEF ItemsApart
  <2>3. QueuesApart'
    BY <1>1, <2>1, <2>2 DEF CopyInv, QueuesApart
  <2>4. CopiesInFlight'
    BY <1>1, <2>1 DEF CopyInv, CopiesInFlight
  <2> QED BY <1>2, <2>3, <2>4
<1>4. CASE queue' = [queue EXCEPT ![b] = Append(@, ItemOf(p, FALSE))]
  <2>1. queue \in [Bridges -> Seq(Items)] /\ ItemOf(p, FALSE) \in Items
    BY DEF CopyInv, FlushTypeOK, ItemOf, Items
  <2>2. queue[b] \in Seq(Items) /\ queue'[b] = Append(queue[b], ItemOf(p, FALSE))
        /\ \A c \in Bridges : c # b => queue'[c] = queue[c]
    BY <1>4, <2>1
  <2>3. rowid[p] = 0 /\ \A c \in Bridges : ~Has(c, ItemOf(p, FALSE))
    BY <1>1 DEF CopyInv, QueuesApart, RowsOffered
  <2>4. ItemsApart(queue'[b])
    BY <2>1, <2>2, <2>3, ApartAppend DEF CopyInv, QueuesApart, Has
  <2>5. ASSUME NEW c \in Bridges, NEW o \in Points, NEW r \in BOOLEAN, Has(c, ItemOf(o, r))'
        PROVE  Has(c, ItemOf(o, r)) \/ (c = b /\ r = FALSE /\ o = p)
    <3>1. CASE c # b
      BY <2>2, <2>5, <3>1 DEF Has
    <3>2. CASE c = b
      <4>1. PICK i \in DOMAIN queue'[b] : queue'[b][i] = ItemOf(o, r)
        BY <2>5, <3>2 DEF Has
      <4>2. (i \in DOMAIN queue[b] /\ queue'[b][i] = queue[b][i]) \/ queue'[b][i] = ItemOf(p, FALSE)
        <5> DEFINE a == Append(queue[b], ItemOf(p, FALSE))
        <5>1. \A k \in DOMAIN queue[b] : a[k] = queue[b][k]
          BY <2>1, <2>2, AppendQueue
        <5>2. \A k \in DOMAIN a : k \in DOMAIN queue[b] \/ a[k] = ItemOf(p, FALSE)
          BY <2>1, <2>2, AppendQueue
        <5>3. queue'[b] = a
          BY <2>2
        <5> HIDE DEF a
        <5> QED BY <5>1, <5>2, <5>3
      <4> QED BY <3>2, <4>1, <4>2 DEF Has, ItemOf
    <3> QED BY <3>1, <3>2
  <2>6. QueuesApart'
    <3>1. \A c \in Bridges : ItemsApart(queue'[c])
      BY <2>2, <2>4 DEF CopyInv, QueuesApart
    <3>2. \A c \in Bridges, o \in Points :
            Has(c, ItemOf(o, FALSE))' => Has(c, ItemOf(o, FALSE)) \/ (c = b /\ o = p)
      BY <2>5
    <3> QED BY <1>1, <2>3, <3>1, <3>2 DEF CopyInv, QueuesApart, ItemsApart
  <2>7. CopiesInFlight'
    BY <1>1, <2>5 DEF CopyInv, CopiesInFlight
  <2> QED BY <1>2, <2>6, <2>7
<1> QED BY <1>3, <1>4 DEF WriteData, ItemOf

\* Load() runs while the bridge is being constructed, its queue still empty.
LEMMA CopyRows ==
  ASSUME CopyInv, NEW b \in Bridges, UNCHANGED <<queue, offered>>,
         CommitRows(b) \/ (queue[b] = <<>> /\ \E e \in SUBSET disk : Load(b, e))
  PROVE  QueuesApart' /\ CopiesInFlight' /\ RowsNumbered' /\ RowsOffered'
<1>1. UNCHANGED rowid /\ disk' \subseteq disk
  BY DEF CommitRows, Load
<1>2. \A c \in Bridges, o \in Points, r \in BOOLEAN : Has(c, ItemOf(o, r))' <=> Has(c, ItemOf(o, r))
  BY DEF Has
<1>3. \A c \in Bridges : ItemsApart(queue[c])' <=> ItemsApart(queue[c])
  BY DEF ItemsApart
<1>4. QueuesApart'
  BY <1>1, <1>2, <1>3 DEF CopyInv, QueuesApart
<1>5. mem \in [Bridges -> SUBSET Points] /\ inflight \in [Bridges -> SUBSET Points]
  BY DEF CopyInv, FlushTypeOK, BacklogTypeOK
<1>6. \A c \in Bridges : \/ mem'[c] = mem[c] /\ inflight'[c] = inflight[c]
                         \/ queue[c] = <<>> /\ mem'[c] \subseteq disk
  <2>1. CASE CommitRows(b)
    BY <2>1 DEF CommitRows
  <2>2. CASE queue[b] = <<>> /\ \E e \in SUBSET disk : Load(b, e)
    BY <1>5, <2>2 DEF Load
  <2> QED BY <2>1, <2>2
<1>7. CopiesInFlight'
  <2> SUFFICES ASSUME NEW c \in Bridges, NEW p \in Points, Has(c, ItemOf(p, TRUE))
               PROVE  rowid[p] # 0 /\ (p \in mem'[c] => p \in inflight'[c])
    BY <1>1, <1>2 DEF CopiesInFlight
  <2>1. queue[c] # <<>>
    BY DEF Has
  <2> QED BY <1>6, <2>1 DEF CopyInv, CopiesInFlight
<1>8. RowsNumbered'
  BY <1>1, <1>6 DEF CopyInv, RowsNumbered
<1>9. RowsOffered'
  BY <1>1 DEF CopyInv, RowsOffered
<1> QED BY <1>4, <1>7, <1>8, <1>9

\* The item settled leaves the queue, and nothing equal to it stays behind.
LEMMA CopySettle ==
  ASSUME CopyInv, NEW b \in Bridges, Settle(b)
  PROVE  QueuesApart' /\ CopiesInFlight' /\ RowsNumbered' /\ RowsOffered'
<1> DEFINE q == queue[b]
<1>1. /\ queue \in [Bridges -> Seq(Items)] /\ q # <<>> /\ q \in Seq(Items)
      /\ rowid \in [Points -> Nat] /\ lastRow \in Nat
      /\ mem \in [Bridges -> SUBSET Points] /\ inflight \in [Bridges -> SUBSET Points]
  BY DEF Settle, CopyInv, FlushTypeOK, BacklogTypeOK
<1>2. queue' = [queue EXCEPT ![b] = Tail(@)] /\ UNCHANGED offered
  BY DEF Settle, envVars
<1>3. PICK h \in Points :
      /\ h = InHand(b) /\ Hand(b) = Head(q) /\ Head(q) \in Items /\ 1 \in DOMAIN q /\ q[1] = Head(q)
      /\ h = Head(q).point /\ Head(q) = ItemOf(h, Hand(b).replayed)
  BY <1>1, TailOfQueue DEF InHand, Hand, Items, ItemOf
<1>4. \A c \in Bridges : queue'[c] = IF c = b THEN Tail(q) ELSE queue[c]
  BY <1>1, <1>2
<1>5. ItemsApart(Tail(q)) /\ \A i \in DOMAIN Tail(q) : Tail(q)[i] # Head(q)
  BY <1>1, ApartTail DEF CopyInv, QueuesApart
<1>6. ASSUME NEW c \in Bridges, NEW o \in Points, NEW r \in BOOLEAN, Has(c, ItemOf(o, r))'
      PROVE  Has(c, ItemOf(o, r)) /\ ~(c = b /\ o = h /\ r = Hand(b).replayed)
  <2>1. CASE c # b
    BY <1>4, <1>6, <2>1 DEF Has
  <2>2. CASE c = b
    <3>1. PICK i \in DOMAIN Tail(q) : Tail(q)[i] = ItemOf(o, r)
      BY <1>4, <1>6, <2>2 DEF Has
    <3>2. i + 1 \in DOMAIN q /\ q[i + 1] = Tail(q)[i]
      BY <1>1, <3>1, TailOfQueue
    <3>3. ItemOf(o, r) # Head(q)
      BY <1>5, <3>1
    <3> QED BY <1>3, <2>2, <3>1, <3>2, <3>3 DEF Has
  <2> QED BY <2>1, <2>2
<1>7. Has(b, Head(q))
  BY <1>3 DEF Has
<1>8. ~Hand(b).replayed => h \in offered /\ rowid[h] = 0
  BY <1>3, <1>7 DEF CopyInv, QueuesApart, Items
<1>9. Hand(b).replayed \in BOOLEAN
  BY <1>3 DEF Items
<1>10. \A c \in Bridges : ItemsApart(queue'[c])
  BY <1>4, <1>5 DEF CopyInv, QueuesApart
<1> DEFINE Fewer ==
            /\ rowid' = rowid /\ disk' \subseteq disk
            /\ \A c \in Bridges : \A p \in mem'[c] :
                  /\ p \in mem[c]
                  /\ p \in inflight[c] => p \in inflight'[c] \/ (c = b /\ p = h /\ Hand(b).replayed)
<1>11. CASE Fewer
  <2>1. QueuesApart'
    BY <1>2, <1>6, <1>10, <1>11 DEF CopyInv, QueuesApart, ItemsApart
  <2>2. CopiesInFlight'
    BY <1>6, <1>9, <1>11 DEF CopyInv, CopiesInFlight
  <2>3. RowsNumbered'
    BY <1>11 DEF CopyInv, RowsNumbered
  <2>4. RowsOffered'
    BY <1>2, <1>11 DEF CopyInv, RowsOffered
  <2> QED BY <2>1, <2>2, <2>3, <2>4
<1>12. CASE Hand(b).replayed /\ (Ack(b, h) \/ Release(b, h))
  <2>1. Fewer
    BY <1>1, <1>12 DEF Ack, Release
  <2> QED BY <1>11, <2>1
<1>13. CASE UNCHANGED backlogVars
  <2>1. Fewer
    BY <1>13 DEF backlogVars
  <2> QED BY <1>11, <2>1
<1>14. CASE EnqueueFails(b, h)
  <2>1. CASE UNCHANGED backlogVars
    BY <1>13, <2>1
  <2>2. CASE ~UNCHANGED backlogVars
    <3>1. /\ mem' = [mem EXCEPT ![b] = @ \ Victims(b)] /\ UNCHANGED rowid
          /\ inflight' = [inflight EXCEPT ![b] = @ \ Victims(b)] /\ disk' = disk \ Victims(b)
      BY <1>14, <2>2 DEF EnqueueFails
    <3>2. Fewer
      BY <1>1, <3>1
    <3> QED BY <1>11, <3>2
  <2> QED BY <2>1, <2>2
<1>15. CASE ~Hand(b).replayed /\ Enqueue(b, h)
  <2>1. /\ mem' = [mem EXCEPT ![b] = (@ \ Victims(b)) \cup {h}]
        /\ inflight' = [inflight EXCEPT ![b] = @ \ Victims(b)]
        /\ disk' = (disk \ Victims(b)) \cup {h}
        /\ rowid' = [rowid EXCEPT ![h] = lastRow + 1]
    BY <1>15 DEF Enqueue
  <2>2. rowid'[h] # 0 /\ \A p \in Points : p # h => rowid'[p] = rowid[p]
    <3>1. lastRow + 1 # 0
      BY <1>1
    <3> QED BY <1>1, <2>1, <3>1
  <2>3. rowid[h] = 0 /\ h \in offered /\ Hand(b).replayed = FALSE
    BY <1>8, <1>9, <1>15
  <2>4. \A c \in Bridges : ~Has(c, ItemOf(h, TRUE)) /\ ~Has(c, ItemOf(h, TRUE))'
    BY <1>3, <1>6, <2>3 DEF CopyInv, CopiesInFlight
  <2>5. Has(b, ItemOf(h, FALSE))
    BY <1>3, <1>7, <2>3
  <2>6. \A c \in Bridges : ~Has(c, ItemOf(h, FALSE))'
    BY <1>3, <1>6, <2>3, <2>5 DEF CopyInv, QueuesApart
  <2>7. QueuesApart'
    BY <1>2, <1>6, <1>10, <2>2, <2>6 DEF CopyInv, QueuesApart, ItemsApart
  <2>8. CopiesInFlight'
    <3> SUFFICES ASSUME NEW c \in Bridges, NEW p \in Points, Has(c, ItemOf(p, TRUE))'
                 PROVE  rowid'[p] # 0 /\ (p \in mem'[c] => p \in inflight'[c])
      BY DEF CopiesInFlight
    <3>1. p # h /\ Has(c, ItemOf(p, TRUE))
      BY <1>6, <2>4
    <3>2. rowid[p] # 0 /\ (p \in mem[c] => p \in inflight[c])
      BY <3>1 DEF CopyInv, CopiesInFlight
    <3> QED BY <1>1, <2>1, <2>2, <3>1, <3>2
  <2>9. RowsNumbered'
    <3>1. \A p \in disk' : p = h \/ p \in disk
      BY <2>1
    <3>2. \A c \in Bridges : \A p \in mem'[c] : p = h \/ p \in mem[c]
      BY <1>1, <2>1
    <3>3. \A p \in Points : rowid[p] # 0 => rowid'[p] # 0
      BY <2>2
    <3>4. disk \subseteq Points /\ \A c \in Bridges : mem[c] \subseteq Points
      BY <1>1 DEF CopyInv, FlushTypeOK, BacklogTypeOK
    <3> QED BY <2>2, <3>1, <3>2, <3>3, <3>4 DEF CopyInv, RowsNumbered
  <2>10. RowsOffered'
    BY <1>2, <2>2, <2>3 DEF CopyInv, RowsOffered
  <2> QED BY <2>7, <2>8, <2>9, <2>10
<1> QED BY <1>3, <1>12, <1>13, <1>14, <1>15 DEF Settle

\* What each kind of step keeps of the bridges that are not built.
LEMMA DormantNext ==
  ASSUME FlushTypeOK, Dormant, [Next]_vars
  PROVE  Dormant'
<1> USE DEF FlushTypeOK, Dormant, bridgeVars, recVars, envVars, Reach
<1>1. ASSUME NEW b \in Bridges, Producer(b) \/ CommitAcks(b) \/ Refresh(b) \/ Joined(b)
      PROVE  Dormant'
  <2>1. CASE Construct(b)
    BY <2>1 DEF Construct
  <2>2. CASE ConnectTsdb(b)
    BY <2>2 DEF ConnectTsdb
  <2>3. CASE InitBridge(b)
    <3>1. \A c \in Bridges : c # b => queue'[c] = queue[c] /\ refresh'[c] = refresh[c]
      BY <2>3 DEF InitBridge, Register, MaybeReplay, Replay
    <3> QED BY <2>3, <3>1 DEF InitBridge
  <2>4. CASE Retire(b)
    BY <2>4 DEF Retire
  <2>5. ASSUME NEW p \in Points, WriteData(b, p) PROVE Dormant'
    <3>1. \A c \in Bridges : c # b => queue'[c] = queue[c]
      BY <2>5 DEF WriteData
    <3> QED BY <2>5, <3>1 DEF WriteData
  <2>6. CASE CommitAcks(b)
    BY <2>6 DEF CommitAcks, flushVars
  <2>7. CASE Refresh(b)
    <3>1. \A c \in Bridges : c # b => queue'[c] = queue[c]
      BY <2>7 DEF Refresh, Replay
    <3> QED BY <2>7, <3>1 DEF Refresh
  <2>8. CASE Joined(b)
    BY <2>8 DEF Joined
  <2> QED BY <1>1, <2>1, <2>2, <2>3, <2>4, <2>5, <2>6, <2>7, <2>8 DEF Producer
<1>2. ASSUME NEW b \in Bridges, Work(b) PROVE Dormant'
  <2>1. phase[b] # "off" /\ UNCHANGED bridgeVars
    BY <1>2 DEF Work, Get, Judge, Gate, Write, Lost, AfterWrite, Settle
  <2>2. \A c \in Bridges : c # b => queue'[c] = queue[c] /\ phase'[c] = phase[c] /\ rec'[c] = rec[c]
    BY <1>2 DEF Work, Get, Judge, Gate, Write, Lost, AfterWrite, Settle, GoTo, WriteCommits,
                WriteRejected, WriteRefused, WriteUnanswered, Trigger
  <2> QED BY <2>1, <2>2
<1>3. ASSUME NEW b \in Bridges, Reconnect(b) PROVE Dormant'
  <2>1. rec[b] # "off" /\ UNCHANGED <<life, phase>>
    BY <1>3 DEF Reconnect, Attempt, Flag, Recheck, Rediscover, RediscoverRaised,
                ReplayAfterReconnect, RecEnds
  <2>2. \A c \in Bridges : c # b =>
           queue'[c] = queue[c] /\ rec'[c] = rec[c] /\ refresh'[c] = refresh[c]
    <3>1. \A c \in Bridges : c # b => rec'[c] = rec[c]
      BY <1>3 DEF Reconnect, Attempt, Flag, Recheck, Rediscover, RediscoverRaised,
                  ReplayAfterReconnect, RecEnds
    <3>2. CASE UNCHANGED <<queue, refresh>>
      BY <3>1, <3>2
    <3>3. CASE Rediscover(b) \/ ReplayAfterReconnect(b)
      <4>1. \A c \in Bridges : c # b => queue'[c] = queue[c] /\ refresh'[c] = refresh[c]
        BY <3>3 DEF Rediscover, Register, ReplayAfterReconnect, MaybeReplay, Replay
      <4> QED BY <3>1, <4>1
    <3> QED BY <1>3, <3>2, <3>3 DEF Reconnect, Attempt, Flag, Recheck, RediscoverRaised, RecEnds
  <2> QED BY <2>1, <2>2
<1>4. CASE Crash
  BY <1>4 DEF Crash
<1>5. CASE DbDown \/ DbUp \/ UNCHANGED vars
  BY <1>5 DEF DbDown, DbUp, vars, flushVars
<1> QED BY <1>1, <1>2, <1>3, <1>4, <1>5 DEF Next

LEMMA CopyNext ==
  ASSUME CopyInv, [Next]_vars
  PROVE  CopyInv'
<1> USE DEF bridgeVars, recVars, envVars, Reach
<1> DEFINE Kept == QueuesApart' /\ CopiesInFlight' /\ RowsNumbered' /\ RowsOffered'
<1>1. FlushTypeOK' /\ Dormant'
  BY TypeNext, DormantNext DEF CopyInv
<1>2. ASSUME NEW b \in Bridges, Producer(b) PROVE Kept
  <2>1. CASE Construct(b)
    <3>1. queue[b] = <<>>
      BY <2>1 DEF Construct, CopyInv, Dormant
    <3>2. UNCHANGED backlogVars \/ \E e \in SUBSET disk : Load(b, e)
      BY <2>1 DEF Construct, LoadFails
    <3>3. UNCHANGED <<queue, offered>>
      BY <2>1 DEF Construct
    <3>4. CASE UNCHANGED backlogVars
      BY <3>3, <3>4, CopyQuiet DEF backlogVars
    <3> QED BY <3>1, <3>2, <3>3, <3>4, CopyRows
  <2>2. CASE ConnectTsdb(b) \/ Retire(b)
    BY <2>2, CopyQuiet DEF ConnectTsdb, Retire, backlogVars
  <2>3. CASE InitBridge(b)
    <3>1. (\E ok \in BOOLEAN : MaybeReplay(b, ok)) /\ UNCHANGED offered
      BY <2>3, FlushAssumption DEF InitBridge, Register, MaybeReplay
    <3> QED BY <3>1, CopyReplay
  <2>4. ASSUME NEW p \in Points, WriteData(b, p) PROVE Kept
    BY <2>4, CopyPut
  <2> QED BY <1>2, <2>1, <2>2, <2>3, <2>4 DEF Producer
<1>3. ASSUME NEW b \in Bridges, Reconnect(b) \/ Refresh(b) \/ Joined(b) PROVE Kept
  <2>1. CASE Rediscover(b) \/ ReplayAfterReconnect(b) \/ Refresh(b)
    <3>1. (\E ok \in BOOLEAN : MaybeReplay(b, ok)) /\ UNCHANGED offered
      BY <2>1, FlushAssumption DEF Rediscover, Register, ReplayAfterReconnect, Refresh, MaybeReplay
    <3> QED BY <3>1, CopyReplay
  <2>2. CASE UNCHANGED <<queue, backlogVars, offered>>
    BY <2>2, CopyQuiet DEF backlogVars
  <2> QED BY <1>3, <2>1, <2>2
          DEF Reconnect, Attempt, Flag, Recheck, RediscoverRaised, RecEnds, Joined
<1>4. ASSUME Crash PROVE Kept
  <2>1. \A b \in Bridges : queue'[b] = <<>> /\ mem'[b] = {}
    BY <1>4 DEF Crash, BacklogHalts
  <2>2. UNCHANGED <<disk, rowid, offered>>
    BY <1>4 DEF Crash, BacklogHalts
  <2>3. \A b \in Bridges : \A e : ~Has(b, e)'
    BY <2>1 DEF Has
  <2>4. \A b \in Bridges : ItemsApart(queue'[b])
    BY <2>1 DEF ItemsApart
  <2>5. QueuesApart' /\ CopiesInFlight'
    BY <2>3, <2>4 DEF QueuesApart, CopiesInFlight, ItemsApart
  <2> QED BY <2>1, <2>2, <2>5 DEF CopyInv, RowsNumbered, RowsOffered
<1>5. ASSUME DbDown \/ DbUp \/ UNCHANGED vars PROVE Kept
  <2>1. UNCHANGED <<disk, rowid, mem, inflight, queue, offered>>
    BY <1>5 DEF DbDown, DbUp, vars, flushVars, backlogVars
  <2> QED BY <2>1, CopyQuiet
<1>6. ASSUME NEW b \in Bridges, CommitAcks(b) PROVE Kept
  BY <1>6, CopyRows DEF CommitAcks, flushVars
<1>7. ASSUME NEW b \in Bridges, Work(b) PROVE Kept
  <2>1. CASE Settle(b)
    BY <2>1, CopySettle
  <2>2. CASE ~Settle(b)
    <3>1. UNCHANGED <<disk, rowid, mem, inflight, queue, offered>>
      BY <1>7, <2>2 DEF Work, Get, Judge, Gate, Write, WriteCommits, WriteRejected, WriteRefused,
                        WriteUnanswered, Lost, AfterWrite, Drop, backlogVars
    <3> QED BY <3>1, CopyQuiet
  <2> QED BY <2>1, <2>2
<1> HIDE DEF Kept
<1>8. Kept
  BY <1>2, <1>3, <1>4, <1>5, <1>6, <1>7 DEF Next
<1> QED BY <1>1, <1>8 DEF CopyInv, Kept

LEMMA CopiesCounted == CopyInv => OneCopy
<1> SUFFICES ASSUME CopyInv, NEW b \in Bridges, NEW p \in Points
             PROVE  Cardinality(Copies(b, p)) <= 1
  BY DEF OneCopy
<1>1. \A i, j \in Copies(b, p) : i = j
  BY DEF Copies, CopyInv, QueuesApart, ItemsApart
<1>2. CASE Copies(b, p) = {}
  BY <1>2, FS_EmptySet
<1>3. CASE Copies(b, p) # {}
  <2>1. PICK i \in Copies(b, p) : TRUE
    BY <1>3
  <2>2. Copies(b, p) = {i}
    BY <1>1, <2>1
  <2>3. Cardinality({i}) = 1
    BY FS_Singleton
  <2> QED BY <2>2, <2>3
<1> QED BY <1>2, <1>3

\* A row has one copy in a bridge's queue at a time, so ack() and release()
\* settle it once: whoever calls replay_to_queue(), for any number of bridges
\* that a reload left running over one file, and through every fault.
THEOREM RowsAreCopiedOnce == Spec => []OneCopy
<1>1. CopyInv /\ [Next]_vars => CopyInv'
  BY CopyNext
<1> QED BY CopyInit, <1>1, CopiesCounted, PTL DEF Spec
----------------------------------------------------------------------------
(* One bridge: what is in memory is in SQLite. A reading must not be        *)
(* journalled while its acknowledged row still waits to be deleted: a live  *)
(* item has no row yet (QueuesApart), an acknowledged reading has one.      *)

OneBridge == \A b, c \in Bridges : b = c

AcksApart == \A b \in Bridges : \A p \in pending[b] : p \notin mem[b] /\ rowid[p] # 0

RowsApart == AcksApart /\ MemoryOnDisk

MemoryInv == CopyInv /\ RowsApart

LEMMA MemoryInit == Init => MemoryInv
  BY CopyInit DEF Init, WorkInit, BacklogInit, MemoryInv, RowsApart, AcksApart, MemoryOnDisk

\* Steps that do not touch the rows.
LEMMA MemoryQuiet ==
  ASSUME RowsApart, UNCHANGED <<disk, rowid, mem, pending>>
  PROVE  RowsApart'
  BY DEF RowsApart, AcksApart, MemoryOnDisk

LEMMA MemoryReplay ==
  ASSUME RowsApart, NEW b \in Bridges, NEW ok \in BOOLEAN, MaybeReplay(b, ok)
  PROVE  RowsApart'
<1>1. CASE UNCHANGED <<queue, backlogVars>>
  BY <1>1, MemoryQuiet DEF backlogVars
<1>2. CASE Replay(b)
  BY <1>2, MemoryQuiet DEF Replay, MarkInflight
<1> QED BY <1>1, <1>2 DEF MaybeReplay

\* The steps of the journal that leave the queue alone. Another bridge's rows
\* are out of the way only because there is no other bridge.
LEMMA MemoryRows ==
  ASSUME OneBridge, MemoryInv, NEW b \in Bridges, CommitRows(b) \/ \E e \in SUBSET disk : Load(b, e)
  PROVE  RowsApart'
<1> USE DEF MemoryInv, CopyInv, FlushTypeOK, BacklogTypeOK
<1> QED BY DEF OneBridge, RowsNumbered, RowsApart, AcksApart, MemoryOnDisk, CommitRows, Load

LEMMA MemorySettle ==
  ASSUME OneBridge, MemoryInv, NEW b \in Bridges, Settle(b)
  PROVE  RowsApart'
<1> DEFINE h == InHand(b)
<1>1. queue[b] \in Seq(Items) /\ queue[b] # <<>>
  BY DEF Settle, MemoryInv, CopyInv, FlushTypeOK
<1>2. h \in Points /\ Hand(b) \in Items /\ 1 \in DOMAIN queue[b] /\ queue[b][1] = Hand(b)
  BY <1>1, TailOfQueue DEF InHand, Hand, Items
<1>3. ~Hand(b).replayed => rowid[h] = 0
  <2> SUFFICES ASSUME ~Hand(b).replayed PROVE rowid[h] = 0
    OBVIOUS
  <2>1. Hand(b) = ItemOf(h, FALSE)
    BY <1>2 DEF Items, ItemOf, InHand
  <2>2. Has(b, ItemOf(h, FALSE))
    BY <1>2, <2>1 DEF Has
  <2> QED BY <1>2, <2>2 DEF MemoryInv, CopyInv, QueuesApart
<1> HIDE DEF h
<1> USE DEF MemoryInv, CopyInv, FlushTypeOK, BacklogTypeOK
<1>4. CASE Ack(b, h)
  <2>1. /\ mem' = [mem EXCEPT ![b] = @ \ {h}]
        /\ pending' = [pending EXCEPT ![b] = @ \cup ({h} \cap mem[b])]
        /\ UNCHANGED <<disk, rowid>>
    BY <1>4 DEF Ack
  <2> QED BY <2>1 DEF RowsNumbered, RowsApart, AcksApart, MemoryOnDisk
<1>5. CASE Release(b, h) \/ UNCHANGED backlogVars
  BY <1>5, MemoryQuiet DEF Release, backlogVars
<1>6. CASE ~Hand(b).replayed /\ Enqueue(b, h)
  <2>1. rowid' = [rowid EXCEPT ![h] = lastRow + 1] /\ lastRow + 1 # 0
    BY <1>6 DEF Enqueue
  <2>2. \A p \in pending[b] : p # h /\ p \notin mem[b] /\ rowid'[p] # 0
    BY <1>2, <1>3, <1>6, <2>1 DEF RowsApart, AcksApart
  <2>3. mem'[b] \subseteq mem[b] \cup {h} /\ pending' = pending
    BY <1>6 DEF Enqueue
  <2>4. mem'[b] \subseteq disk'
    BY <1>6 DEF Enqueue, RowsApart, MemoryOnDisk
  <2> QED BY <2>2, <2>3, <2>4 DEF RowsApart, AcksApart, MemoryOnDisk, OneBridge
<1>7. CASE EnqueueFails(b, h)
  BY <1>7 DEF EnqueueFails, backlogVars, RowsApart, AcksApart, MemoryOnDisk, OneBridge
<1> QED BY <1>4, <1>5, <1>6, <1>7 DEF Settle, h

LEMMA MemoryNext ==
  ASSUME OneBridge, MemoryInv, [Next]_vars
  PROVE  MemoryInv'
<1> USE DEF bridgeVars, recVars, envVars, Reach
<1>0. CopyInv' /\ RowsApart
  BY CopyNext DEF MemoryInv
<1> SUFFICES RowsApart'
  BY <1>0 DEF MemoryInv
<1>1. CASE UNCHANGED <<disk, rowid, mem, pending>>
  BY <1>0, <1>1, MemoryQuiet
<1>2. ASSUME NEW b \in Bridges, Producer(b) PROVE RowsApart'
  <2>1. CASE Construct(b)
    <3>1. UNCHANGED backlogVars \/ \E e \in SUBSET disk : Load(b, e)
      BY <2>1 DEF Construct, LoadFails
    <3> QED BY <1>1, <3>1, MemoryRows DEF backlogVars
  <2>2. CASE ConnectTsdb(b) \/ Retire(b) \/ \E p \in Points : WriteData(b, p)
    BY <1>1, <2>2 DEF ConnectTsdb, Retire, WriteData, backlogVars
  <2>3. CASE InitBridge(b)
    <3>1. \E ok \in BOOLEAN : MaybeReplay(b, ok)
      BY <2>3, FlushAssumption DEF InitBridge, Register, MaybeReplay
    <3> QED BY <1>0, <3>1, MemoryReplay
  <2> QED BY <1>2, <2>1, <2>2, <2>3 DEF Producer
<1>3. ASSUME NEW b \in Bridges, Reconnect(b) \/ Refresh(b) \/ Joined(b) PROVE RowsApart'
  <2>1. CASE Rediscover(b) \/ ReplayAfterReconnect(b) \/ Refresh(b)
    <3>1. \E ok \in BOOLEAN : MaybeReplay(b, ok)
      BY <2>1, FlushAssumption DEF Rediscover, Register, ReplayAfterReconnect, Refresh, MaybeReplay
    <3> QED BY <1>0, <3>1, MemoryReplay
  <2>2. CASE UNCHANGED backlogVars
    BY <1>1, <2>2 DEF backlogVars
  <2> QED BY <1>3, <2>1, <2>2
          DEF Reconnect, Attempt, Flag, Recheck, RediscoverRaised, RecEnds, Joined
<1>4. CASE Crash
  BY <1>0, <1>4 DEF Crash, BacklogHalts, RowsApart, AcksApart, MemoryOnDisk
<1>5. CASE DbDown \/ DbUp \/ UNCHANGED vars
  BY <1>1, <1>5 DEF DbDown, DbUp, vars, flushVars, backlogVars
<1>6. ASSUME NEW b \in Bridges, CommitAcks(b) PROVE RowsApart'
  BY <1>6, MemoryRows DEF CommitAcks, flushVars
<1>7. ASSUME NEW b \in Bridges, Work(b) PROVE RowsApart'
  <2>1. CASE Settle(b)
    BY <2>1, MemorySettle
  <2>2. CASE ~Settle(b)
    <3>1. UNCHANGED <<disk, rowid, mem, pending>>
      BY <1>7, <2>2 DEF Work, Get, Judge, Gate, Write, WriteCommits, WriteRejected, WriteRefused,
                        WriteUnanswered, Lost, AfterWrite, Drop, backlogVars
    <3> QED BY <1>1, <3>1
  <2> QED BY <2>1, <2>2
<1> QED BY <1>2, <1>3, <1>4, <1>5, <1>6, <1>7 DEF Next

\* BacklogManager's contract holds as long as one bridge uses the file: what a
\* bridge holds in memory has a row in SQLite, "never the reverse".
THEOREM MemoryIsJournalled == OneBridge => (Spec => []MemoryOnDisk)
<1> SUFFICES ASSUME OneBridge PROVE Spec => []MemoryOnDisk
  OBVIOUS
<1>1. MemoryInv /\ [Next]_vars => MemoryInv'
  BY MemoryNext
<1>2. MemoryInv => MemoryOnDisk
  BY DEF MemoryInv, RowsApart
<1> QED BY MemoryInit, <1>1, <1>2, PTL DEF Spec
=============================================================================
