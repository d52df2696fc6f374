--------------------------- MODULE FlushPipeline ---------------------------
(***************************************************************************)
(* The write path of the timescaledb bridge: write_data() puts readings on *)
(* the flush queue, the flush worker writes them to PostgreSQL or keeps    *)
(* them in the journal (module Backlog), and the reconnect thread and the  *)
(* rollup refresh loop copy the journal back to the queue. A gateway       *)
(* reload abandons a bridge without closing it: its threads live on.       *)
(*                                                                         *)
(* The item the worker has in hand stays at the head of the queue until it *)
(* is settled (task_done). One scraper feeds a bridge.                     *)
(***************************************************************************)
EXTENDS Backlog, Sequences

CONSTANTS
    StalePoints,       \* readings the staleness check may skip
    DriftPoints,       \* readings with a metric the cached columns lack
    BadPoints,         \* readings PostgreSQL refuses for their content
    AckBatch,          \* acknowledged rows deleted at once: 200
    MaxTries,          \* reconnect_attempts, 0 = unlimited
    PersistentStorage, \* enable_persistent_storage
    EnableRollups,     \* enable_rollups: registering a protocol starts the rest
    AutoRefresh,       \* enable_auto_refresh
    MayExpire,         \* TRUE: journalled readings may outlive max_backlog_age
    MayFailStart,      \* TRUE: the database may fail inside connect_tsdb()
    MayReload,         \* TRUE: the gateway may be rebuilt
    MaxOutages, MaxRefusals, MaxCrashes   \* bounds: faults of each kind

ASSUME FlushAssumption ==
    /\ StalePoints \cup DriftPoints \cup BadPoints \subseteq Points
    /\ AckBatch \in Nat \ {0} /\ MaxTries \in Nat
    /\ {PersistentStorage, EnableRollups, AutoRefresh} \subseteq BOOLEAN
    /\ {MayExpire, MayFailStart, MayReload} \subseteq BOOLEAN
    /\ {MaxOutages, MaxRefusals, MaxCrashes} \subseteq Nat

VARIABLES
    life,       \* of each bridge: none, loaded, built, live, retired
    registered, \* its protocol's schema is registered
    refresh,    \* _refresh_rollup_loop: off, sleeping, joining
    known,      \* _verified_devices has the scraper's device id
    connected,  \* tsdb_connected
    rec,        \* the reconnect thread: off or where it is
    tries,      \* attempt_no
    queue,      \* _flush_queue, with the item in hand at the head
    phase,      \* the flush worker: off, idle or where it is
    db,         \* the database server: up, down
    stored,     \* readings in the hypertables
    offered,    \* history: readings handed to write_data
    faults      \* faults so far (bounds the model)

bridgeVars == <<life, registered, refresh, known>>
recVars == <<connected, rec, tries>>
envVars == <<db, stored, offered, faults>>
flushVars == <<bridgeVars, recVars, queue, phase, envVars>>
vars == <<backlogVars, flushVars>>

Items == [point : Points, replayed : BOOLEAN]
Hand(b) == Head(queue[b])
InHand(b) == Hand(b).point

FaultKinds == {"outage", "refusal", "crash"}

FlushTypeOK ==
    /\ BacklogTypeOK
    /\ life \in [Bridges -> {"none", "loaded", "built", "live", "retired"}]
    /\ registered \in [Bridges -> BOOLEAN]
    /\ refresh \in [Bridges -> {"off", "sleeping", "joining"}]
    /\ known \in [Bridges -> BOOLEAN] /\ connected \in [Bridges -> BOOLEAN]
    /\ rec \in [Bridges -> {"off", "waiting", "answered", "flagged", "restoring",
                            "broken", "replaying", "ending"}]
    /\ tries \in [Bridges -> Nat]
    /\ queue \in [Bridges -> Seq(Items)]
    /\ phase \in [Bridges -> {"off", "idle", "judge", "gate", "write", "lost",
                              "wrote", "keep", "done"}]
    /\ \A b \in Bridges : phase[b] \notin {"off", "idle"} => queue[b] # <<>>
    /\ db \in {"up", "down"} /\ stored \subseteq Points /\ offered \subseteq Points
    /\ faults \in [FaultKinds -> Nat]

WorkInit ==
    /\ registered = [b \in Bridges |-> FALSE] /\ refresh = [b \in Bridges |-> "off"]
    /\ known = [b \in Bridges |-> FALSE] /\ connected = [b \in Bridges |-> FALSE]
    /\ rec = [b \in Bridges |-> "off"] /\ tries = [b \in Bridges |-> 0]
    /\ queue = [b \in Bridges |-> <<>>] /\ phase = [b \in Bridges |-> "off"]

Init ==
    /\ BacklogInit /\ WorkInit
    /\ life = [b \in Bridges |-> "none"]
    /\ db = "up" /\ stored = {} /\ offered = {}
    /\ faults = [k \in FaultKinds |-> 0]

----------------------------------------------------------------------------
(* Construction and the producers. *)

\* replay_to_queue()
Replay(b) ==
    \E s \in [1..Cardinality(Unqueued(b)) -> Unqueued(b)] :
        /\ \A i, j \in DOMAIN s : i < j => rowid[s[i]] < rowid[s[j]]
        /\ queue' = [queue EXCEPT ![b] =
               @ \o [i \in DOMAIN s |-> [point |-> s[i], replayed |-> TRUE]]]
        /\ MarkInflight(b)

MaybeReplay(b, allowed) ==
    IF allowed THEN Replay(b) ELSE UNCHANGED <<queue, backlogVars>>

\* __init__ up to load_from_disk(); without a database it raises before that.
Construct(b) ==
    /\ life[b] = "none" /\ db = "up"
    /\ \A c \in Bridges : life[c] \in {"none", "retired"}
    /\ life' = [life EXCEPT ![b] = "loaded"]
    /\ IF PersistentStorage
          THEN LoadFails(b) \/ \E e \in IF MayExpire THEN SUBSET disk ELSE {{}} : Load(b, e)
          ELSE UNCHANGED backlogVars
    /\ UNCHANGED <<registered, refresh, known, recVars, queue, phase, envVars>>

\* connect_tsdb() inside __init__; its failure is caught and logged.
ConnectTsdb(b) ==
    /\ life[b] = "loaded"
    /\ life' = [life EXCEPT ![b] = "built"]
    /\ \/ /\ db = "up"
          /\ connected' = [connected EXCEPT ![b] = TRUE]
          /\ phase' = [phase EXCEPT ![b] = "idle"]
       \/ /\ db = "down" \/ MayFailStart
          /\ UNCHANGED <<connected, phase>>
    /\ UNCHANGED <<backlogVars, registered, refresh, known, rec, tries, queue, envVars>>

\* _register_protocol_schema(), the first time it succeeds.
Register(b) ==
    /\ registered' = [registered EXCEPT ![b] = TRUE]
    /\ refresh' = [refresh EXCEPT ![b] = IF AutoRefresh THEN "sleeping" ELSE @]
    /\ MaybeReplay(b, EnableRollups /\ PersistentStorage)

\* init_bridge(): a failed registration is left to the reconnect thread.
InitBridge(b) ==
    /\ life[b] = "built"
    /\ life' = [life EXCEPT ![b] = "live"]
    /\ IF connected[b] /\ db = "up" THEN Register(b)
       ELSE UNCHANGED <<backlogVars, registered, refresh, queue>>
    /\ UNCHANGED <<known, recVars, phase, envVars>>

\* write_data()
WriteData(b, p) ==
    /\ life[b] = "live" /\ p \notin offered
    /\ offered' = offered \cup {p}
    /\ IF known[b] \/ db = "up"
          THEN /\ known' = [known EXCEPT ![b] = TRUE]
               /\ queue' = [queue EXCEPT ![b] = Append(@, [point |-> p, replayed |-> FALSE])]
               /\ UNCHANGED backlogVars
          ELSE /\ dropped' = dropped \cup {p}    \* no device id: packet dropped
               /\ UNCHANGED <<disk, rowid, lastRow, mem, inflight, pending, known, queue>>
    /\ UNCHANGED <<life, registered, refresh, recVars, phase, db, stored, faults>>

\* One round of _refresh_rollup_loop(), then _flush_queue.join().
Refresh(b) ==
    /\ refresh[b] = "sleeping" /\ connected[b] /\ Unqueued(b) # {}
    /\ refresh' = [refresh EXCEPT ![b] = "joining"]
    /\ Replay(b)
    /\ UNCHANGED <<life, registered, known, recVars, phase, envVars>>

Joined(b) ==
    /\ refresh[b] = "joining" /\ queue[b] = <<>>
    /\ refresh' = [refresh EXCEPT ![b] = "sleeping"]
    /\ UNCHANGED <<backlogVars, life, registered, known, recVars, queue, phase, envVars>>

----------------------------------------------------------------------------
(* The flush worker. *)

GoTo(b, next) == phase' = [phase EXCEPT ![b] = next]

\* commit_acks(): when the queue is empty or the batch is full.
CommitAcks(b) ==
    /\ phase[b] = "idle"
    /\ queue[b] = <<>> \/ Cardinality(pending[b]) >= AckBatch
    /\ CommitRows(b)
    /\ UNCHANGED flushVars

\* Mutant of Get: a timeout of queue.get() is taken for an item.
GetBlind(b) ==
    /\ phase[b] = "idle"
    /\ GoTo(b, "judge")
    /\ UNCHANGED <<backlogVars, bridgeVars, recVars, queue, envVars>>

\* A full batch is committed before the next item unless SQLite refuses.
Get(b) ==
    /\ phase[b] = "idle" /\ queue[b] # <<>>
    /\ Cardinality(pending[b]) < AckBatch \/ MayFailDisk
    /\ GoTo(b, "judge")
    /\ UNCHANGED <<backlogVars, bridgeVars, recVars, queue, envVars>>

\* Give a reading up.
Drop(p) ==
    /\ dropped' = dropped \cup {p}
    /\ UNCHANGED <<disk, rowid, lastRow, mem, inflight, pending>>

\* _check_is_stale() and _validate_wide_row(), which may have to ask the
\* database for the table's columns: its error is not handled there, and the
\* worker settles the item like one it wrote.
Judge(b) ==
    /\ phase[b] = "judge"
    /\ \/ GoTo(b, "gate") /\ (InHand(b) \in DriftPoints => db = "up") /\ UNCHANGED backlogVars
       \/ /\ InHand(b) \in StalePoints /\ ~Hand(b).replayed
          /\ GoTo(b, "done") /\ Drop(InHand(b))
       \/ /\ InHand(b) \in DriftPoints /\ db = "up"
          /\ GoTo(b, "done") /\ Drop(InHand(b))
       \/ /\ InHand(b) \in DriftPoints /\ db = "down"
          /\ GoTo(b, "done") /\ UNCHANGED backlogVars
    /\ UNCHANGED <<bridgeVars, recVars, queue, envVars>>

\* A write is not attempted while a reconnect thread is at work.
Gate(b) ==
    /\ phase[b] = "gate"
    /\ GoTo(b, IF ~connected[b] /\ rec[b] # "off" THEN "keep" ELSE "write")
    /\ UNCHANGED <<backlogVars, bridgeVars, recVars, queue, envVars>>

\* A fault of this kind happens.
Fault(k, limit) ==
    /\ faults[k] < limit
    /\ faults' = [faults EXCEPT ![k] = @ + 1]

\* The transaction commits. A row already there may be refused as a duplicate
\* (the wide table's primary key) or skipped (the narrow table alone).
WriteCommits(b) ==
    /\ db = "up" /\ InHand(b) \notin BadPoints
    /\ stored' = stored \cup {InHand(b)}
    /\ GoTo(b, "wrote")
    /\ UNCHANGED <<backlogVars, db, faults>>

\* The database refuses the batch: dropped, unless flagged disconnected.
WriteRejected(b) ==
    /\ db = "up" /\ InHand(b) \in BadPoints \cup stored
    /\ IF connected[b]
          THEN GoTo(b, "done") /\ IF InHand(b) \in stored THEN UNCHANGED backlogVars
                                                          ELSE Drop(InHand(b))
          ELSE GoTo(b, "keep") /\ UNCHANGED backlogVars
    /\ UNCHANGED <<db, stored, faults>>

\* Mutant of WriteRefused: a refusal for now treated as a refusal for good.
RefusedSettles(b) ==
    /\ db = "up" /\ Fault("refusal", MaxRefusals)
    /\ GoTo(b, "done")
    /\ UNCHANGED <<backlogVars, db, stored>>

\* Lock timeout, deadlock, out of resources: the reading is kept.
WriteRefused(b) ==
    /\ db = "up" /\ Fault("refusal", MaxRefusals)
    /\ GoTo(b, "keep")
    /\ UNCHANGED <<backlogVars, db, stored>>

\* No answer: the database was down, or went down, perhaps after the commit.
WriteUnanswered(b) ==
    /\ GoTo(b, "lost")
    /\ \/ db = "down" /\ UNCHANGED <<db, stored, faults>>
       \/ /\ db = "up" /\ Fault("outage", MaxOutages) /\ db' = "down"
          /\ stored' = stored \cup {InHand(b)}
    /\ UNCHANGED backlogVars

Write(b) ==
    /\ phase[b] = "write"
    /\ WriteCommits(b) \/ WriteRejected(b) \/ WriteRefused(b) \/ WriteUnanswered(b)
    /\ UNCHANGED <<bridgeVars, recVars, queue, offered>>

\* _trigger_reconnect()
Trigger(b) ==
    /\ connected' = [connected EXCEPT ![b] = FALSE]
    /\ rec' = [rec EXCEPT ![b] = IF @ = "off" THEN "waiting" ELSE @]
    /\ tries' = [tries EXCEPT ![b] = IF rec[b] = "off" THEN 0 ELSE @]

\* A connection error: flag the outage, start the reconnect thread, keep.
Lost(b) ==
    /\ phase[b] = "lost"
    /\ Trigger(b) /\ GoTo(b, "keep")
    /\ UNCHANGED <<backlogVars, bridgeVars, queue, envVars>>

\* Mutant of AfterWrite: a committed write does not start the recovery.
AfterWriteQuiet(b) ==
    /\ phase[b] = "wrote"
    /\ GoTo(b, "done")
    /\ UNCHANGED <<backlogVars, bridgeVars, recVars, queue, envVars>>

\* _recover_if_flagged_disconnected()
AfterWrite(b) ==
    /\ phase[b] = "wrote"
    /\ IF connected[b] \/ rec[b] # "off" THEN UNCHANGED recVars ELSE Trigger(b)
    /\ GoTo(b, "done")
    /\ UNCHANGED <<backlogVars, bridgeVars, queue, envVars>>

\* The end of _flush_one(): where the item lives now, then task_done().
Settle(b) ==
    /\ phase[b] \in {"keep", "done"}
    /\ \/ Hand(b).replayed /\ phase[b] = "done" /\ Ack(b, InHand(b))
       \/ Hand(b).replayed /\ phase[b] = "keep" /\ Release(b, InHand(b))
       \/ /\ ~Hand(b).replayed /\ phase[b] = "keep" /\ PersistentStorage
          /\ Enqueue(b, InHand(b)) \/ EnqueueFails(b, InHand(b))
       \/ /\ ~Hand(b).replayed /\ (phase[b] = "done" \/ ~PersistentStorage)
          /\ UNCHANGED backlogVars
    /\ queue' = [queue EXCEPT ![b] = Tail(@)]
    /\ GoTo(b, "idle")
    /\ UNCHANGED <<bridgeVars, recVars, envVars>>

Work(b) == Get(b) \/ Judge(b) \/ Gate(b) \/ Write(b) \/ Lost(b) \/ AfterWrite(b) \/ Settle(b)

----------------------------------------------------------------------------
(* The reconnect thread: _attempt_reconnect(). *)

Reach(b, here, next) ==
    /\ rec[b] = here
    /\ rec' = [rec EXCEPT ![b] = next]

\* Where a failed attempt leads.
Retry(b) ==
    IF MaxTries = 0 \/ tries'[b] < MaxTries THEN "waiting" ELSE "ending"

\* SELECT 1 after the delay.
Attempt(b) ==
    /\ tries' = [tries EXCEPT ![b] = IF MaxTries = 0 THEN 0 ELSE @ + 1]
    /\ IF db = "up" THEN Reach(b, "waiting", "answered") /\ UNCHANGED connected
       ELSE Reach(b, "waiting", Retry(b)) /\ connected' = [connected EXCEPT ![b] = FALSE]
    /\ UNCHANGED <<backlogVars, bridgeVars, queue, phase, envVars>>

Flag(b) ==
    /\ Reach(b, "answered", "flagged")
    /\ connected' = [connected EXCEPT ![b] = TRUE]
    /\ UNCHANGED <<backlogVars, bridgeVars, tries, queue, phase, envVars>>

\* The flag is read again: the worker may have cleared it meanwhile.
Recheck(b) ==
    /\ UNCHANGED <<backlogVars, bridgeVars, connected, tries, queue, phase, envVars>>
    /\ Reach(b, "flagged", IF connected[b] THEN "restoring" ELSE Retry(b))

\* _rediscover_protocols(): without a database the failed registrations fail
\* again, and it gives up silently or raises half way.
Rediscover(b) ==
    /\ \/ db = "up" /\ Reach(b, "restoring", "replaying")
       \/ db = "down" /\ (Reach(b, "restoring", "replaying") \/ Reach(b, "restoring", "broken"))
    /\ IF db = "up" /\ life[b] \in {"live", "retired"} /\ ~registered[b]
          THEN Register(b)
          ELSE UNCHANGED <<backlogVars, registered, refresh, queue>>
    /\ UNCHANGED <<life, known, connected, tries, phase, envVars>>

\* The exception is logged and the thread goes on.
RediscoverRaised(b) ==
    /\ Reach(b, "broken", "replaying")
    /\ UNCHANGED <<backlogVars, bridgeVars, connected, tries, queue, phase, envVars>>

ReplayAfterReconnect(b) ==
    /\ Reach(b, "replaying", "ending")
    /\ MaybeReplay(b, PersistentStorage)
    /\ UNCHANGED <<bridgeVars, connected, tries, phase, envVars>>

RecEnds(b) ==
    /\ Reach(b, "ending", "off")
    /\ UNCHANGED <<backlogVars, bridgeVars, connected, tries, queue, phase, envVars>>

Reconnect(b) ==
    Attempt(b) \/ Flag(b) \/ Recheck(b) \/ Rediscover(b) \/ RediscoverRaised(b)
        \/ ReplayAfterReconnect(b) \/ RecEnds(b)

----------------------------------------------------------------------------
(* The gateway, the process and the database server. *)

\* The gateway is stopped: nothing closes the bridge, its threads go on.
Retire(b) ==
    /\ MayReload /\ life[b] = "live"
    /\ life' = [life EXCEPT ![b] = "retired"]
    /\ UNCHANGED <<backlogVars, registered, refresh, known, recVars, queue, phase, envVars>>

\* The process ends, cleanly or not: the threads are daemons.
Crash ==
    /\ Fault("crash", MaxCrashes)
    /\ life' = [b \in Bridges |-> "none"]
    /\ registered' = [b \in Bridges |-> FALSE] /\ refresh' = [b \in Bridges |-> "off"]
    /\ known' = [b \in Bridges |-> FALSE] /\ connected' = [b \in Bridges |-> FALSE]
    /\ rec' = [b \in Bridges |-> "off"] /\ tries' = [b \in Bridges |-> 0]
    /\ queue' = [b \in Bridges |-> <<>>] /\ phase' = [b \in Bridges |-> "off"]
    /\ BacklogHalts
    /\ UNCHANGED <<db, stored, offered>>

DbDown ==
    /\ db = "up" /\ Fault("outage", MaxOutages)
    /\ db' = "down"
    /\ UNCHANGED <<backlogVars, bridgeVars, recVars, queue, phase, stored, offered>>

DbUp ==
    /\ db = "down" /\ db' = "up"
    /\ UNCHANGED <<backlogVars, bridgeVars, recVars, queue, phase, stored, offered, faults>>

Producer(b) ==
    \/ Construct(b) \/ ConnectTsdb(b) \/ InitBridge(b) \/ Retire(b)
    \/ \E p \in Points : WriteData(b, p)

Next ==
    \/ \E b \in Bridges : Producer(b) \/ CommitAcks(b) \/ Work(b) \/ Reconnect(b)
                              \/ Refresh(b) \/ Joined(b)
    \/ Crash \/ DbDown \/ DbUp

Spec == Init /\ [][Next]_vars

\* Every thread runs; nobody has to send data, and the database need not return.
Fairness ==
    \A b \in Bridges :
        /\ WF_vars(Work(b)) /\ WF_vars(CommitAcks(b)) /\ WF_vars(Reconnect(b))
        /\ WF_vars(Refresh(b)) /\ WF_vars(Joined(b))
        /\ WF_vars(ConnectTsdb(b)) /\ WF_vars(InitBridge(b))

FairSpec == Spec /\ Fairness

----------------------------------------------------------------------------
(* What the write path must not do, and what it must. *)

InQueue(b, p) == \E i \in DOMAIN queue[b] : queue[b][i].point = p

\* What has become of a reading, as DurableStore tells it.
fate == [p \in Points |->
    IF p \in stored THEN "stored"
    ELSE IF p \in dropped THEN "dropped"
    ELSE IF p \in disk THEN "durable"
    ELSE IF \E b \in Bridges : InQueue(b, p) THEN "volatile"
    ELSE IF p \in offered THEN "lost" ELSE "none"]

Store == INSTANCE DurableStore

\* Only a reading that is not in the journal can vanish: whatever a crash, an
\* outage, an eviction or a reload does, the rows of SQLite end up in the
\* database or are given up by a rule (module DurableStore).
ReadingsAreDurable == Store!Spec

\* Once enqueue() has journalled a reading, its row is deleted only after the
\* reading was stored or given up by a rule.
JournalKeepsUnwritten ==
    \A p \in Points : rowid[p] # 0 => p \in disk \cup stored \cup dropped

\* BacklogManager's atomicity contract: a reading in memory is in SQLite.
MemoryOnDisk == \A b \in Bridges : mem[b] \subseteq disk

\* ack() and release() settle a row once: the queue never holds two copies of
\* it, whoever asked for the replay.
Copies(b, p) == {i \in DOMAIN queue[b] : queue[b][i] = [point |-> p, replayed |-> TRUE]}

OneCopy ==
    \A b \in Bridges, p \in Points : Cardinality(Copies(b, p)) <= 1

\* max_backlog_size caps the readings kept in the journal.
CapHolds == \A b \in Bridges : Cardinality(mem[b]) <= MaxSize

\* The journal drains as long as a bridge whose refresh loop was started gets
\* connected again and again.
BacklogDrains ==
    \A p \in Points :
        []<>(\E b \in Bridges : connected[b] /\ registered[b]) => (p \in disk ~> p \notin disk)

\* A write that commits while the bridge is flagged disconnected puts it back
\* on its feet, unless the database goes away again.
CommittedWriteRecovers ==
    \A b \in Bridges :
        (phase[b] = "wrote" /\ ~connected[b]) ~> (connected[b] \/ db = "down" \/ life[b] = "none")

\* An outage ends: what was journalled meanwhile is written, and the bridge is
\* connected again even if its write had committed all the same.
OutagesEnd == BacklogDrains /\ CommittedWriteRecovers

\* A protocol that could not be registered at startup is registered once the
\* database stays reachable.
StartupRecovers ==
    \A b \in Bridges :
        <>[](life[b] = "live" /\ db = "up" /\ offered = Points) => <>registered[b]

\* A connection error during rediscovery counts as a failed attempt.
RediscoverFailureRetries ==
    [][\A b \in Bridges : rec[b] = "broken" => rec'[b] \in {"broken", "waiting"}]_rec
=============================================================================
