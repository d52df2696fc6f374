------------------------------ MODULE Backlog ------------------------------
(***************************************************************************)
(* BacklogManager (timescaledb.py): the SQLite journal of readings that    *)
(* could not be written, and the copy of it each bridge instance works on  *)
(* in memory. A reading gets at most one row, so a row is named by it;     *)
(* `rowid` keeps the AUTOINCREMENT order the lists are kept in. Every      *)
(* operation runs under the backlog lock and is one step.                  *)
(***************************************************************************)
EXTENDS Naturals, FiniteSets

CONSTANTS
    Points,       \* readings
    Bridges,      \* timescaledb instances the process constructs
    MaxSize,      \* max_backlog_size
    MayFailDisk   \* TRUE: the lock may be busy too long, SQLite may refuse

ASSUME BacklogAssumption ==
    /\ IsFiniteSet(Points)
    /\ MaxSize \in Nat \ {0}
    /\ MayFailDisk \in BOOLEAN

VARIABLES
    disk,       \* rows of the SQLite table
    rowid,      \* row id of each reading journalled so far, 0 for the others
    lastRow,    \* sqlite_sequence: the last id given out
    mem,        \* backlog_points / _backlog_rowids of each bridge
    inflight,   \* _inflight: rows with a copy in the flush queue
    pending,    \* _pending_deletes: acknowledged, not deleted from SQLite yet
    dropped     \* history: readings given up by a rule of the code

backlogVars == <<disk, rowid, lastRow, mem, inflight, pending, dropped>>

BacklogTypeOK ==
    /\ disk \subseteq Points /\ dropped \subseteq Points
    /\ rowid \in [Points -> Nat] /\ lastRow \in Nat
    /\ mem \in [Bridges -> SUBSET Points]
    /\ inflight \in [Bridges -> SUBSET Points]
    /\ pending \in [Bridges -> SUBSET Points]

BacklogInit ==
    /\ disk = {} /\ dropped = {}
    /\ rowid = [p \in Points |-> 0] /\ lastRow = 0
    /\ mem = [b \in Bridges |-> {}]
    /\ inflight = [b \in Bridges |-> {}]
    /\ pending = [b \in Bridges |-> {}]

\* Mutant of Load: the rows it expires stay in memory.
LoadKeepsExpired(b, expired) ==
    /\ disk' = disk \ expired
    /\ dropped' = dropped \cup expired
    /\ mem' = [mem EXCEPT ![b] = disk]
    /\ inflight' = [inflight EXCEPT ![b] = {}]
    /\ pending' = [pending EXCEPT ![b] = {}]
    /\ UNCHANGED <<rowid, lastRow>>

\* load_from_disk(): rows past max_backlog_age are deleted, the rest is kept.
Load(b, expired) ==
    /\ disk' = disk \ expired
    /\ dropped' = dropped \cup expired
    /\ mem' = [mem EXCEPT ![b] = disk \ expired]
    /\ inflight' = [inflight EXCEPT ![b] = {}]
    /\ pending' = [pending EXCEPT ![b] = {}]
    /\ UNCHANGED <<rowid, lastRow>>

\* load_from_disk() that cannot read the file: the rows wait for the next start.
LoadFails(b) == MayFailDisk /\ UNCHANGED backlogVars

\* The overflow rule: enqueue() evicts the oldest row before it inserts.
Victims(b) ==
    {p \in mem[b] : /\ Cardinality(mem[b]) >= MaxSize
                    /\ \A q \in mem[b] : rowid[p] <= rowid[q]}

\* enqueue() that returns True.
Enqueue(b, p) ==
    /\ disk' = (disk \ Victims(b)) \cup {p}
    /\ dropped' = dropped \cup Victims(b)
    /\ mem' = [mem EXCEPT ![b] = (@ \ Victims(b)) \cup {p}]
    /\ inflight' = [inflight EXCEPT ![b] = @ \ Victims(b)]
    /\ lastRow' = lastRow + 1 /\ rowid' = [rowid EXCEPT ![p] = lastRow + 1]
    /\ UNCHANGED pending

\* enqueue() that returns False (lock busy) or raises: before the eviction, or
\* between the eviction and the insert.
EnqueueFails(b, p) ==
    /\ MayFailDisk
    /\ \/ UNCHANGED backlogVars
       \/ /\ disk' = disk \ Victims(b)
          /\ dropped' = dropped \cup Victims(b)
          /\ mem' = [mem EXCEPT ![b] = @ \ Victims(b)]
          /\ inflight' = [inflight EXCEPT ![b] = @ \ Victims(b)]
          /\ UNCHANGED <<rowid, lastRow, pending>>

\* Mutant of Unqueued: rows already in the queue are copied again.
UnqueuedAll(b) == mem[b]

\* replay_to_queue() copies these rows to the flush queue, oldest first.
Unqueued(b) == mem[b] \ inflight[b]

MarkInflight(b) ==
    /\ inflight' = [inflight EXCEPT ![b] = @ \cup Unqueued(b)]
    /\ UNCHANGED <<disk, rowid, lastRow, mem, pending, dropped>>

\* ack(): a row the overflow rule has already removed is left alone.
Ack(b, p) ==
    /\ inflight' = [inflight EXCEPT ![b] = @ \ {p}]
    /\ mem' = [mem EXCEPT ![b] = @ \ {p}]
    /\ pending' = [pending EXCEPT ![b] = @ \cup ({p} \cap mem[b])]
    /\ UNCHANGED <<disk, rowid, lastRow, dropped>>

\* release()
Release(b, p) ==
    /\ inflight' = [inflight EXCEPT ![b] = @ \ {p}]
    /\ UNCHANGED <<disk, rowid, lastRow, mem, pending, dropped>>

\* Mutant of CommitRows: every row the bridge does not hold is deleted.
CommitSweeps(b) ==
    /\ pending[b] # {}
    /\ disk' = disk \cap mem[b]
    /\ pending' = [pending EXCEPT ![b] = {}]
    /\ UNCHANGED <<rowid, lastRow, mem, inflight, dropped>>

\* commit_acks(): a failed transaction leaves the rows pending.
CommitRows(b) ==
    /\ pending[b] # {}
    /\ disk' = disk \ pending[b]
    /\ pending' = [pending EXCEPT ![b] = {}]
    /\ UNCHANGED <<rowid, lastRow, mem, inflight, dropped>>

\* The process ends: the lists are gone, the file stays.
BacklogHalts ==
    /\ mem' = [b \in Bridges |-> {}]
    /\ inflight' = [b \in Bridges |-> {}]
    /\ pending' = [b \in Bridges |-> {}]
    /\ UNCHANGED <<disk, rowid, lastRow, dropped>>
=============================================================================
