-------------------------- MODULE ScrapeScheduler ---------------------------
(***************************************************************************)
(* How one running gateway schedules its scrapers: the polling loop of     *)
(* Protocol_Gateway.run(), the scrape groups, the three read modes, and    *)
(* what reaches the bridges.                                               *)
(*                                                                         *)
(* A cycle is one read of a group's device.  It is named by the set of     *)
(* members it was started for: in interleaved mode the due members (the    *)
(* key of __il_active_cycles), otherwise the whole group.  A worker thread *)
(* reads block after block while the loop goes on ticking; the result is   *)
(* forwarded by the loop (interleaved) or by the worker itself.            *)
(*                                                                         *)
(* A block is one register range, numbered in wire order; its value is the *)
(* time it was read (0: not read), which is all the properties look at.    *)
(* The code decodes a register type once its last range is in; here every  *)
(* range is decoded when it has been read, as if alone of its type.        *)
(***************************************************************************)
EXTENDS Integers

CONSTANTS
    Groups,         \* the scrape targets
    GroupOrder,     \* their order in __scrape_groups
    Members,        \* the scraper transports
    MemberOrder,    \* their order in the configuration
    GroupOf,        \* the target each scraper reads
    Interval,       \* read_interval of each scraper
    Primary,        \* group -> the member that does the reading
    Blocks,         \* the register ranges, in wire order
    Wants,          \* the blocks a scraper's registry map and mask ask for
    Bridges,        \* the output transports
    BridgesOf,      \* the bridges of each scraper
    WholeBridges,   \* those with write_requires_complete_cycle
    Modes,          \* the values read_mode may have
    Timeout,        \* interleaved_cycle_timeout()
    StartTime,      \* the clock at start, late enough for all to be due
    MaxTime,        \* bound on the clock
    MaxFaults,      \* bound on failing reads and bridge writes and stale reports
    NoMember        \* stands for no member

ReadModes == {"sequential", "concurrent", "interleaved"}

Keys == (SUBSET Members) \ {{}}
MembersOf(g) == {m \in Members : GroupOf[m] = g}
BlocksOf(g) == UNION {Wants[m] : m \in MembersOf(g)}

\* A group is read as often as its fastest member asks.
ScrapeInterval(g) == Interval[Primary[g]]

ASSUME GroupsAssumption ==
    /\ GroupOrder \in [Groups -> Nat]
    /\ MemberOrder \in [Members -> Nat]
    /\ GroupOf \in [Members -> Groups]
    /\ NoMember \notin Members

ASSUME TimingAssumption ==
    /\ Interval \in [Members -> Nat \ {0}]
    /\ Timeout \in Nat
    /\ StartTime \in Nat
    /\ MaxTime \in Nat
    /\ MaxFaults \in Nat
    /\ \A m \in Members : Interval[m] <= StartTime

\* add_member() promotes whoever is strictly faster.
ASSUME PrimaryAssumption ==
    \A g \in Groups :
        /\ Primary[g] \in MembersOf(g)
        /\ \A m \in MembersOf(g) : Interval[Primary[g]] <= Interval[m]

ASSUME DataAssumption ==
    /\ Blocks \subseteq Nat
    /\ Wants \in [Members -> SUBSET Blocks]
    /\ BridgesOf \in [Members -> SUBSET Bridges]
    /\ WholeBridges \subseteq Bridges
    /\ Modes \subseteq ReadModes

VARIABLES
    mode,           \* __read_mode
    now,            \* time.time()
    faults,         \* faults so far
    agenda,         \* sequential: the ready groups the loop still has to read
    tick,           \* the loop's "now", taken when it built the agenda
    lastRead,       \* group -> last_read_time of its primary
    lastForward,    \* member -> _member_last_forward
    phase,          \* key -> where that cycle stands
    cycleNow,       \* key -> the tick it was started for (cycle_now)
    late,           \* key -> timed_out
    left,           \* key -> the blocks still to be read
    connected,      \* group -> connected of its primary
    isComplete,     \* group -> is_complete of the primary's last cycle result
    store,          \* member -> block -> _partial_info
    begun,          \* group -> when its last cycle began reading (history)
    sent            \* bridge -> member -> the last thing written (history)

cycleVars == <<phase, cycleNow, late, left>>
deviceVars == <<connected, isComplete, store, begun>>
forwardVars == <<lastForward, sent>>
vars == <<mode, now, faults, agenda, tick, lastRead, cycleVars, deviceVars,
          forwardVars>>

Phases == {"idle", "queued", "reading", "read"}

Empty == [b \in Blocks |-> 0]
Nothing == [tick |-> 0, stamps |-> {}]

Busy(k) == phase[k] # "idle"
InFlight(k) == phase[k] \in {"queued", "reading"}
GroupOfKey(k) == GroupOf[CHOOSE m \in k : TRUE]

First(S) == CHOOSE b \in S : \A c \in S : b <= c

MembersDue(g, t) ==
    {m \in MembersOf(g) : t - lastForward[m] >= Interval[m]}

Ready(g) == now - lastRead[g] >= ScrapeInterval(g)

Init ==
    /\ mode \in Modes
    /\ now = StartTime
    /\ faults = 0
    /\ agenda = {}
    /\ tick = 0
    /\ lastRead = [g \in Groups |-> 0]
    /\ lastForward = [m \in Members |-> 0]
    /\ phase = [k \in Keys |-> "idle"]
    /\ cycleNow = [k \in Keys |-> 0]
    /\ late = [k \in Keys |-> FALSE]
    /\ left = [k \in Keys |-> {}]
    /\ connected \in [Groups -> BOOLEAN]
    /\ isComplete = [g \in Groups |-> TRUE]
    /\ store = [m \in Members |-> Empty]
    /\ begun = [g \in Groups |-> 0]
    /\ sent = [b \in Bridges |-> [m \in Members |-> Nothing]]
-----------------------------------------------------------------------------
(***************************************************************************)
(* The polling loop.                                                       *)
(***************************************************************************)
Tick ==
    /\ now < MaxTime
    /\ now' = now + 1
    /\ UNCHANGED <<mode, faults, agenda, tick, lastRead, cycleVars,
                   deviceVars, forwardVars>>

\* Submit a read for every key of ks.
Submit(ks, t) ==
    /\ phase' = [k \in Keys |-> IF k \in ks THEN "queued" ELSE phase[k]]
    /\ cycleNow' = [k \in Keys |-> IF k \in ks THEN t ELSE cycleNow[k]]
    /\ late' = [k \in Keys |-> IF k \in ks THEN FALSE ELSE late[k]]
    /\ UNCHANGED left

MarkScanned ==
    lastRead' = [g \in Groups |-> IF Ready(g) THEN now ELSE lastRead[g]]

\* Sequential: the loop itself reads the ready groups one after the other.
ScanSequential ==
    /\ mode = "sequential"
    /\ agenda = {}
    /\ \A k \in Keys : ~Busy(k)
    /\ \E g \in Groups : Ready(g)
    /\ MarkScanned
    /\ agenda' = {g \in Groups : Ready(g)}
    /\ tick' = now
    /\ UNCHANGED <<mode, now, faults, cycleVars, deviceVars, forwardVars>>

ReadNextGroup ==
    /\ \A k \in Keys : ~Busy(k)
    /\ \E g \in agenda :
           /\ \A h \in agenda : GroupOrder[g] <= GroupOrder[h]
           /\ Submit({MembersOf(g)}, tick)
           /\ agenda' = agenda \ {g}
    /\ UNCHANGED <<mode, now, faults, tick, lastRead, deviceVars, forwardVars>>

\* Concurrent: one future per group, not submitted while the last one runs.
ScanConcurrent ==
    /\ mode = "concurrent"
    /\ \E g \in Groups : Ready(g)
    /\ MarkScanned
    /\ Submit({k \in {MembersOf(g) : g \in {h \in Groups : Ready(h)}} :
                  ~Busy(k)}, now)
    /\ UNCHANGED <<mode, now, faults, agenda, tick, deviceVars, forwardVars>>

\* Mutant of Overlaps: only the very same set of members counts as running.
SameKeyBusy(due) == due \in Keys /\ Busy(due)

\* A cycle over these members would overlap one that is still running.
Overlaps(due) == \E k \in Keys : Busy(k) /\ k \cap due # {}

\* Interleaved: one cycle per ready group, for the members that are due.
ScanInterleaved ==
    /\ mode = "interleaved"
    /\ \E g \in Groups : Ready(g)
    /\ MarkScanned
    /\ Submit({due \in {MembersDue(g, now) : g \in {h \in Groups : Ready(h)}} :
                  due # {} /\ ~Overlaps(due)}, now)
    /\ UNCHANGED <<mode, now, faults, agenda, tick, deviceVars, forwardVars>>
-----------------------------------------------------------------------------
(***************************************************************************)
(* The worker that reads one device.                                       *)
(***************************************************************************)
Fault ==
    /\ faults < MaxFaults
    /\ faults' = faults + 1

\* The future of cycle k has ended; its result waits to be forwarded.
Finish(k) ==
    /\ phase' = [phase EXCEPT ![k] = "read"]
    /\ left' = [left EXCEPT ![k] = {}]
    /\ UNCHANGED <<cycleNow, late>>

\* Mutant of Retire: the blocks it had still to read stay behind.
RetireLeavesBlocks(k) ==
    /\ phase' = [phase EXCEPT ![k] = "idle"]
    /\ cycleNow' = [cycleNow EXCEPT ![k] = 0]
    /\ late' = [late EXCEPT ![k] = FALSE]
    /\ UNCHANGED left

\* Cycle k is over and forgotten.
Retire(k) ==
    /\ phase' = [phase EXCEPT ![k] = "idle"]
    /\ left' = [left EXCEPT ![k] = {}]
    /\ cycleNow' = [cycleNow EXCEPT ![k] = 0]
    /\ late' = [late EXCEPT ![k] = FALSE]

\* _start_cycle_tracking() on the primary, and on nobody else.
StartTracking(k) ==
    LET g == GroupOfKey(k) IN
    /\ phase' = [phase EXCEPT ![k] = "reading"]
    /\ left' = [left EXCEPT ![k] = BlocksOf(g)]
    /\ isComplete' = [isComplete EXCEPT ![g] = TRUE]
    /\ store' = [store EXCEPT ![Primary[g]] = Empty]
    /\ begun' = [begun EXCEPT ![g] = now]
    /\ UNCHANGED <<cycleNow, late>>

\* Connect if need be; grouped reads do not look at the result.
BeginRead(k) ==
    LET g == GroupOfKey(k) IN
    /\ phase[k] = "queued"
    /\ StartTracking(k)
    /\ \/ connected' = [connected EXCEPT ![g] = TRUE]
       \/ ~connected[g] /\ mode # "interleaved" /\ UNCHANGED connected
    /\ UNCHANGED <<mode, now, faults, agenda, tick, lastRead, forwardVars>>

\* Interleaved: a reader that cannot reconnect returns without reading.
SkipOffline(k) ==
    /\ phase[k] = "queued"
    /\ mode = "interleaved"
    /\ ~connected[GroupOfKey(k)]
    /\ Finish(k)
    /\ UNCHANGED <<mode, now, faults, agenda, tick, lastRead, deviceVars, forwardVars>>

\* What the members hold once block b has been read: grouped reads fill the
\* primary's dictionary only; the interleaved ones each member's own, and then
\* copy all of them, whatever their age, into the primary's.
Decoded(g, b) ==
    LET fresh == [m \in Members |->
                     IF GroupOf[m] = g /\ b \in Wants[m]
                     THEN [store[m] EXCEPT ![b] = now] ELSE store[m]]
    IN  IF mode = "interleaved" THEN fresh
        ELSE [store EXCEPT ![Primary[g]] = [@ EXCEPT ![b] = now]]

Merged(g, held) ==
    LET p == Primary[g]
        Holders(b) == {m \in MembersOf(g) : held[m][b] # 0}
    IN  IF mode # "interleaved" THEN held
        ELSE [held EXCEPT ![p] = [b \in Blocks |->
                 IF held[p][b] # 0 \/ Holders(b) = {} THEN held[p][b]
                 ELSE held[CHOOSE m \in Holders(b) : TRUE][b]]]

BlockRead(k) ==
    LET g == GroupOfKey(k)
        b == First(left[k])
    IN
    /\ phase[k] = "reading"
    /\ left[k] # {}
    /\ left' = [left EXCEPT ![k] = @ \ {b}]
    /\ store' = Merged(g, Decoded(g, b))
    /\ UNCHANGED <<mode, now, faults, agenda, tick, lastRead, phase, cycleNow, late,
                   connected, isComplete, begun, forwardVars>>

\* Mutant of BlockLost: the cycle is not marked incomplete.
BlockLostQuietly(k) ==
    /\ phase[k] = "reading"
    /\ left[k] # {}
    /\ Fault
    /\ left' = [left EXCEPT ![k] = @ \ {First(@)}]
    /\ store' = Merged(GroupOfKey(k), store)
    /\ UNCHANGED <<mode, now, agenda, tick, lastRead, phase, cycleNow, late, begun,
                   connected, isComplete, forwardVars>>

\* Retries used up, or the range disabled; the link may be gone too.
BlockLost(k) ==
    LET g == GroupOfKey(k) IN
    /\ phase[k] = "reading"
    /\ left[k] # {}
    /\ Fault
    /\ left' = [left EXCEPT ![k] = @ \ {First(@)}]
    /\ store' = Merged(g, store)
    /\ isComplete' = [isComplete EXCEPT ![g] = FALSE]
    /\ \E up \in BOOLEAN :
           connected' = [connected EXCEPT ![g] = @ /\ up]
    /\ UNCHANGED <<mode, now, agenda, tick, lastRead, phase, cycleNow, late, begun,
                   forwardVars>>

EndRead(k) ==
    /\ phase[k] = "reading"
    /\ left[k] = {}
    /\ Finish(k)
    /\ UNCHANGED <<mode, now, faults, agenda, tick, lastRead, deviceVars,
                   forwardVars>>

\* connect() or the read itself may raise.
MayRaise(k) ==
    \/ phase[k] = "reading"
    \/ phase[k] = "queued" /\ ~connected[GroupOfKey(k)]

\* Interleaved: whatever connect() or the read raises, the cycle is marked
\* incomplete and its result is routed all the same.
ReadRaises(k) ==
    LET g == GroupOfKey(k) IN
    /\ mode = "interleaved"
    /\ MayRaise(k)
    /\ Fault
    /\ Finish(k)
    /\ isComplete' = [isComplete EXCEPT ![g] = FALSE]
    /\ UNCHANGED <<mode, now, agenda, tick, lastRead, connected, store, begun,
                   forwardVars>>

\* Grouped reads: after a network error the handler connects once more; if that
\* raises as well, a sequential loop abandons the groups it had left.
HandleError(g) ==
    /\ \E up \in BOOLEAN : connected' = [connected EXCEPT ![g] = up]
    /\ agenda' = agenda \/ agenda' = {}

GroupReadRaises(k) ==
    /\ mode # "interleaved"
    /\ MayRaise(k)
    /\ Fault
    /\ Retire(k)
    /\ HandleError(GroupOfKey(k))
    /\ UNCHANGED <<mode, now, tick, lastRead, isComplete, store, begun,
                   forwardVars>>
-----------------------------------------------------------------------------
(***************************************************************************)
(* Forwarding.                                                             *)
(***************************************************************************)

\* Mutant of Served: every member of the group, due or not.
ServedAll(k) == MembersOf(GroupOfKey(k))

\* The members served: those due at the cycle's tick; a lone scraper read in
\* interleaved mode is served without being asked again.
Served(k) ==
    LET g == GroupOfKey(k) IN
    IF mode = "interleaved" /\ MembersOf(g) = {Primary[g]}
    THEN MembersOf(g)
    ELSE MembersDue(g, cycleNow[k])

\* The data a member is given, filtered by its mask.
Source(m) == IF mode = "interleaved" THEN m ELSE Primary[GroupOf[m]]
Stamps(m) == {store[Source(m)][b] : b \in Wants[m]}
HasData(m) == \E t \in Stamps(m) : t # 0

\* write_requires_complete_cycle
Allowed(m) ==
    {b \in BridgesOf[m] : b \notin WholeBridges \/ isComplete[GroupOf[m]]}

\* Write to the bridges of every member of ms, and to those in part of stop,
\* whose next bridge raises.
Deliver(k, ms, stop, part) ==
    /\ sent' = [b \in Bridges |-> [m \in Members |->
           IF (m \in ms /\ b \in Allowed(m)) \/ (m = stop /\ b \in part)
           THEN [tick |-> cycleNow[k], stamps |-> Stamps(m)]
           ELSE sent[b][m]]]
    /\ lastForward' = [m \in Members |->
           IF m \in ms THEN cycleNow[k] ELSE lastForward[m]]

\* _route_interleaved_state() in the loop, the second half of
\* _process_group_read() in the worker.
Forward(k) ==
    LET due == {m \in Served(k) : HasData(m)} IN
    /\ phase[k] = "read"
    /\ ~late[k]
    /\ Retire(k)
    /\ \/ /\ Deliver(k, due, NoMember, {})
          /\ UNCHANGED <<faults, agenda, connected>>
       \/ \E stop \in due : \E part \in SUBSET Allowed(stop) :
              /\ part # Allowed(stop)
              /\ Fault
              /\ Deliver(k, {m \in due : MemberOrder[m] < MemberOrder[stop]},
                         stop, part)
              /\ IF mode = "interleaved" THEN UNCHANGED <<agenda, connected>>
                 ELSE HandleError(GroupOfKey(k))
    /\ UNCHANGED <<mode, now, tick, lastRead, isComplete, store, begun>>

\* _poll_interleaved_cycles() gives a cycle up; one that has not started is
\* cancelled, one that runs keeps its key until it ends.
TimeOut(k) ==
    /\ mode = "interleaved"
    /\ InFlight(k)
    /\ ~late[k]
    /\ now - cycleNow[k] > Timeout
    /\ IF phase[k] = "queued" THEN Retire(k)
       ELSE /\ late' = [late EXCEPT ![k] = TRUE]
            /\ UNCHANGED <<phase, cycleNow, left>>
    /\ UNCHANGED <<mode, now, faults, agenda, tick, lastRead, deviceVars,
                   forwardVars>>

\* The result of a cycle given up is dropped.
RetireLate(k) ==
    /\ phase[k] = "read"
    /\ late[k]
    /\ Retire(k)
    /\ UNCHANGED <<mode, now, faults, agenda, tick, lastRead, deviceVars,
                   forwardVars>>

\* reconnect_upstream_bridge(): a bridge finds the data of group g stale.
StaleReport(g) ==
    /\ Fault
    /\ connected' = [connected EXCEPT ![g] = FALSE]
    /\ lastRead' = [lastRead EXCEPT ![g] = 0]
    /\ UNCHANGED <<mode, now, agenda, tick, cycleVars, isComplete, store, begun,
                   forwardVars>>
-----------------------------------------------------------------------------
Read(k) ==
    \/ BeginRead(k)
    \/ SkipOffline(k)
    \/ BlockRead(k)
    \/ BlockLost(k)
    \/ EndRead(k)
    \/ ReadRaises(k)
    \/ GroupReadRaises(k)

Next ==
    \/ Tick
    \/ ScanSequential
    \/ ReadNextGroup
    \/ ScanConcurrent
    \/ ScanInterleaved
    \/ \E k \in Keys : Read(k) \/ Forward(k) \/ TimeOut(k) \/ RetireLate(k)
    \/ \E g \in Groups : StaleReport(g)

Spec == Init /\ [][Next]_vars
-----------------------------------------------------------------------------
(***************************************************************************)
(* Properties.                                                             *)
(***************************************************************************)
\* Every variable has its type; only a cycle that is reading has blocks left,
\* and only the sequential loop has an agenda.
ScrapeTypeOK ==
    /\ mode \in Modes
    /\ now \in Nat
    /\ faults \in Nat
    /\ agenda \in SUBSET Groups
    /\ tick \in Nat
    /\ lastRead \in [Groups -> Nat]
    /\ lastForward \in [Members -> Nat]
    /\ phase \in [Keys -> Phases]
    /\ cycleNow \in [Keys -> Nat]
    /\ late \in [Keys -> BOOLEAN]
    /\ left \in [Keys -> SUBSET Blocks]
    /\ connected \in [Groups -> BOOLEAN]
    /\ isComplete \in [Groups -> BOOLEAN]
    /\ store \in [Members -> [Blocks -> Nat]]
    /\ begun \in [Groups -> Nat]
    /\ sent \in [Bridges -> [Members -> [tick : Nat, stamps : SUBSET Nat]]]
    /\ \A k \in Keys : left[k] # {} => phase[k] = "reading"
    /\ agenda # {} => mode = "sequential"

\* One cycle at a time reads a device: no two keys of one group are busy
\* together, although a key is only the set of members due when it was built
\* (the guard of _process_transports_interleaved() and the future kept by
\* _submit_concurrent_group_read()).
OneReader ==
    \A k1, k2 \in Keys :
        Busy(k1) /\ Busy(k2) /\ GroupOfKey(k1) = GroupOfKey(k2) => k1 = k2

\* What a bridge that requires complete cycles is given was read, to the last
\* block its scraper asks for, within the last cycle that read anything
\* (cycle_is_complete_for_bridge() is one verdict for the whole group).
WholeCycle ==
    [][\A b \in WholeBridges, m \in Members :
          sent'[b][m] # sent[b][m]
              => \A t \in sent'[b][m].stamps : t >= begun[GroupOf[m]]]_vars

\* Nothing is written for a member before its read_interval has passed since
\* it was last served, however many members share the read, whoever is late
\* (members_due() and mark_forwarded()).
Cadence ==
    [][\A b \in Bridges, m \in Members :
          sent'[b][m] # sent[b][m]
              => sent'[b][m].tick - lastForward[m] >= Interval[m]]_vars

\* The data forwarded for a tick was read for that tick: "the gateway forwards
\* a reading only after the scraper has completed its whole cycle without
\* error" (timescaledb.md), and a reader that cannot reconnect means to "skip
\* this cycle entirely".
FreshData ==
    \A b \in WholeBridges, m \in Members :
        \A t \in sent[b][m].stamps : t >= sent[b][m].tick
=============================================================================
