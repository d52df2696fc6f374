--------------------------- MODULE DynamicSizing ---------------------------
(***************************************************************************)
(* How HyperTableManager sizes the chunks and the compression of the raw   *)
(* tables by the load of the transports that write to them. At set-up no   *)
(* transport has written yet and the static settings apply; a one-shot     *)
(* retune sizes each table again, once all its transports have written, or *)
(* after a timeout when only some have.                                    *)
(*                                                                         *)
(* A table is named by its key: a protocol, or Narrow (None in the code)   *)
(* for the table all protocols share. A load is the set of transports it   *)
(* was computed from; {} is the static fallback.                           *)
(***************************************************************************)
EXTENDS Naturals, FiniteSets

CONSTANTS
    Scrapers,      \* transports
    ProtocolOf,    \* transport -> protocol
    Narrow,        \* the key of device_metrics_narrow
    MaxBridgeLives, MaxRegistrationFailures  \* bounds

ASSUME DynamicSizingAssumption ==
    /\ IsFiniteSet(Scrapers) /\ DOMAIN ProtocolOf = Scrapers
    /\ \A t \in Scrapers : ProtocolOf[t] # Narrow
    /\ {MaxBridgeLives, MaxRegistrationFailures} \subseteq Nat

Protocols == {ProtocolOf[t] : t \in Scrapers}
Keys == Protocols \cup {Narrow}
Writers(key) == {t \in Scrapers : key = Narrow \/ ProtocolOf[t] = key}

VARIABLES
    counted,     \* device_info.metric_count is known: the database, kept over restarts
    manager,     \* hypertable_mgr exists
    tables,      \* keys whose table has been set up by this instance
    initialised, \* transports init_bridge() has been called for
    unregistered, \* protocols whose registration failed
    intervals,   \* transport_read_intervals
    verified,    \* _verified_devices: transports that have written
    waiting,     \* _retune_reported: key -> transports, for the keys pending
    retuned,     \* _retuned
    timers,      \* keys whose timer runs
    atWork,      \* keys whose retune thread has not finished
    sized,       \* key -> the load its table is sized by
    givenUp,     \* history: keys whose retune failed
    bridgeLives, registrationFailures

sizingVars == <<counted, manager, tables, initialised, unregistered, intervals, verified, waiting,
                retuned, timers, atWork, sized, givenUp, bridgeLives, registrationFailures>>

SizingInit ==
    /\ counted \in SUBSET Scrapers /\ manager = FALSE /\ tables = {} /\ initialised = {}
    /\ unregistered = {} /\ intervals = {} /\ verified = {} /\ waiting = <<>>
    /\ retuned = {} /\ timers = {} /\ atWork = {}
    /\ sized = [key \in Keys |-> {}] /\ givenUp = {}
    /\ bridgeLives = 1 /\ registrationFailures = 0
----------------------------------------------------------------------------
\* _compute_metric_writes_per_day_helper(): zero unless a transport has both an
\* interval and a count.
Load(key) == Writers(key) \cap intervals \cap counted

\* setup_narrow_rollup() and add_wide_rollup(), as far as they size the raw table;
\* flag_pending_retune() when there is no load yet.
Flagged(keys) ==
    {key \in keys : Load(key) = {} /\ key \notin retuned /\ key \notin DOMAIN waiting}

SetUp(keys) ==
    /\ tables' = tables \cup keys
    /\ sized' = [key \in Keys |-> IF key \in keys THEN Load(key) ELSE sized[key]]
    /\ waiting' = [key \in DOMAIN waiting \cup Flagged(keys) |->
                      IF key \in DOMAIN waiting THEN waiting[key] ELSE {}]

\* The registration of a protocol: the first one creates the manager and sets the
\* narrow table up. The transport's interval is recorded after it.
Register(t, keys) ==
    /\ SetUp(keys) /\ manager' = TRUE
    /\ intervals' = intervals \cup {t}

NewKeys(protocol) == {protocol} \cup (IF manager THEN {} ELSE {Narrow})

\* init_bridge(), of each transport before the first read.
InitBridge(t) ==
    /\ t \notin initialised /\ verified = {}
    /\ initialised' = initialised \cup {t}
    /\ IF ProtocolOf[t] \notin tables
         THEN Register(t, NewKeys(ProtocolOf[t]))
         ELSE /\ intervals' = intervals \cup {t}
              /\ UNCHANGED <<tables, sized, waiting, manager>>
    /\ unregistered' = unregistered \ {ProtocolOf[t]}
    /\ UNCHANGED <<counted, verified, retuned, timers, atWork, givenUp, bridgeLives,
                   registrationFailures>>

\* Its registration fails: without a manager the interval is not recorded.
InitBridgeFails(t) ==
    /\ t \notin initialised /\ verified = {} /\ ProtocolOf[t] \notin tables
    /\ registrationFailures < MaxRegistrationFailures
    /\ registrationFailures' = registrationFailures + 1
    /\ initialised' = initialised \cup {t}
    /\ unregistered' = unregistered \cup {ProtocolOf[t]}
    /\ intervals' = IF manager THEN intervals \cup {t} ELSE intervals
    /\ UNCHANGED <<counted, manager, tables, verified, waiting, retuned, timers, atWork, sized,
                   givenUp, bridgeLives>>

\* _retry_failed_registrations(): the protocol, not its transports.
RetryRegistration(protocol) ==
    /\ protocol \in unregistered
    /\ unregistered' = unregistered \ {protocol}
    /\ SetUp(NewKeys(protocol)) /\ manager' = TRUE
    /\ UNCHANGED <<counted, initialised, intervals, verified, retuned, timers, atWork, givenUp,
                   bridgeLives, registrationFailures>>
----------------------------------------------------------------------------
\* _fire_retune(): once per key, whoever comes first.
Fired(keys) ==
    /\ retuned' = retuned \cup keys
    /\ waiting' = [key \in DOMAIN waiting \ keys |-> waiting[key]]
    /\ timers' = timers \ keys
    /\ atWork' = atWork \cup (keys \ retuned)

\* Mutant of TimersFor: the second report starts the timer.
TimersForSecond(keys) == {key \in keys : waiting[key] # {}}

\* _start_retune_timer_if_needed(): the first report of a key starts its timer.
TimersFor(keys) == {key \in keys : waiting[key] = {}}

\* note_device_metric_count_known(): the first write checks a transport off, starts
\* the timer of a key at its first report, and fires what is complete.
Noted(t) ==
    LET concerned == {key \in DOMAIN waiting : key \in {Narrow, ProtocolOf[t]}}
        reports(key) == waiting[key] \cup {t}
        expected(key) == Writers(key) \cap intervals
        complete == {key \in concerned : expected(key) # {} /\ expected(key) \subseteq reports(key)}
    IN /\ retuned' = retuned \cup complete
       /\ atWork' = atWork \cup complete
       /\ waiting' = [key \in DOMAIN waiting \ complete |->
                         IF key \in concerned THEN reports(key) ELSE waiting[key]]
       /\ timers' = (timers \cup TimersFor(concerned)) \ complete

\* The first packet of a transport in a session (_get_or_create_device()).
FirstWrite(t) ==
    /\ initialised = Scrapers /\ t \notin verified
    /\ verified' = verified \cup {t} /\ counted' = counted \cup {t}
    /\ IF manager THEN Noted(t) ELSE UNCHANGED <<retuned, atWork, waiting, timers>>
    /\ UNCHANGED <<manager, tables, initialised, unregistered, intervals, sized, givenUp,
                   bridgeLives, registrationFailures>>

\* The timer of a key: some transport of it never wrote.
TimerFires(key) ==
    /\ key \in timers /\ Fired({key})
    /\ UNCHANGED <<counted, manager, tables, initialised, unregistered, intervals, verified, sized,
                   givenUp, bridgeLives, registrationFailures>>

\* _do_retune_work(): the set-up again.
RetuneWorks(key) ==
    /\ key \in atWork /\ atWork' = atWork \ {key}
    /\ SetUp({key})
    /\ UNCHANGED <<counted, manager, initialised, unregistered, intervals, verified, retuned, timers,
                   givenUp, bridgeLives, registrationFailures>>

\* It fails: "a one-time miss, not a retry loop".
RetuneFails(key) ==
    /\ key \in atWork /\ atWork' = atWork \ {key} /\ givenUp' = givenUp \cup {key}
    /\ UNCHANGED <<counted, manager, tables, initialised, unregistered, intervals, verified, waiting,
                   retuned, timers, sized, bridgeLives, registrationFailures>>

\* A new instance of the bridge: only the database remembers.
NewBridge ==
    /\ bridgeLives < MaxBridgeLives /\ bridgeLives' = bridgeLives + 1
    /\ manager' = FALSE /\ tables' = {} /\ initialised' = {} /\ unregistered' = {}
    /\ intervals' = {} /\ verified' = {} /\ waiting' = <<>> /\ retuned' = {} /\ timers' = {}
    /\ atWork' = {} /\ givenUp' = {} /\ sized' = [key \in Keys |-> {}]
    /\ UNCHANGED <<counted, registrationFailures>>

SizingNext ==
    \/ \E t \in Scrapers : InitBridge(t) \/ InitBridgeFails(t) \/ FirstWrite(t)
    \/ \E p \in Protocols : RetryRegistration(p)
    \/ \E key \in Keys : TimerFires(key) \/ RetuneWorks(key) \/ RetuneFails(key)
    \/ NewBridge

\* Timers and threads run.
SizingFairness ==
    \A key \in Keys : WF_sizingVars(TimerFires(key)) /\ WF_sizingVars(RetuneWorks(key) \/ RetuneFails(key))

SizingSpec == SizingInit /\ [][SizingNext]_sizingVars /\ SizingFairness
----------------------------------------------------------------------------
(* Properties. *)

SizingTypeOK ==
    /\ counted \cup initialised \cup intervals \cup verified \subseteq Scrapers
    /\ tables \cup DOMAIN waiting \cup retuned \cup timers \cup atWork \cup givenUp \subseteq Keys
    /\ manager \in BOOLEAN /\ unregistered \subseteq Protocols
    /\ sized \in [Keys -> SUBSET Scrapers]
    /\ \A key \in DOMAIN waiting : waiting[key] \subseteq Writers(key)
    /\ timers \subseteq DOMAIN waiting /\ DOMAIN waiting \cap retuned = {}

AtRest == timers = {} /\ atWork = {}
Recorded(key) == Writers(key) \subseteq intervals

\* "Rather than leaving the table on static settings forever" (_start_retune_timer_if_needed()):
\* when no timer and no thread is under way, a table that has been written to is sized by its
\* load, whoever stayed away and whatever failed at registration. Of the tables all of whose
\* transports had their interval recorded.
TablesAreSized ==
    AtRest => \A key \in tables \ givenUp :
        Recorded(key) /\ Writers(key) \cap verified # {} => sized[key] # {}

\* A table in use leaves the static settings.
StaticIsTemporary ==
    \A key \in Keys :
        (key \in tables /\ Recorded(key) /\ Writers(key) \cap verified # {})
            ~> (sized[key] # {} \/ key \in givenUp \/ key \notin tables)

\* The same of every table: not of one whose first registration failed, as the interval of its
\* transport is never recorded then (timescaledb.py:2513).
EveryTableIsSized ==
    AtRest => \A key \in tables \ givenUp : Writers(key) \cap verified # {} => sized[key] # {}

\* And by all that write to it: not when the timeout came first, as the retune is one-shot.
SizedByAll ==
    AtRest => \A key \in retuned \ givenUp :
        Recorded(key) /\ Writers(key) \subseteq verified => sized[key] = Writers(key)
=============================================================================
