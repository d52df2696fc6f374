-------------------------- MODULE PrometheusExport --------------------------
(***************************************************************************)
(* prometheus_out: meters' absolute readings become counters that only     *)
(* increase, and a sweep flags the machines that missed their interval.    *)
(* Fields are counters; a gauge is the last value and keeps nothing.       *)
(* Time since the last write is counted up to just past the threshold.     *)
(***************************************************************************)
EXTENDS Naturals, FiniteSets

CONSTANTS
    Machines,      \* scrapers (transport_name)
    LabelOf,       \* their device_name label
    PrometheusFields,  \* field names
    MaxMeter,      \* bound: largest meter reading
    MaxTotal,      \* bound: the exported total at which the model stops
    Threshold      \* read_interval * staleness_multiplier

ASSUME PrometheusAssumption ==
    /\ MaxMeter \in Nat \ {0} /\ MaxTotal \in Nat /\ Threshold \in Nat \ {0}

VARIABLES
    meter,        \* the absolute value the device shows
    series,       \* the counter per metric and label, or NoSeries
    lastValue,    \* _counter_last_value
    sinceWrite,   \* now - last_scrape_timestamp, or Unseen
    flagged,      \* currently_stale
    failures,     \* scrape_failures, modulo 2
    gaps,         \* history: gaps longer than the threshold that a sweep saw, modulo 2
    missed,       \* history: the gap under way has been seen by a sweep
    moved,        \* history: how far the meters of a label moved up
    monitor       \* the stale monitor: running or stopped

prometheusVars == <<meter, series, lastValue, sinceWrite, flagged, failures, gaps, missed, moved,
                    monitor>>

Labels == {LabelOf[m] : m \in Machines}
NoSeries == MaxTotal + MaxMeter + 1
Unseen == Threshold + 2
Modulus == 2

PrometheusTypeOK ==
    /\ meter \in [Machines -> [PrometheusFields -> 0..MaxMeter]]
    /\ series \in [PrometheusFields \X Labels -> 0..NoSeries]
    /\ lastValue \in [PrometheusFields \X Labels -> 0..NoSeries]
    /\ sinceWrite \in [Machines -> 0..Unseen] /\ flagged \in [Machines -> BOOLEAN]
    /\ failures \in [Machines -> 0..(Modulus - 1)] /\ gaps \in [Machines -> 0..(Modulus - 1)]
    /\ missed \in [Machines -> BOOLEAN] /\ moved \in [PrometheusFields \X Labels -> Nat]
    /\ monitor \in {"running", "stopped"}

PrometheusInit ==
    /\ meter = [m \in Machines |-> [f \in PrometheusFields |-> 1]]
    /\ series = [k \in PrometheusFields \X Labels |-> NoSeries]
    /\ lastValue = [k \in PrometheusFields \X Labels |-> NoSeries]
    /\ sinceWrite = [m \in Machines |-> Unseen]
    /\ flagged = [m \in Machines |-> FALSE] /\ missed = [m \in Machines |-> FALSE]
    /\ failures = [m \in Machines |-> 0] /\ gaps = [m \in Machines |-> 0]
    /\ moved = [k \in PrometheusFields \X Labels |-> 0]
    /\ monitor = "running"

----------------------------------------------------------------------------
(* The devices. *)

\* A meter counts on; a device that restarts begins at 0.
MeterMoves(m, f) ==
    \E v \in {0, meter[m][f] + 1} \cap 0..MaxMeter :
        /\ v > meter[m][f] => moved[<<f, LabelOf[m]>>] < MaxTotal
        /\ meter' = [meter EXCEPT ![m][f] = v]
        /\ moved' = IF v > meter[m][f]
                       THEN [moved EXCEPT ![<<f, LabelOf[m]>>] = @ + v - meter[m][f]]
                       ELSE moved
        /\ UNCHANGED <<series, lastValue, sinceWrite, flagged, failures, gaps, missed, monitor>>

----------------------------------------------------------------------------
(* write_data(). *)

\* Mutant of Recorded: the first sample counts in full.
RecordedFirst(old, last, v) ==
    IF last = NoSeries THEN v
    ELSE IF v >= last THEN old + (v - last) ELSE old

\* DynamicMetricsRegistry.record(): the counter grows by the
\* difference, starts without one and takes a decrease for a reset.
Recorded(old, last, v) ==
    IF last = NoSeries THEN 0
    ELSE IF v >= last THEN old + (v - last) ELSE old

\* Some of the fields may have no numeric value this time.
WriteMetrics(m) ==
    \E numeric \in SUBSET PrometheusFields :
        LET keys == {<<f, LabelOf[m]>> : f \in numeric}
        IN /\ series' = [k \in DOMAIN series |->
                  IF k \in keys THEN Recorded(series[k], lastValue[k], meter[m][k[1]])
                  ELSE series[k]]
           /\ lastValue' = [k \in DOMAIN lastValue |->
                  IF k \in keys THEN meter[m][k[1]] ELSE lastValue[k]]
           /\ sinceWrite' = [sinceWrite EXCEPT ![m] = 0]
           /\ flagged' = [flagged EXCEPT ![m] = FALSE]
           /\ missed' = [missed EXCEPT ![m] = FALSE]
           /\ UNCHANGED <<meter, failures, gaps, moved, monitor>>

----------------------------------------------------------------------------
(* The stale monitor and the diagnostics. *)

Late(m) == sinceWrite[m] # Unseen /\ sinceWrite[m] > Threshold

\* One pass of _stale_monitor_loop(), under _state_lock.
SweepMachines ==
    /\ monitor = "running"
    /\ flagged' = [m \in Machines |-> flagged[m] \/ Late(m)]
    /\ failures' = [m \in Machines |->
           IF Late(m) /\ ~flagged[m] THEN (failures[m] + 1) % Modulus ELSE failures[m]]
    /\ gaps' = [m \in Machines |-> IF Late(m) /\ ~missed[m] THEN (gaps[m] + 1) % Modulus ELSE gaps[m]]
    /\ missed' = [m \in Machines |-> missed[m] \/ Late(m)]
    /\ UNCHANGED <<meter, series, lastValue, sinceWrite, moved, monitor>>

\* get_target_health(): judged afresh, whatever the monitor saw.
ShownConnected(m) == sinceWrite[m] # Unseen /\ sinceWrite[m] <= Threshold

MinutePasses ==
    /\ sinceWrite' = [m \in Machines |->
           IF sinceWrite[m] <= Threshold THEN sinceWrite[m] + 1 ELSE sinceWrite[m]]
    /\ UNCHANGED <<meter, series, lastValue, flagged, failures, gaps, missed, moved, monitor>>

\* close(): the registry keeps its last values.
ClosePrometheus ==
    /\ monitor = "running" /\ monitor' = "stopped"
    /\ UNCHANGED <<meter, series, lastValue, sinceWrite, flagged, failures, gaps, missed, moved>>

PrometheusNext ==
    \/ SweepMachines \/ MinutePasses \/ ClosePrometheus
    \/ \E m \in Machines : WriteMetrics(m) \/ \E f \in PrometheusFields : MeterMoves(m, f)

PrometheusSpec == PrometheusInit /\ [][PrometheusNext]_prometheusVars

----------------------------------------------------------------------------
(* Properties. *)

\* A counter never runs ahead of its meter, through restarts of the device and
\* readings that were not numeric.
CounterFollowsMeter ==
    \A k \in PrometheusFields \X Labels :
        series[k] # NoSeries => series[k] <= moved[k]

\* "One ongoing failure, not 720": a machine's failures are the gaps a sweep saw,
\* and a flag stands only for a gap under way.
FailuresAreGaps ==
    \A m \in Machines : failures[m] = gaps[m] /\ (flagged[m] => Late(m))

\* get_target_health(): "the dashboard never disagrees with what actually drives
\* scrape_failures_total".
DashboardAgrees ==
    \A m \in Machines : sinceWrite[m] # Unseen => (ShownConnected(m) <=> ~flagged[m])
\* The two together.
CountersAreTrue == CounterFollowsMeter /\ FailuresAreGaps
=============================================================================
