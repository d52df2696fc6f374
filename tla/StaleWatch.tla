---------------------------- MODULE StaleWatch ----------------------------
(***************************************************************************)
(* How the writing bridges notice a frozen scraper, and what they do about *)
(* it: influxdb_out, influxdb3_out and timescaledb keep one record per     *)
(* scraper and ask the gateway to reconnect it. Ages are counted from the  *)
(* present and stop counting once past every limit.                        *)
(***************************************************************************)
EXTENDS Naturals

CONSTANTS
    Metrics,          \* the fields of a reading
    MetricValues,     \* their values
    Reports,          \* the sets of fields a reading may have
    WatchKinds,       \* of "influx", "timescale"
    StaleTimeout,     \* stale_data_timeout
    RetryDelay,       \* retry_delay_mins
    MaxStaleAttempts  \* max_stale_attempts

ASSUME WatchAssumption ==
    /\ StaleTimeout \in Nat \ {0} /\ RetryDelay \in Nat /\ MaxStaleAttempts \in Nat
    /\ Reports \subseteq SUBSET Metrics
    /\ WatchKinds \subseteq {"influx", "timescale"}

VARIABLES
    kind,        \* which of the bridges this is
    device,      \* the device's values
    lastRow,     \* last_row, or NoRow before the first reading
    startAge,    \* now - start_ts
    eventAge,    \* now - last_event_ts, or Never
    staleEvents, \* stale_event_count
    staleNow,    \* is_stale, as judged for the last reading
    reported,    \* history: the last value reported of each metric
    quietAge,    \* history: since a reported value differed from the one before
    steadyAge,   \* history: since a complete reading of unchanged values, or Never
    asked,       \* history: reconnect requests since a value differed
    askAge       \* history: since the last request, or Never

watchVars == <<kind, device, lastRow, startAge, eventAge, staleEvents, staleNow, reported,
               quietAge, steadyAge, asked, askAge>>

Horizon == StaleTimeout + RetryDelay + 1   \* bound: ages stop here
Ages == 0..Horizon
Never == Horizon + 1
NoRow == [m \in {} |-> 0]
Rows == (UNION {[S -> MetricValues] : S \in Reports}) \cup {NoRow}

WatchTypeOK ==
    /\ kind \in WatchKinds /\ device \in [Metrics -> MetricValues] /\ lastRow \in Rows
    /\ {startAge, quietAge} \subseteq Ages
    /\ {eventAge, askAge, steadyAge} \subseteq Ages \cup {Never}
    /\ staleEvents \in 0..MaxStaleAttempts /\ staleNow \in BOOLEAN /\ reported \in UNION {[S -> MetricValues] : S \in SUBSET Metrics}
    /\ asked \in Nat

WatchInit ==
    /\ kind \in WatchKinds /\ device \in [Metrics -> MetricValues]
    /\ lastRow = NoRow /\ reported = NoRow
    /\ startAge = 0 /\ quietAge = 0 /\ eventAge = Never /\ askAge = Never /\ steadyAge = Never
    /\ staleEvents = 0 /\ asked = 0 /\ staleNow = FALSE

Older(a) == IF a >= Horizon THEN a ELSE a + 1

----------------------------------------------------------------------------
\* Only the fields of the new reading are compared.
RowChanged(row) == \E m \in DOMAIN row : m \notin DOMAIN lastRow \/ row[m] # lastRow[m]

CheckIsStale(row) == lastRow # NoRow /\ ~RowChanged(row) /\ startAge > StaleTimeout

\* _commit_transport_state(): influx restarts the period when the data changed,
\* timescaledb for every reading that is not stale.
StartsPeriod(row) ==
    IF kind = "influx" THEN RowChanged(row) ELSE ~CheckIsStale(row)

\* Mutant of MayAsk: not throttled.
MayAskAtOnce == staleEvents < MaxStaleAttempts

\* Mutant of MayAsk: one too many.
MayAskOnceMore == staleEvents <= MaxStaleAttempts /\ (eventAge = Never \/ eventAge >= RetryDelay)

\* _handle_stale_event(): capped and spaced.
MayAsk ==
    /\ staleEvents < MaxStaleAttempts
    /\ eventAge = Never \/ eventAge >= RetryDelay

\* request_upstream_reconnect()
Asks(row) == CheckIsStale(row) /\ MayAsk

Observe(row) ==
    LET differs == \E m \in DOMAIN row : m \in DOMAIN reported /\ row[m] # reported[m]
    IN /\ reported' = [m \in DOMAIN reported \cup DOMAIN row |->
                          IF m \in DOMAIN row THEN row[m] ELSE reported[m]]
       /\ quietAge' = IF differs \/ reported = NoRow THEN 0 ELSE quietAge
       /\ steadyAge' = IF steadyAge = Never /\ DOMAIN row = Metrics THEN 0 ELSE steadyAge
       /\ asked' = (IF differs THEN 0 ELSE asked) + (IF Asks(row) THEN 1 ELSE 0)
       /\ askAge' = IF Asks(row) THEN 0 ELSE IF differs THEN Never ELSE askAge

\* write_data() judges a reading, of all metrics or of some.
JudgeReading ==
    \E S \in Reports :
        LET row == [m \in S |-> device[m]]
        IN /\ staleNow' = CheckIsStale(row)
           /\ IF StartsPeriod(row)
                 THEN lastRow' = row /\ startAge' = 0 /\ staleEvents' = 0 /\ eventAge' = Never
                 ELSE /\ staleEvents' = IF Asks(row) THEN staleEvents + 1 ELSE staleEvents
                      /\ eventAge' = IF Asks(row) THEN 0 ELSE eventAge
                      /\ UNCHANGED <<lastRow, startAge>>
           /\ Observe(row) /\ UNCHANGED <<kind, device>>

TimePasses ==
    /\ startAge' = Older(startAge) /\ quietAge' = Older(quietAge)
    /\ eventAge' = IF eventAge = Never THEN Never ELSE Older(eventAge)
    /\ askAge' = IF askAge = Never THEN Never ELSE Older(askAge)
    /\ steadyAge' = IF steadyAge = Never THEN Never ELSE Older(steadyAge)
    /\ UNCHANGED <<kind, device, lastRow, staleEvents, staleNow, reported, asked>>

DeviceChanges ==
    /\ device' \in [Metrics -> MetricValues] \ {device} /\ steadyAge' = Never
    /\ UNCHANGED <<kind, lastRow, startAge, eventAge, staleEvents, staleNow, reported, quietAge,
                   asked, askAge>>

\* _cleanup_stale_registry() of timescaledb: unseen for seven days.
ForgetTransport ==
    /\ kind = "timescale" /\ lastRow # NoRow
    /\ lastRow' = NoRow /\ startAge' = 0 /\ eventAge' = Never /\ staleEvents' = 0
    /\ staleNow' = FALSE /\ reported' = NoRow /\ quietAge' = 0 /\ steadyAge' = Never
    /\ asked' = 0 /\ askAge' = Never
    /\ UNCHANGED <<kind, device>>

WatchNext == JudgeReading \/ TimePasses \/ DeviceChanges \/ ForgetTransport

WatchSpec == WatchInit /\ [][WatchNext]_watchVars

----------------------------------------------------------------------------
(* Properties. *)

\* A scraper is only reconnected when nothing it reported has changed for longer
\* than stale_data_timeout, at most max_stale_attempts times until it changes,
\* and not again before retry_delay_mins.
ReconnectIsDue ==
    [][asked' > asked \/ (asked' # 0 /\ askAge' = 0 /\ askAge # 0) =>
          /\ quietAge > StaleTimeout
          /\ askAge = Never \/ askAge >= RetryDelay
          /\ asked' <= MaxStaleAttempts]_watchVars

\* A reading whose values have been reported unchanged, in full, for longer than
\* stale_data_timeout is judged stale (timescaledb.md:104 and influxdb.md:492).
FrozenIsNoticed ==
    [][JudgeReading /\ steadyAge # Never /\ steadyAge > StaleTimeout => staleNow']_watchVars

\* The same of the Influx bridges, which start counting with the values they kept.
FrozenInfluxIsNoticed ==
    [][kind = "influx" /\ JudgeReading /\ steadyAge # Never /\ steadyAge > StaleTimeout => staleNow']_watchVars

\* The two together, of the bridges that keep both.
FrozenIsAnswered == ReconnectIsDue /\ FrozenInfluxIsNoticed
=============================================================================
