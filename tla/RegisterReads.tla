--------------------------- MODULE RegisterReads ---------------------------
(***************************************************************************)
(* How modbus_base reads the register ranges of a device: the retries of   *)
(* the two read paths, the failure tracker of each range, which disables a *)
(* range for hours, and what a cycle reports as complete. Time is counted  *)
(* in steps of the outside; a range is disabled for DisableTime of them.   *)
(***************************************************************************)
EXTENDS Naturals, FiniteSets

CONSTANTS
    RangeCount,     \* the ranges of a cycle are 1..RangeCount, in this order
    ReadPaths,      \* of "blocking" (read_modbus_registers) and "iter"
    ReadRetries,    \* retries, for all ranges of a blocking read
    BlockRetries,   \* max_retries_per_block
    MaxFailures,    \* max_failures_before_disable
    DisableTime,    \* disable_duration_hours
    TracksFailures, \* enable_register_failure_tracking
    NoticesSilence  \* TRUE: a device that does not answer counts as disconnected

ASSUME RegisterReadsAssumption ==
    /\ {RangeCount, BlockRetries, MaxFailures, DisableTime} \subseteq Nat \ {0}
    /\ ReadRetries \in Nat /\ ReadPaths \subseteq {"blocking", "iter"}
    /\ {TracksFailures, NoticesSilence} \subseteq BOOLEAN

VARIABLES
    readPath,     \* the path this transport is read on
    answering,    \* TRUE: the device answers
    rejects,      \* the ranges it rejects
    portOn,       \* connected
    failures,     \* failure_count of each range's tracker
    disabledFor,  \* time until disabled_until
    ix,           \* the range being read, 0 between cycles
    retry,        \* retries used up
    complete,     \* is_complete of the last cycle
    got,          \* the ranges whose registers it holds
    innocent,     \* history: the ranges that have failed only in outages
    tries         \* history: reads in this cycle

readVars == <<readPath, answering, rejects, portOn, failures, disabledFor, ix, retry, complete,
              got, innocent, tries>>
outsideRead == <<readPath, answering, rejects>>
trackers == <<failures, disabledFor>>

RangeIds == 1..RangeCount

\* is_disabled()
Disabled(r) == TracksFailures /\ disabledFor[r] > 0

RegisterReadsTypeOK ==
    /\ readPath \in ReadPaths /\ {answering, portOn, complete} \subseteq BOOLEAN
    /\ rejects \cup got \cup innocent \subseteq RangeIds
    /\ failures \in [RangeIds -> 0..MaxFailures] /\ disabledFor \in [RangeIds -> 0..DisableTime]
    /\ ix \in 0..RangeCount /\ tries \in Nat
    /\ retry \in 0..(IF readPath = "blocking" THEN ReadRetries + 1 ELSE BlockRetries - 1)

RegisterReadsInit ==
    /\ readPath \in ReadPaths /\ answering = TRUE /\ rejects = {} /\ portOn = FALSE
    /\ failures = [r \in RangeIds |-> 0] /\ disabledFor = [r \in RangeIds |-> 0]
    /\ ix = 0 /\ retry = 0 /\ complete = FALSE /\ got = {} /\ innocent = RangeIds /\ tries = 0

----------------------------------------------------------------------------
\* On to the next range, or the end of the cycle.
NextRange(k) == ix' = (IF ix = RangeCount THEN 0 ELSE ix + 1) /\ retry' = k

\* Mutant of ConnectPort: the strikes of the last session carry over.
ConnectPortOnly ==
    /\ ix = 0 /\ ~portOn /\ answering /\ portOn' = TRUE
    /\ innocent' = RangeIds
    /\ UNCHANGED <<outsideRead, trackers, ix, retry, complete, got, tries>>

\* connect(): every tracker is cleared.
ConnectPort ==
    /\ ix = 0 /\ ~portOn /\ answering /\ portOn' = TRUE
    /\ failures' = [r \in RangeIds |-> 0] /\ disabledFor' = [r \in RangeIds |-> 0]
    /\ innocent' = RangeIds
    /\ UNCHANGED <<outsideRead, ix, retry, complete, got, tries>>

\* _start_cycle_tracking()
BeginCycle ==
    /\ ix = 0 /\ portOn
    /\ ix' = 1 /\ retry' = 0 /\ complete' = TRUE /\ got' = {} /\ tries' = 0
    /\ UNCHANGED <<outsideRead, portOn, trackers, innocent>>

\* A disabled range is skipped.
SkipRange ==
    /\ ix # 0 /\ Disabled(ix)
    /\ complete' = FALSE
    /\ NextRange(IF readPath = "iter" THEN 0 ELSE retry)
    /\ UNCHANGED <<outsideRead, portOn, trackers, got, innocent, tries>>

\* _record_register_read_success(): a range starts over.
ReadSucceeds ==
    /\ ix # 0 /\ ~Disabled(ix) /\ portOn /\ answering /\ ix \notin rejects
    /\ failures' = [failures EXCEPT ![ix] = 0] /\ disabledFor' = [disabledFor EXCEPT ![ix] = 0]
    /\ got' = got \cup {ix} /\ innocent' = innocent \cup {ix} /\ tries' = tries + 1
    /\ NextRange(IF readPath = "iter" \/ retry = 0 THEN 0 ELSE retry - 1)
    /\ UNCHANGED <<outsideRead, portOn, complete>>

\* bound: failure_count is counted up to max_failures_before_disable
Struck(n) == IF n = MaxFailures THEN n ELSE n + 1

\* _record_register_read_failure(): not while disconnected; on enough failures
\* the range is disabled.
RecordFailure(on) ==
    IF TracksFailures /\ on
       THEN /\ failures' = [failures EXCEPT ![ix] = Struck(@)]
            /\ disabledFor' = [disabledFor EXCEPT ![ix] =
                                  IF failures[ix] + 1 >= MaxFailures THEN DisableTime ELSE @]
       ELSE UNCHANGED trackers

\* Whether a failed range is tried again: a budget per cycle, or per range.
MayRetry == IF readPath = "blocking" THEN retry <= ReadRetries ELSE retry + 1 < BlockRetries

\* A read that fails, noticed as a lost connection or not.
ReadFails ==
    /\ ix # 0 /\ ~Disabled(ix)
    /\ ~portOn \/ ~answering \/ ix \in rejects
    /\ portOn' = (portOn /\ (answering \/ ~NoticesSilence))
    /\ RecordFailure(portOn')
    /\ innocent' = IF answering THEN innocent \ {ix} ELSE innocent
    /\ tries' = tries + 1
    /\ IF MayRetry
          THEN retry' = retry + 1 /\ UNCHANGED <<ix, complete>>
          ELSE complete' = FALSE /\ NextRange(IF readPath = "iter" THEN 0 ELSE retry)
    /\ UNCHANGED <<outsideRead, got>>

\* enable_register_range(), and reset_register_failure_tracking() of a range
EnableRange(r) ==
    /\ failures' = [failures EXCEPT ![r] = 0] /\ disabledFor' = [disabledFor EXCEPT ![r] = 0]
    /\ failures[r] # 0
    /\ UNCHANGED <<outsideRead, portOn, ix, retry, complete, got, innocent, tries>>

----------------------------------------------------------------------------
(* Outside. *)

DeviceFails ==
    /\ \/ answering' = ~answering /\ UNCHANGED rejects
       \/ rejects' \in (SUBSET RangeIds) \ {rejects} /\ UNCHANGED answering
    /\ UNCHANGED <<readPath, portOn, trackers, ix, retry, complete, got, innocent, tries>>

ReadTimePasses ==
    /\ \E r \in RangeIds : disabledFor[r] > 0
    /\ disabledFor' = [r \in RangeIds |-> IF disabledFor[r] = 0 THEN 0 ELSE disabledFor[r] - 1]
    /\ UNCHANGED <<outsideRead, portOn, failures, ix, retry, complete, got, innocent, tries>>

RegisterReadsNext ==
    \/ ConnectPort \/ BeginCycle \/ SkipRange \/ ReadSucceeds \/ ReadFails
    \/ \E r \in RangeIds : EnableRange(r)
    \/ DeviceFails \/ ReadTimePasses

RegisterReadsSpec == RegisterReadsInit /\ [][RegisterReadsNext]_readVars

\* The reading thread goes on, and time does.
RegisterReadsFairness ==
    /\ WF_readVars((ConnectPort \/ BeginCycle \/ SkipRange \/ ReadSucceeds \/ ReadFails))
    /\ WF_readVars(ReadTimePasses)

FairRegisterReadsSpec == RegisterReadsSpec /\ RegisterReadsFairness

----------------------------------------------------------------------------
(* Properties. *)

\* A cycle reported complete holds the registers of every range.
CompleteMeansAll == ix = 0 /\ complete => got = RangeIds

\* No range is disabled before it has failed max_failures_before_disable times
\* since it was last read, by a device thought to be connected.
DisabledIsEarned ==
    [][\A r \in RangeIds : disabledFor'[r] > disabledFor[r] =>
          /\ failures'[r] >= MaxFailures /\ portOn' /\ ix = r /\ r \notin got']_readVars

\* A cycle is a bounded number of reads: each range's success buys one retry.
CycleIsBounded ==
    tries <= IF readPath = "iter" THEN RangeCount * BlockRetries
                ELSE 2 * RangeCount + ReadRetries + 1

\* A range the device would give is read again, sooner or later.
EveryRangeIsRead ==
    \A r \in RangeIds : <>[](answering /\ r \notin rejects) => []<>(r \in got)

\* A connection that was lost costs no range its hours (modbus_base.py:975).
OutagesAreForgiven == \A r \in RangeIds : Disabled(r) => r \notin innocent
\* The three together: a cycle ends, says truly whether it is complete, and no
\* range is disabled for an outage.
RangesAreJudgedFairly == CompleteMeansAll /\ CycleIsBounded /\ OutagesAreForgiven
=============================================================================
