----------------------------- MODULE Eg4Identity -----------------------------
(***************************************************************************)
(* How a transport of the "eg4" protocols learns what it talks to: inverter *)
(* or battery, decided once from one cell voltage; the serial number, whole *)
(* or not at all; and the serial numbers of an inverter's battery modules.  *)
(* What did not answer at connect is asked again from the read cycles, less *)
(* and less often.                                                          *)
(***************************************************************************)
EXTENDS Naturals

CONSTANTS
    EgKinds,        \* what may be at the other end: of "inverter" and "battery"
    BatteryModules, \* the batteryserialnumber_<n> entries of the map
    SlowestTry,     \* _IDENTIFY_RETRY_MAX_SECONDS, in _IDENTIFY_RETRY_BASE_SECONDS
    MaxGlitches,    \* bound: reads that fail though the device is there
    MaxEgSessions   \* bound: reloads of the gateway

ASSUME Eg4IdentityAssumption ==
    /\ EgKinds \subseteq {"inverter", "battery"}
    /\ {SlowestTry, MaxGlitches, MaxEgSessions} \subseteq Nat /\ SlowestTry >= 1

VARIABLES
    egKind,        \* what the device is
    egAnswers,     \* TRUE: it answers
    kindCache,     \* eg4_hardware_kind_cache
    metadata,      \* device_metadata: none, of a battery, of an inverter with or without serial
    egAttempts,    \* identify_attempts
    egWait,        \* time until the next attempt is due
    moduleSerials, \* battery_serials
    serialsLoaded, \* battery_serials_loaded
    serialTries,   \* battery_serials_attempts
    serialWait,    \* time until the next of them is due
    egConnected,   \* TRUE: connect() is over
    glitches,      \* bound on the failed reads
    misjudged,     \* history: the kind was decided on a failed read
    egSessions     \* bound on the reloads

identity == <<kindCache, metadata, egAttempts, egWait, misjudged>>
modules == <<moduleSerials, serialsLoaded, serialTries, serialWait>>
egVars == <<egKind, egAnswers, identity, modules, egConnected, glitches, egSessions>>

\* bound: attempts are counted until the delay no longer grows
TryLimit == CHOOSE n \in 1..(SlowestTry + 1) : 2^(n - 1) >= SlowestTry /\ (n = 1 \/ 2^(n - 2) < SlowestTry)
Counted(n) == IF n < TryLimit THEN n + 1 ELSE n

\* Mutant of RetryDelay: the delay is not capped.
RetryDelayUncapped(n) == IF n = 0 THEN 0 ELSE 2^(n - 1)
\* _retry_delay()
RetryDelay(n) ==
    IF n = 0 THEN 0 ELSE IF 2^(n - 1) < SlowestTry THEN 2^(n - 1) ELSE SlowestTry

Identities == {"none", "battery", "bare", "whole"}
\* _identification_complete()
IdentityComplete(m) == m \in {"battery", "whole"}

EgTypeOK ==
    /\ egKind \in EgKinds /\ {egAnswers, serialsLoaded, egConnected, misjudged} \subseteq BOOLEAN
    /\ kindCache \in {"none", "inverter", "battery"} /\ metadata \in Identities
    /\ {egAttempts, serialTries} \subseteq 0..TryLimit
    /\ {egWait, serialWait} \subseteq 0..SlowestTry /\ moduleSerials \subseteq BatteryModules

EgInit ==
    /\ egKind \in EgKinds /\ egAnswers = TRUE /\ kindCache = "none" /\ metadata = "none"
    /\ egAttempts = 0 /\ egWait = 0 /\ misjudged = FALSE
    /\ moduleSerials = {} /\ serialsLoaded = FALSE /\ serialTries = 0 /\ serialWait = 0
    /\ egConnected = FALSE /\ glitches = 0 /\ egSessions = 0

----------------------------------------------------------------------------
\* A series of reads is answered, or fails at one of them.
ReadsWell(ok) ==
    IF ok THEN egAnswers /\ UNCHANGED glitches
    ELSE \/ ~egAnswers /\ UNCHANGED glitches
         \/ egAnswers /\ glitches < MaxGlitches /\ glitches' = glitches + 1

\* Mutant of Due: the wait is never over.
DueAtFirst(attempts, wait) == attempts = 0
Due(attempts, wait) == wait = 0

\* detect_eg4_hardware_kind(): decided once, and a read that fails is an inverter.
KindOf(ok) == IF kindCache # "none" THEN kindCache ELSE IF ok THEN egKind ELSE "inverter"
DetectKind(ok) ==
    /\ kindCache' = KindOf(ok)
    /\ misjudged' = (misjudged \/ (kindCache = "none" /\ ~ok))

\* identify_eg4_device(), with the serial number read register by register: one
\* that is missing spoils it, and a battery has none in those registers.
Identified(ok) ==
    IF KindOf(ok) = "battery" THEN "battery"
    ELSE IF ok /\ egKind = "inverter" THEN "whole" ELSE "bare"

\* A retry replaces what is known only by something better.
Better(fresh) == IF IdentityComplete(fresh) \/ metadata = "none" THEN fresh ELSE metadata

\* init_after_connect(), in the instance built at start-up.
IdentifyAtConnect ==
    /\ ~egConnected /\ egSessions = 0 /\ egConnected' = TRUE
    /\ \E ok \in BOOLEAN : ReadsWell(ok) /\ DetectKind(ok) /\ metadata' = Identified(ok)
    /\ UNCHANGED <<egKind, egAnswers, egAttempts, egWait, modules, egSessions>>

\* One built by a reload connects without it.
ConnectAfterReload ==
    /\ ~egConnected /\ egSessions > 0 /\ egConnected' = TRUE
    /\ UNCHANGED <<egKind, egAnswers, identity, modules, glitches, egSessions>>

\* get_cached_eg4_metadata(), from compute_eg4_post_process_fields() in a cycle.
RetryIdentity ==
    /\ egConnected /\ ~IdentityComplete(metadata) /\ Due(egAttempts, egWait)
    /\ egAttempts' = Counted(egAttempts) /\ egWait' = RetryDelay(Counted(egAttempts))
    /\ \E ok \in BOOLEAN : ReadsWell(ok) /\ DetectKind(ok) /\ metadata' = Better(Identified(ok))
    /\ UNCHANGED <<egKind, egAnswers, modules, egConnected, egSessions>>

\* Mutant of Gathered: the last answers alone.
GatheredLast(fresh) == fresh
Gathered(fresh) == moduleSerials \cup fresh

\* get_cached_battery_serial_fields(): each module's serial number, whole or not
\* at all. What has been read stays.
RetryModules ==
    /\ egConnected /\ ~serialsLoaded /\ Due(serialTries, serialWait)
    /\ serialTries' = Counted(serialTries) /\ serialWait' = RetryDelay(Counted(serialTries))
    /\ \E fresh \in SUBSET BatteryModules :
          /\ ReadsWell(fresh = BatteryModules)
          /\ ~egAnswers => fresh = {}
          /\ moduleSerials' = Gathered(fresh) /\ serialsLoaded' = (fresh = BatteryModules)
    /\ UNCHANGED <<egKind, egAnswers, identity, egConnected, egSessions>>

----------------------------------------------------------------------------
(* Outside. *)

EgTimePasses ==
    /\ egWait > 0 \/ serialWait > 0
    /\ egWait' = (IF egWait > 0 THEN egWait - 1 ELSE 0)
    /\ serialWait' = (IF serialWait > 0 THEN serialWait - 1 ELSE 0)
    /\ UNCHANGED <<egKind, egAnswers, kindCache, metadata, egAttempts, misjudged, moduleSerials,
                   serialsLoaded, serialTries, egConnected, glitches, egSessions>>

EgFails ==
    /\ egAnswers' = ~egAnswers
    /\ UNCHANGED <<egKind, identity, modules, egConnected, glitches, egSessions>>

\* A reload: another transport object, with a cache of its own.
EgReload ==
    /\ egConnected /\ egSessions < MaxEgSessions /\ egSessions' = egSessions + 1
    /\ kindCache' = "none" /\ metadata' = "none" /\ egAttempts' = 0 /\ egWait' = 0 /\ misjudged' = FALSE
    /\ moduleSerials' = {} /\ serialsLoaded' = FALSE /\ serialTries' = 0 /\ serialWait' = 0
    /\ egConnected' = FALSE
    /\ UNCHANGED <<egKind, egAnswers, glitches>>

EgNext ==
    \/ IdentifyAtConnect \/ ConnectAfterReload \/ RetryIdentity \/ RetryModules
    \/ EgTimePasses \/ EgFails \/ EgReload

EgSpec == EgInit /\ [][EgNext]_egVars

\* The read cycles go on, and time does.
EgFairness ==
    /\ WF_egVars(IdentifyAtConnect \/ ConnectAfterReload) /\ WF_egVars(EgTimePasses)
    /\ WF_egVars(RetryIdentity) /\ WF_egVars(RetryModules)

FairEgSpec == EgSpec /\ EgFairness

----------------------------------------------------------------------------
(* Properties. *)

\* What an instance knows of its device it does not lose to a later bad read.
IdentityIsKept ==
    [][egSessions' = egSessions =>
          /\ IdentityComplete(metadata) => metadata' = metadata
          /\ kindCache # "none" => kindCache' = kindCache
          /\ moduleSerials \subseteq moduleSerials' /\ (serialsLoaded => serialsLoaded')]_egVars

\* A device that answers from some time on is identified, as what it is if no
\* read failed when that was decided; so are its battery modules.
IdentityArrives ==
    <>[]egAnswers =>
        /\ <>[](misjudged \/ IdentityComplete(metadata))
        /\ <>[](serialsLoaded /\ moduleSerials = BatteryModules)

\* A battery is not taken for an inverter for good.
BatteryIsKnown == egKind = "battery" /\ egConnected => kindCache # "inverter"
=============================================================================
