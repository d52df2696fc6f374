---------------------------- MODULE DeviceStartup ----------------------------
(***************************************************************************)
(* What a Modbus transport does when its connection comes up, before it    *)
(* reads: it decides whether it may write, walks the device's SunSpec chain *)
(* to learn where this device has put its blocks, rebuilds the dynamic part *)
(* of the register map from the anchors found, and identifies the device.  *)
(* The chain is read one header at a time; any read may go unanswered.     *)
(* Models are of the kinds "inverter", "meter" and "mppt"; an mppt model    *)
(* ends in repeating blocks. Addresses are counted in small registers.     *)
(***************************************************************************)
EXTENDS Naturals, Sequences, SequencesExt

CONSTANTS
    Layouts,         \* the chains this device may have: sequences of models
    DefaultLayout,   \* the chain that discovery_defaults describe
    Bases,           \* DEFAULT_BASE_ADDRESSES, in the order they are tried
    DefaultBase,     \* the one discovery_defaults describe
    MaxModels,       \* MAX_MODELS
    WriteTypes,      \* of "off", "standard", "relaxed" and "unsafe"
    MaxSilences,     \* bound: reads of a start-up that go unanswered
    MaxSessions,     \* bound: connections, reloads and restarts
    MayReloadDevice  \* TRUE: the gateway is reloaded

\* The models of a chain: their kind, the registers after the header, and the
\* number of blocks that the N register of an mppt model says.
Kinds == {"inverter", "meter", "mppt"}
Models == [kind : Kinds, length : Nat, n : Nat]
FirstBlock == 3     \* first_offset
BlockLength == 2    \* block_length

ASSUME DeviceStartupAssumption ==
    /\ Layouts \subseteq Seq(Models) /\ DefaultLayout \in Layouts
    /\ Bases \in Seq(Nat) /\ DefaultBase \in Range(Bases)
    /\ MaxModels \in Nat /\ MaxSilences \in Nat /\ MaxSessions \in Nat
    /\ WriteTypes \subseteq {"off", "standard", "relaxed", "unsafe"} /\ MayReloadDevice \in BOOLEAN

VARIABLES
    layout,         \* the chain of the device
    markerAt,       \* where its marker is
    early,          \* 1: its firmware is the one the probe looks for
    suits,          \* TRUE: the map's values are plausible on this device
    writeType,      \* write_mode
    writeOn,        \* write_enabled
    firstConnect,   \* first_connect
    stage,          \* what connect() is doing
    candidate,      \* the base being tried
    nextHeader,     \* address of the next header
    walked,         \* the models found, with their addresses
    counts,         \* the models whose N register was read
    probe,          \* what the probe said: 0, 1, or 2 for nothing
    anchors,        \* anchors of the map in force
    rows,           \* the dynamic rows of the map in force
    tracked,        \* the rows that have a failure tracker
    identified,     \* identification_attempted
    judged,         \* history: enable_write() decided in this instance
    reloaded,       \* history: this instance replaced another
    silences,       \* history: reads that went unanswered
    missedNothing,  \* history: the last walk got every answer, and of the chain as it is
    sessions        \* bound on the sessions

device == <<layout, markerAt, early>>
writeSetup == <<suits, writeType>>
map == <<anchors, rows, tracked>>
walk == <<candidate, nextHeader, walked, counts, probe>>
startupVars == <<device, writeSetup, writeOn, firstConnect, stage, walk, map, identified, judged, reloaded, silences, missedNothing, sessions>>
----------------------------------------------------------------------------
(* Anchors and rows. *)

\* A chain with the addresses of its headers, from the marker on.
Located(base, l) ==
    LET at[i \in 1..(Len(l) + 1)] ==
            IF i = 1 THEN base + 2 ELSE at[i - 1] + 2 + l[i - 1].length
    IN [i \in DOMAIN l |-> [kind |-> l[i].kind, length |-> l[i].length, n |-> l[i].n, at |-> at[i]]]

OfKind(models, k) == FlattenSeq([i \in DOMAIN models |-> IF models[i].kind = k THEN <<models[i]>> ELSE <<>>])
Headers(models, k) == LET s == OfKind(models, k) IN [i \in DOMAIN s |-> s[i].at]

\* The blocks that the declared length of a model can hold.
Capacity(m) == (IF m.length > FirstBlock - 2 THEN m.length - (FirstBlock - 2) ELSE 0) \div BlockLength
Smaller(a, b) == IF a < b THEN a ELSE b

\* Mutant of BlocksOf: the N register is believed.
BlocksOfClaimed(m, read) == IF m.at \in read THEN m.n ELSE Capacity(m)

\* The N register, if it was read, and never more than fit.
BlocksOf(m, read) == IF m.at \in read THEN Smaller(m.n, Capacity(m)) ELSE Capacity(m)

BlockStarts(models, read) ==
    LET s == OfKind(models, "mppt")
    IN FlattenSeq([i \in DOMAIN s |->
           [b \in 1..BlocksOf(s[i], read) |-> s[i].at + FirstBlock + (b - 1) * BlockLength]])

\* build_anchors(): instances are numbered in the order of the chain.
BuildAnchors(models, read) ==
    [inverter |-> Headers(models, "inverter"), meter |-> Headers(models, "meter"),
     mppt |-> BlockStarts(models, read)]

NReadable(models) == {models[i].at : i \in {j \in DOMAIN models : models[j].kind = "mppt" /\ models[j].n > 0}}
ChainAnchors(base, l) == LET m == Located(base, l) IN BuildAnchors(m, NReadable(m))
DefaultAnchors == [owned |-> ChainAnchors(DefaultBase, DefaultLayout), legacy |-> 0]

\* Template rows: one per instance of each kind, and one if the probe says so.
\* A row whose anchor is unknown is held back.
ExpandRows(anch) ==
    (UNION {{<<k, i, anch.owned[k][i]>> : i \in DOMAIN anch.owned[k]} : k \in Kinds})
    \cup (IF anch.legacy = 1 THEN {<<"legacy", 1, 0>>} ELSE {})

\* The rows this device should have.
TrueRows ==
    ExpandRows([owned |-> ChainAnchors(markerAt, SubSeq(layout, 1, Smaller(Len(layout), MaxModels))),
                legacy |-> early])
----------------------------------------------------------------------------
\* A new transport object, before its first dial.
NewInstance(first) ==
    /\ firstConnect' = first /\ reloaded' = ~first
    /\ stage' = "off" /\ candidate' = 1 /\ nextHeader' = 0 /\ walked' = <<>> /\ counts' = {} /\ probe' = 2
    /\ anchors' = DefaultAnchors /\ rows' = ExpandRows(DefaultAnchors) /\ tracked' = {}
    /\ identified' = FALSE /\ judged' = FALSE /\ missedNothing' = FALSE
    /\ writeOn' = (writeType # "off")

StartupInit ==
    /\ layout \in Layouts /\ markerAt \in Range(Bases) /\ early \in {0, 1}
    /\ suits \in BOOLEAN /\ writeType \in WriteTypes
    /\ firstConnect = TRUE /\ reloaded = FALSE
    /\ stage = "off" /\ candidate = 1 /\ nextHeader = 0 /\ walked = <<>> /\ counts = {} /\ probe = 2
    /\ anchors = DefaultAnchors /\ rows = ExpandRows(DefaultAnchors) /\ tracked = {}
    /\ identified = FALSE /\ judged = FALSE /\ missedNothing = FALSE
    /\ writeOn = (writeType # "off")
    /\ silences = 0 /\ sessions = 0

\* A read of the device that is answered, or one that is not: it misses something.
Answered == UNCHANGED <<silences, missedNothing>>
Silent == silences < MaxSilences /\ silences' = silences + 1 /\ missedNothing' = FALSE

\* connect() of the subclass and of modbus_base. What follows is done once: the
\* branch for a later connect asks for a transport that is not connected, and
\* the subclass comes here only when it is.
DialDevice ==
    /\ stage = "off" /\ sessions < MaxSessions /\ sessions' = sessions + 1
    /\ stage' = IF firstConnect THEN "writes" ELSE "ready"
    /\ firstConnect' = FALSE /\ missedNothing' = (missedNothing \/ firstConnect)
    /\ UNCHANGED <<device, writeSetup, writeOn, walk, map, identified, judged, reloaded, silences>>

\* enable_write(): the map in force is scored against the device.
EnableWrite ==
    /\ stage = "writes" /\ stage' = "marker" /\ judged' = writeOn
    /\ IF ~writeOn \/ writeType = "unsafe"
          THEN UNCHANGED <<writeOn, silences, tracked>>
          ELSE \/ /\ writeOn' = (writeType = "relaxed" \/ (suits /\ rows = TrueRows))
                  /\ UNCHANGED <<silences, tracked>>
               \/ /\ silences < MaxSilences /\ silences' = silences + 1
                  /\ writeOn' = (writeType = "relaxed")
                  /\ \E r \in rows : tracked' = tracked \cup {r}
    /\ UNCHANGED <<device, writeSetup, firstConnect, walk, anchors, rows, identified, reloaded, missedNothing,
                   sessions>>

\* discover(): the candidate bases, one after the other.
FindMarker ==
    /\ stage = "marker"
    /\ \/ /\ Answered /\ Bases[candidate] = markerAt
          /\ stage' = "headers" /\ nextHeader' = markerAt + 2 /\ UNCHANGED candidate
       \/ /\ IF Bases[candidate] = markerAt THEN Silent ELSE Answered
          /\ UNCHANGED nextHeader
          /\ IF candidate < Len(Bases) THEN candidate' = candidate + 1 /\ UNCHANGED stage
                                       ELSE stage' = "probe" /\ UNCHANGED candidate
    /\ UNCHANGED <<device, writeSetup, writeOn, firstConnect, walked, counts, probe, map, identified,
                   judged, reloaded, sessions>>

\* _walk_chain(): the header at nextHeader. An unanswered read ends the chain.
ReadHeader ==
    /\ stage = "headers"
    /\ LET here == {m \in Range(Located(markerAt, layout)) : m.at = nextHeader} IN
       \/ /\ Len(walked) < MaxModels /\ Answered
          /\ \E m \in here : walked' = Append(walked, m) /\ nextHeader' = nextHeader + 2 + m.length
          /\ UNCHANGED stage
       \/ /\ here = {} \/ Len(walked) = MaxModels
          /\ Answered /\ stage' = "counts" /\ UNCHANGED <<walked, nextHeader>>
       \/ Silent /\ stage' = "counts" /\ UNCHANGED <<walked, nextHeader>>
    /\ UNCHANGED <<device, writeSetup, writeOn, firstConnect, candidate, counts, probe, map, identified,
                   judged, reloaded, sessions>>

\* _read_block_counts()
ReadBlockCounts ==
    /\ stage = "counts" /\ stage' = "probe"
    /\ \E read \in SUBSET NReadable(walked) :
          /\ counts' = read
          /\ IF read = NReadable(walked) THEN Answered ELSE Silent
    /\ UNCHANGED <<device, writeSetup, writeOn, firstConnect, candidate, nextHeader, walked, probe, map,
                   identified, judged, reloaded, sessions>>

\* run_probes()
RunProbes ==
    /\ stage = "probe" /\ stage' = "apply"
    /\ \/ Answered /\ probe' = early
       \/ Silent /\ probe' = 2
    /\ UNCHANGED <<device, writeSetup, writeOn, firstConnect, candidate, nextHeader, walked, counts, map,
                   identified, judged, reloaded, sessions>>

\* A provider that found its marker owns its anchors: their defaults go.
Provided == nextHeader # 0

\* Mutant of Merged: what the device does not report stays.
MergedWithDefaults ==
    [owned |-> IF Provided
                  THEN [k \in Kinds |-> LET found == BuildAnchors(walked, counts)[k]
                                        IN IF found = <<>> THEN DefaultAnchors.owned[k] ELSE found]
                  ELSE DefaultAnchors.owned,
     legacy |-> IF probe = 2 THEN DefaultAnchors.legacy ELSE probe]

\* apply_anchors(): the defaults, overlaid with what was discovered.
Merged ==
    [owned |-> IF Provided THEN BuildAnchors(walked, counts) ELSE DefaultAnchors.owned,
     legacy |-> IF probe = 2 THEN DefaultAnchors.legacy ELSE probe]

\* discover_register_structure(): another layout is another map, and its
\* trackers start over.
ApplyAnchors ==
    /\ stage = "apply" /\ stage' = "identify"
    /\ IF (Provided \/ probe # 2) /\ Merged # anchors
          THEN anchors' = Merged /\ rows' = ExpandRows(Merged) /\ tracked' = {}
          ELSE UNCHANGED map
    /\ UNCHANGED <<device, writeSetup, writeOn, firstConnect, walk, identified, judged, reloaded,
                   silences, missedNothing, sessions>>

\* The rest of init_after_connect(), and of connect().
Identify ==
    /\ stage = "identify" /\ stage' = "ready" /\ identified' = TRUE
    /\ UNCHANGED <<device, writeSetup, writeOn, firstConnect, walk, map, judged, reloaded, silences,
                   missedNothing, sessions>>

\* A read of a row fails: its range has a tracker from then on.
RowFails(r) ==
    /\ stage = "ready" /\ tracked' = tracked \cup {r}
    /\ UNCHANGED <<device, writeSetup, writeOn, firstConnect, stage, walk, anchors, rows, identified,
                   judged, reloaded, silences, missedNothing, sessions>>

----------------------------------------------------------------------------
(* Outside. *)

\* The connection is lost, and what is attached may change while it is.
LinkDrops ==
    /\ stage = "ready" /\ stage' = "off"
    /\ \/ UNCHANGED <<device, missedNothing>>
       \/ /\ layout' \in Layouts \ {layout} /\ UNCHANGED <<markerAt, early>> /\ missedNothing' = FALSE
    /\ UNCHANGED <<writeSetup, writeOn, firstConnect, walk, map, identified, judged, reloaded, silences,
                   sessions>>

\* The gateway is reloaded, with prepare_for_reload(), or the process restarted.
Replaced ==
    /\ stage = "ready" /\ sessions < MaxSessions
    /\ \E first \in (IF MayReloadDevice THEN BOOLEAN ELSE {TRUE}) : NewInstance(first)
    /\ UNCHANGED <<device, writeSetup, silences, sessions>>

StartupNext ==
    \/ DialDevice \/ EnableWrite \/ FindMarker \/ ReadHeader \/ ReadBlockCounts \/ RunProbes
    \/ ApplyAnchors \/ Identify \/ LinkDrops \/ Replaced
    \/ \E r \in rows : RowFails(r)

StartupSpec == StartupInit /\ [][StartupNext]_startupVars

----------------------------------------------------------------------------
(* Properties. *)

StartupTypeOK ==
    /\ layout \in Layouts /\ markerAt \in Range(Bases) /\ early \in {0, 1}
    /\ {suits, writeOn, firstConnect, identified, judged, reloaded, missedNothing} \subseteq BOOLEAN
    /\ stage \in {"off", "writes", "marker", "headers", "counts", "probe", "apply", "identify", "ready"}
    /\ candidate \in DOMAIN Bases /\ Len(walked) <= MaxModels /\ probe \in 0..2
    /\ tracked \subseteq (DOMAIN anchors.owned \cup {"legacy"}) \X Nat \X Nat

\* A start-up that got every answer leaves the map of this very device: each
\* instance at its address, and nothing of the defaults that is not attached.
MapIsOfTheDevice == stage = "ready" /\ missedNothing => rows = TrueRows

\* Whatever went unanswered, a row of a discovered map is of something the chain
\* holds: no instance at another's address, no block beyond its model.
NothingAstray ==
    stage = "ready" /\ anchors # DefaultAnchors /\ Provided =>
        \A row \in rows : row[1] = "legacy" \/
            \E m \in Range(walked) :
                /\ m.kind = row[1]
                /\ row[3] \in m.at..(m.at + 1 + m.length)

\* The failure trackers are of the ranges of the map in force.
TrackersAreOfTheMap == stage = "ready" => tracked \subseteq rows

\* A transport built at start-up writes only after enable_write() has decided.
FreshWritesAreJudged ==
    stage = "ready" /\ writeOn /\ ~reloaded =>
        judged /\ (writeType = "standard" => suits)

\* The four together: connect() leaves the map of the device.
DeviceIsMapped == MapIsOfTheDevice /\ NothingAstray /\ TrackersAreOfTheMap /\ FreshWritesAreJudged

\* transports.md:96: the validation runs whenever a Modbus transport connects.
WritesFollowValidation == stage = "ready" /\ writeOn /\ writeType = "standard" => judged

\* dynamic_register_discovery.md: "on the first connect and on every reconnect".
ReconnectDiscovers == stage = "ready" /\ silences = 0 => missedNothing

\* The comment at modbus_base.py:1281: discovery comes before anything reads the map.
DiscoveryComesFirst == stage = "marker" => ~judged \/ writeType = "unsafe"

\* "If the device does not answer, the layout already in place is kept."
SilenceKeepsLayout ==
    stage = "ready" /\ layout = DefaultLayout /\ markerAt = DefaultBase
        => ExpandRows(DefaultAnchors) \subseteq rows
=============================================================================
