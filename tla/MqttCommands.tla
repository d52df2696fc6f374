--------------------------- MODULE MqttCommands ---------------------------
(***************************************************************************)
(* The mqtt bridge's way back: the write topics init_bridge() subscribes,  *)
(* the Home Assistant entities mqtt_discovery() announces for them, and    *)
(* the route of a command from its topic to a device. The devices share a  *)
(* protocol, so they have the same entities, and are enabled for writing. A*)
(* topic stands for its device and entity.                                 *)
(***************************************************************************)
EXTENDS Naturals, Sequences, SequencesExt, FiniteSets

CONSTANTS
    DeviceOrder,        \* the bridged devices, in the order of the configuration
    Sensors, Numbers, Switches,   \* read-only, writable numeric and coil entities
    WriteOnlyEntities,  \* of Numbers and Switches: write_mode WRITEONLY
    DiscoveryTypes,     \* discovery_entity_types: of "auto", "sensor"
    MaxStarts           \* bound: gateways built

ASSUME MqttCommandsAssumption ==
    /\ DeviceOrder \in Seq(ToSet(DeviceOrder)) /\ DeviceOrder # <<>> /\ MaxStarts \in Nat \ {0}
    /\ IsInjective(DeviceOrder)
    /\ Sensors \cap Numbers = {} /\ (Sensors \cup Numbers) \cap Switches = {}
    /\ WriteOnlyEntities \subseteq Numbers \cup Switches
    /\ DiscoveryTypes \subseteq {"auto", "sensor"}

VARIABLES
    types,       \* discovery_entity_types of each gateway built
    selected,    \* <device>.writable.csv: the entities enabled for writing
    starts,      \* gateways built so far; the last one is the current one
    topics,      \* _write_topics of the client of each gateway built
    known,       \* _discovery_transports of each: the devices it announces
    listening,   \* the gateways whose client is subscribed
    toInit,      \* devices whose init_bridge() the current one has still to call
    toAnnounce,  \* entities mqtt_discovery() has still to publish, and for which gateway
    configs,     \* retained discovery configs: device, entity, component
    routed,      \* history: what the last command wrote, and for which topic
    reselected   \* history: TRUE if selections changed since the last start

commandVars == <<types, selected, starts, topics, known, listening, toInit, toAnnounce, configs,
                 routed, reselected>>

MqttBridged == ToSet(DeviceOrder)
Writables == Numbers \cup Switches
Entities == Sensors \cup Writables
Components == {"sensor", "binary_sensor", "number", "switch"}
Controls == {"number", "switch"}
Topic == MqttBridged \X Writables
Gateways == 1..MaxStarts

CommandTypeOK ==
    /\ types \in [Gateways -> DiscoveryTypes] /\ selected \subseteq Topic /\ starts \in 0..MaxStarts
    /\ topics \in [Gateways -> SUBSET Topic] /\ known \in [Gateways -> SUBSET MqttBridged]
    /\ listening \subseteq 1..starts /\ ToSet(toInit) \subseteq MqttBridged
    /\ toAnnounce \subseteq [by : 1..starts, of : MqttBridged \X Entities]
    /\ configs \subseteq MqttBridged \X Entities \X Components
    /\ routed \subseteq [for : Topic, to : Topic, by : 1..starts]

CommandInit ==
    /\ \E type \in DiscoveryTypes : types = [g \in Gateways |-> type]
    /\ selected = {} /\ starts = 0
    /\ topics = [g \in Gateways |-> {}] /\ known = [g \in Gateways |-> {}] /\ listening = {}
    /\ toInit = <<>> /\ toAnnounce = {} /\ configs = {} /\ routed = {}
    /\ reselected = FALSE

----------------------------------------------------------------------------
(* Selections and starts. *)

\* A commit of the selections, which may take some back.
SelectWrites ==
    /\ selected' \in (SUBSET Topic) \ {selected}
    /\ reselected' = TRUE
    /\ UNCHANGED <<types, starts, topics, known, listening, toInit, toAnnounce, configs, routed>>

\* A new process, or a reload(), which leaves the client of the gateway it stops
\* subscribed: mqtt has no cleanup() of its own. A build that fails midway leaves its own.
StartGateway ==
    /\ starts < MaxStarts /\ starts' = starts + 1
    /\ \/ listening' = {starts'} /\ toAnnounce' = {}
       \/ listening' = listening \cup {starts'} /\ UNCHANGED toAnnounce
    /\ toInit' = DeviceOrder
    /\ \E type \in DiscoveryTypes : types' = [types EXCEPT ![starts'] = type]
    /\ reselected' = FALSE /\ routed' = {}
    /\ UNCHANGED <<selected, topics, known, configs>>

\* Both gates: writable by the protocol, selected for this device.
Allowed(d) == {t \in {d} \X Writables : t \in selected}

Announcements(g, devices) == {[by |-> g, of |-> t] : t \in devices \X Entities}
Announcing(g) == {a \in toAnnounce : a.by = g}

\* Mutant of InitBridge: only the first device's topics are replaced.
InitBridgeOfAll ==
    /\ toInit # <<>>
    /\ topics' = [topics EXCEPT ![starts] = Allowed(Head(toInit))]
    /\ known' = [known EXCEPT ![starts] = @ \cup {Head(toInit)}]
    /\ toAnnounce' = toAnnounce \cup Announcements(starts, {Head(toInit)})
    /\ toInit' = Tail(toInit)
    /\ UNCHANGED <<types, selected, starts, listening, configs, routed, reselected>>

\* init_bridge(): only this device's topics are replaced. It does not wait for what a
\* thread of HomeAssistantStarts has still to announce, and here for no announcement.
InitBridge ==
    /\ toInit # <<>>
    /\ LET d == Head(toInit)
       IN /\ topics' = [topics EXCEPT ![starts] = {t \in @ : t[1] # d} \cup Allowed(d)]
          /\ known' = [known EXCEPT ![starts] = @ \cup {d}]
          /\ toAnnounce' = toAnnounce \cup Announcements(starts, {d})
    /\ toInit' = Tail(toInit)
    /\ UNCHANGED <<types, selected, starts, listening, configs, routed, reselected>>

----------------------------------------------------------------------------
(* mqtt_discovery(), one entity at a time. *)

\* Mutant of Native: what the protocol allows is a control.
NativeByProtocol(g, t) ==
    IF t[2] \in Switches THEN "switch" ELSE IF t[2] \in Numbers THEN "number" ELSE "sensor"

\* The platform of an entity: a control if its topic is subscribed.
Native(g, t) ==
    CASE t \in topics[g] /\ t[2] \in Switches    -> "switch"
      [] t \in topics[g] /\ t[2] \in Numbers     -> "number"
      [] t \notin topics[g] /\ t[2] \in Switches -> "binary_sensor"
      [] OTHER                                    -> "sensor"

\* What is announced; a write-only entity that is no control is not.
Planned(g, t) ==
    IF types[g] = "sensor" THEN {"sensor"}
    ELSE IF t[2] \in WriteOnlyEntities /\ Native(g, t) \notin Controls THEN {}
    ELSE {Native(g, t)}

\* stale_components: cleared at the broker before.
StaleComponents(g, t) == {"sensor", Native(g, t)} \ Planned(g, t)

Platforms(t) == {c \in Components : <<t[1], t[2], c>> \in configs}

Announce ==
    \E a \in toAnnounce :
        /\ configs' = {c \in configs : ~(<<c[1], c[2]>> = a.of /\ c[3] \in StaleComponents(a.by, a.of))}
                         \cup {<<a.of[1], a.of[2], c>> : c \in Planned(a.by, a.of)}
        /\ toAnnounce' = toAnnounce \ {a}
        /\ UNCHANGED <<types, selected, starts, topics, known, listening, toInit, routed, reselected>>

\* _handle_ha_status(), of a client that listens: discovery is run again for the devices it
\* knows, in a thread of its own.
HomeAssistantStarts ==
    \E g \in listening :
        /\ toAnnounce' = toAnnounce \cup Announcements(g, known[g])
        /\ UNCHANGED <<types, selected, starts, topics, known, listening, toInit, configs, routed,
                       reselected>>

----------------------------------------------------------------------------
(* Commands. *)

\* on_message(): the first transport bridged to the client, and no other.
RouteTo(t) == {<<DeviceOrder[1], t[2]>>}

\* A stopped gateway that still listens has closed its devices' clients: the read
\* before a register's write fails, a coil is written without one.
Obeys(g, t) == g \in listening /\ t \in topics[g] /\ (g = starts \/ t[2] \in Switches)

\* A command is delivered to every subscribed client, current or not.
Command ==
    \E t \in Topic :
        /\ routed' = {[for |-> t, to |-> w, by |-> g] :
                         w \in RouteTo(t), g \in {h \in listening : Obeys(h, t)}}
        /\ UNCHANGED <<types, selected, starts, topics, known, listening, toInit, toAnnounce, configs,
                       reselected>>

CommandNext ==
    \/ SelectWrites \/ StartGateway \/ InitBridge \/ Announce \/ HomeAssistantStarts \/ Command

CommandSpec == CommandInit /\ [][CommandNext]_commandVars

----------------------------------------------------------------------------
(* Properties. *)

Started == starts > 0 /\ toInit = <<>> /\ Announcing(starts) = {}
Settled == Started /\ ~reselected

\* Started with unchanged selections, the gateway accepts all of them, on every
\* device, and nothing else: what was withdrawn before is not accepted.
TopicsAreTheSelection == Settled => topics[starts] = selected

\* Then a register's command is carried out for its topic only if that is selected, and by
\* this gateway; a coil's also by a gateway that listens on and had it selected.
WithdrawalTakesEffect ==
    Settled => \A r \in routed :
        \/ r.for \in selected /\ r.by = starts
        \/ r.for[2] \in Switches /\ r.by \in listening \ {starts} /\ r.for \in topics[r.by]

\* A control at the broker was accepted by the gateway that announced it.
OffersWereAccepted ==
    \A c \in configs : c[3] \in Controls => \E g \in 1..starts : <<c[1], c[2]>> \in topics[g]

\* A gateway that started alone announces every entity as it plans to, whatever its
\* predecessors announced and whenever Home Assistant restarts: what else is retained is a
\* platform that the entity had by another selection.
AnnouncedAsPlanned ==
    Started /\ listening = {starts} =>
        \A t \in MqttBridged \X Entities :
            Platforms(t) \cap {"sensor", Native(starts, t)} = Planned(starts, t)

\* The four together: what is selected, subscribed, announced and carried out agree.
CommandsAreSelected ==
    TopicsAreTheSelection /\ WithdrawalTakesEffect /\ OffersWereAccepted /\ AnnouncedAsPlanned

\* What is written by a command is its own entity on its own device, enabled for
\* that device (MQTT_bridge.md:155).
CommandReachesItsDevice == \A r \in routed : r.to = r.for

\* A command is carried out by the current gateway, once.
CarriedOutOnce == Cardinality(routed) <= 1 /\ \A r \in routed : r.by = starts

\* What is carried out is selected, for the device that it is written to.
WrittenIsSelected == Settled => \A r \in routed : r.to \in selected

\* Discovery never advertises a control the write gates would not accept
\* (mqtt.py:1033).
AdvertisedIsAccepted ==
    Started => \A c \in configs : c[3] \in Controls => <<c[1], c[2]>> \in topics[starts]

\* An entity is announced under one platform (mqtt.py:1099).
OnePlatform == Started => \A b, c \in configs : b[1] = c[1] /\ b[2] = c[2] => b = c
=============================================================================
