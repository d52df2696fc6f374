----------------------------- MODULE MqttLink -----------------------------
(***************************************************************************)
(* The mqtt bridge's connection to its broker: paho's network thread runs  *)
(* the callbacks, a daemon thread per outage tries to reconnect, the       *)
(* gateway's thread starts the bridge, publishes readings and shuts it     *)
(* down. What the broker and paho do is external.                          *)
(***************************************************************************)
EXTENDS Naturals, FiniteSets

CONSTANTS
    MqttDevices,        \* devices with write topics, bridged to this client
    ReconnectAttempts,  \* reconnect_attempts, 0 for no limit
    PahoRetries,        \* TRUE: paho's own thread redials too
    CallbacksWait,      \* TRUE: no callback runs during init_bridge() or exit_handler()
    MaxLinkFailures     \* bound: link failures

ASSUME MqttLinkAssumption ==
    /\ {ReconnectAttempts, MaxLinkFailures} \subseteq Nat
    /\ {PahoRetries, CallbacksWait} \subseteq BOOLEAN

VARIABLES
    life,         \* of the process: starting, running, exiting, gone
    net,          \* TRUE: the broker can be reached
    sock,         \* the client: down, dialing (CONNECT sent) or up
    alive,        \* TRUE: the broker serves the session of this socket
    ghosts,       \* sessions cut without DISCONNECT whose will is still due
    mqttOn,       \* connected
    network,      \* paho's thread: idle, resub (in on_connect), dead
    toSubscribe,  \* the topics on_connect has still to subscribe
    topicsSeen,   \* the write topics when its loop over them began
    writeTopics,  \* _write_topics, one per device
    subscribed,   \* topics this session is subscribed to
    loop,         \* the reconnect thread: none, top, wait, settle, final
    loopRef,      \* TRUE: _reconnect_thread is not None
    attempts,     \* of this reconnect thread
    writing,      \* write_data(): idle, or the is_connected() it has read
    status,       \* the retained bridge_status
    linkFailures

mqttVars == <<life, net, sock, alive, ghosts, mqttOn, network, toSubscribe, topicsSeen,
              writeTopics, subscribed, loop, loopRef, attempts, writing, status, linkFailures>>
link == <<net, sock, alive, ghosts>>
callbacks == <<network, toSubscribe, topicsSeen, subscribed>>
reconnecting == <<loop, loopRef, attempts>>

MqttLinkTypeOK ==
    /\ life \in {"starting", "running", "exiting", "gone"}
    /\ {net, alive, mqttOn, loopRef} \subseteq BOOLEAN /\ sock \in {"down", "dialing", "up"}
    /\ ghosts \in Nat /\ network \in {"idle", "resub", "dead"}
    /\ toSubscribe \cup topicsSeen \cup writeTopics \cup subscribed \subseteq MqttDevices
    /\ loop \in {"none", "top", "wait", "settle", "final"} /\ attempts \in 0..ReconnectAttempts
    /\ writing \in {"idle", "yes", "no"} /\ status \in {"none", "online", "offline"}
    /\ loop # "none" => loopRef \/ loop = "final"
    /\ linkFailures \in 0..MaxLinkFailures

\* connect(): the first one has to succeed, or the gateway is not built.
MqttInit ==
    /\ life = "starting" /\ net = TRUE /\ sock = "dialing" /\ alive = TRUE /\ ghosts = 0
    /\ mqttOn = FALSE /\ network = "idle" /\ toSubscribe = {} /\ topicsSeen = {}
    /\ writeTopics = {} /\ subscribed = {}
    /\ loop = "none" /\ loopRef = FALSE /\ attempts = 0
    /\ writing = "idle" /\ status = "none" /\ linkFailures = 0

Running == life \in {"starting", "running", "exiting"}
CallbacksRun == Running /\ network = "idle" /\ (CallbacksWait => life = "running")

----------------------------------------------------------------------------
(* paho and the broker. *)

\* client.reconnect(): the old socket is closed, whatever it was doing.
Dial ==
    /\ ghosts' = IF alive THEN ghosts + 1 ELSE ghosts
    /\ sock' = IF net THEN "dialing" ELSE "down"
    /\ alive' = net
    /\ UNCHANGED net

PahoDials ==
    /\ PahoRetries /\ CallbacksRun /\ sock = "down" /\ Dial
    /\ UNCHANGED <<life, mqttOn, callbacks, writeTopics, reconnecting, writing, status,
                   linkFailures>>

LinkFails ==
    /\ net /\ linkFailures < MaxLinkFailures
    /\ net' = FALSE /\ alive' = FALSE /\ ghosts' = IF alive THEN ghosts + 1 ELSE ghosts
    /\ linkFailures' = linkFailures + 1
    /\ UNCHANGED <<life, sock, mqttOn, callbacks, writeTopics, reconnecting, writing, status>>

LinkReturns ==
    /\ ~net /\ net' = TRUE
    /\ UNCHANGED <<life, sock, alive, ghosts, mqttOn, callbacks, writeTopics, reconnecting,
                   writing, status, linkFailures>>

\* will_set(): the broker finds a session dead and publishes its will.
WillFires ==
    /\ ghosts > 0 /\ ghosts' = ghosts - 1 /\ status' = "offline"
    /\ UNCHANGED <<life, net, sock, alive, mqttOn, callbacks, writeTopics, reconnecting,
                   writing, linkFailures>>

----------------------------------------------------------------------------
(* The callbacks, one at a time, on paho's thread. *)

\* on_connect(), up to its loop over the write topics
OnConnect ==
    /\ CallbacksRun /\ sock = "dialing" /\ alive
    /\ sock' = "up" /\ mqttOn' = TRUE /\ status' = "online"
    /\ toSubscribe' = writeTopics /\ topicsSeen' = writeTopics /\ subscribed' = {}
    /\ network' = IF writeTopics = {} THEN "idle" ELSE "resub"
    /\ UNCHANGED <<life, net, alive, ghosts, writeTopics, reconnecting, writing, linkFailures>>

\* _resubscribe_write_topics(): a topic added meanwhile raises RuntimeError,
\* which ends paho's thread.
ResubscribeNext ==
    /\ Running /\ network = "resub"
    /\ IF writeTopics # topicsSeen
          THEN network' = "dead" /\ UNCHANGED <<toSubscribe, subscribed>>
          ELSE \E d \in toSubscribe :
                  /\ toSubscribe' = toSubscribe \ {d}
                  /\ subscribed' = IF alive /\ sock = "up" THEN subscribed \cup {d} ELSE subscribed
                  /\ network' = IF toSubscribe' = {} THEN "idle" ELSE "resub"
    /\ UNCHANGED <<life, link, mqttOn, topicsSeen, writeTopics, reconnecting, writing, status,
                   linkFailures>>

\* _start_reconnect_thread()
StartLoop ==
    IF loopRef /\ loop # "none"
       THEN UNCHANGED reconnecting
       ELSE loop' = "top" /\ loopRef' = TRUE /\ attempts' = 0

\* on_disconnect()
OnDisconnect ==
    /\ CallbacksRun /\ sock # "down" /\ ~alive
    /\ sock' = "down" /\ mqttOn' = FALSE /\ subscribed' = {}
    /\ StartLoop
    /\ UNCHANGED <<life, net, alive, ghosts, network, toSubscribe, topicsSeen, writeTopics,
                   writing, status, linkFailures>>

----------------------------------------------------------------------------
(* _reconnect_loop(). *)

\* At the top: over, or wait.
LoopLooks ==
    /\ Running /\ loop = "top"
    /\ loop' = IF mqttOn THEN "final" ELSE "wait"
    /\ UNCHANGED <<life, link, mqttOn, callbacks, writeTopics, loopRef, attempts, writing, status,
                   linkFailures>>

\* The wait over, the client redials without a look.
LoopDials ==
    /\ Running /\ loop = "wait"
    /\ Dial
    /\ loop' = IF net THEN "settle"
               ELSE IF ReconnectAttempts > 0 /\ attempts + 1 >= ReconnectAttempts THEN "final"
               ELSE "top"
    /\ attempts' = IF ReconnectAttempts > 0 THEN attempts + 1 ELSE 0
    /\ subscribed' = {}
    /\ UNCHANGED <<life, mqttOn, network, toSubscribe, topicsSeen, writeTopics, loopRef, writing,
                   status, linkFailures>>

\* Mutant of LoopJudges: it never gives up.
LoopJudgesOn ==
    /\ Running /\ loop = "settle" /\ loop' = IF mqttOn THEN "final" ELSE "top"
    /\ UNCHANGED <<life, link, mqttOn, callbacks, writeTopics, loopRef, attempts, writing, status,
                   linkFailures>>

\* Two seconds later: connected, exhausted, or once more.
LoopJudges ==
    /\ Running /\ loop = "settle"
    /\ loop' = IF mqttOn \/ (ReconnectAttempts > 0 /\ attempts >= ReconnectAttempts)
               THEN "final" ELSE "top"
    /\ UNCHANGED <<life, link, mqttOn, callbacks, writeTopics, loopRef, attempts, writing, status,
                   linkFailures>>

\* finally: the reference is cleared, by a thread still alive until now.
LoopEnds ==
    /\ Running /\ loop = "final" /\ loop' = "none" /\ loopRef' = FALSE /\ attempts' = 0
    /\ UNCHANGED <<life, link, mqttOn, callbacks, writeTopics, writing, status, linkFailures>>

----------------------------------------------------------------------------
(* The gateway's thread. *)

\* init_bridge() of a device: its topic is added and subscribed.
AddTopic(d) ==
    /\ life = "starting" /\ d \notin writeTopics
    /\ writeTopics' = writeTopics \cup {d}
    /\ subscribed' = IF sock = "up" /\ alive THEN subscribed \cup {d} ELSE subscribed
    /\ UNCHANGED <<life, link, mqttOn, network, toSubscribe, topicsSeen, reconnecting, writing,
                   status, linkFailures>>

FinishStart ==
    /\ life = "starting" /\ writeTopics = MqttDevices /\ life' = "running"
    /\ UNCHANGED <<link, mqttOn, callbacks, writeTopics, reconnecting, writing, status,
                   linkFailures>>

\* write_data(): is_connected() is read ...
BeginWrite ==
    /\ life = "running" /\ writing = "idle"
    /\ writing' = IF sock = "up" THEN "yes" ELSE "no"
    /\ UNCHANGED <<life, link, mqttOn, callbacks, writeTopics, reconnecting, status, linkFailures>>

\* ... and assigned; a refused publish clears the flag, an accepted one is lost
\* when the link is.
EndWrite ==
    /\ life = "running" /\ writing # "idle" /\ writing' = "idle"
    /\ mqttOn' = (writing = "yes" /\ sock = "up")
    /\ status' = IF sock = "up" /\ alive THEN "online" ELSE status
    /\ UNCHANGED <<life, link, callbacks, writeTopics, reconnecting, linkFailures>>

\* exit_handler(): offline is published, half a second passes,
ExitPublishes ==
    /\ life = "running" /\ writing = "idle" /\ life' = "exiting"
    /\ status' = IF sock = "up" /\ alive THEN "offline" ELSE status
    /\ UNCHANGED <<link, mqttOn, callbacks, writeTopics, reconnecting, writing, linkFailures>>

\* then the session is closed with a DISCONNECT, which drops the will.
ExitDisconnects ==
    /\ life = "exiting" /\ network # "resub" /\ life' = "gone"
    /\ sock' = "down" /\ alive' = FALSE
    /\ UNCHANGED <<net, ghosts, mqttOn, callbacks, writeTopics, reconnecting, writing, status,
                   linkFailures>>

MqttCrash ==
    /\ Running /\ life' = "gone" /\ sock' = "down" /\ alive' = FALSE
    /\ ghosts' = IF alive THEN ghosts + 1 ELSE ghosts
    /\ UNCHANGED <<net, mqttOn, callbacks, writeTopics, reconnecting, writing, status,
                   linkFailures>>

MqttGone == life = "gone" /\ UNCHANGED mqttVars

MqttNext ==
    \/ PahoDials \/ LinkFails \/ LinkReturns \/ WillFires
    \/ OnConnect \/ ResubscribeNext \/ OnDisconnect
    \/ LoopLooks \/ LoopDials \/ LoopJudges \/ LoopEnds
    \/ \E d \in MqttDevices : AddTopic(d)
    \/ FinishStart \/ BeginWrite \/ EndWrite
    \/ ExitPublishes \/ ExitDisconnects \/ MqttCrash \/ MqttGone

MqttSpec == MqttInit /\ [][MqttNext]_mqttVars

\* The threads run, the broker answers and finds dead sessions, an outage ends.
MqttFairness ==
    /\ WF_mqttVars(PahoDials) /\ WF_mqttVars(LinkReturns) /\ WF_mqttVars(WillFires)
    /\ WF_mqttVars(OnConnect) /\ WF_mqttVars(ResubscribeNext) /\ WF_mqttVars(OnDisconnect)
    /\ WF_mqttVars(LoopLooks) /\ WF_mqttVars(LoopDials) /\ WF_mqttVars(LoopJudges) /\ WF_mqttVars(LoopEnds)
    /\ WF_mqttVars(\E d \in MqttDevices : AddTopic(d)) /\ WF_mqttVars(FinishStart)
    /\ WF_mqttVars(BeginWrite) /\ WF_mqttVars(EndWrite) /\ WF_mqttVars(ExitDisconnects)

FairMqttSpec == MqttSpec /\ MqttFairness

----------------------------------------------------------------------------
(* Properties. *)

Serving == sock = "up" /\ alive /\ network = "idle"

\* Whatever the link does, a bridge that keeps running serves its device again:
\* connected, every write topic subscribed, bridge_status online
\* (MQTT_bridge.md:90: on_disconnect spawns a thread that retries).
LinkReturnsToService ==
    [](life = "running" =>
         <>(life # "running" \/ (Serving /\ mqttOn /\ subscribed = writeTopics /\ status = "online")))

\* An outage that on_disconnect() has seen is being retried (mqtt.py:444: "so a
\* future on_disconnect can spawn a fresh one").
OutageIsRetried == life = "running" /\ network = "idle" /\ sock = "down" => loop # "none"

\* A connected session that has been set up has all its write topics.
ServedIsSubscribed == Serving /\ mqttOn /\ life # "starting" => subscribed = writeTopics

\* A bridge that is gone ends up offline at the broker, crashed or closed
\* (the comment at mqtt.py:344).
GoneIsOffline == (life = "gone" /\ status = "online") ~> (life = "gone" /\ status = "offline")
\* The three together: the link comes back, whole, and its end is announced.
LinkIsMinded == []ServedIsSubscribed /\ LinkReturnsToService /\ GoneIsOffline
=============================================================================
