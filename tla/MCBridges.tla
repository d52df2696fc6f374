----------------------------- MODULE MCBridges -----------------------------
(***************************************************************************)
(* What every bridge has to itself, side by side: the watch on frozen      *)
(* devices, the Prometheus counters, mqtt's command topics and the notices *)
(* of lost and restored connections; and the sections of a serial port,    *)
(* which their bridges see fall silent. They share no state, so a          *)
(* behaviour is one part's.                                                *)
(***************************************************************************)
EXTENDS StaleWatch, PrometheusExport, MqttCommands, ConnectionNotices, SerialBus, TLC

CONSTANTS a1, a2, m1, m2, f1, l1, l2, c1, w1, w2

OneDevice == <<m1>>
TwoDevices == <<m1, m2>>
SharedLabel == m1 :> l1 @@ m2 :> l1
OnePoll == <<1>>
OwnLabels == m1 :> l1 @@ m2 :> l2

VARIABLE part
partVars == <<part, watchVars, prometheusVars, commandVars, noticeVars, serialVars>>

Parts == {"watch", "prometheus", "commands", "notices", "serial"}

PartInit ==
    /\ part \in Parts
    /\ WatchInit /\ PrometheusInit /\ CommandInit /\ NoticesInit
    /\ SerialInit
    /\ part # "serial" => style = "listen" /\ plugged
    /\ part # "watch" => kind = "influx" /\ device = [m \in Metrics |-> 0]
    /\ part # "commands" => types = [g \in Gateways |-> "auto"]
OnSerial == part = "serial" /\ UNCHANGED <<watchVars, prometheusVars, commandVars, noticeVars>>

PartNext ==
    /\ part' = part
    /\ \/ part = "watch" /\ WatchNext /\ UNCHANGED <<prometheusVars, commandVars, noticeVars, serialVars>>
       \/ part = "prometheus" /\ PrometheusNext /\ UNCHANGED <<watchVars, commandVars, noticeVars, serialVars>>
       \/ part = "commands" /\ CommandNext /\ UNCHANGED <<watchVars, prometheusVars, noticeVars, serialVars>>
       \/ part = "notices" /\ NoticesNext /\ UNCHANGED <<watchVars, prometheusVars, commandVars, serialVars>>
       \/ OnSerial /\ SerialNext

\* The fairness of the serial port; the other parts promise nothing of the kind.
PartFairness ==
    /\ \A s \in Sections :
        /\ WF_serialVars(OnSerial /\ ReaderGoesOn(s)) /\ SF_serialVars(OnSerial /\ Ask(s))
        /\ SF_serialVars(OnSerial /\ \E c \in {Hello} \cup ToSet(Polls) : Speaks(s, c))
    /\ WF_serialVars(OnSerial /\ TokenArrives)

PartSpec == PartInit /\ [][PartNext]_partVars /\ PartFairness
----------------------------------------------------------------------------
\* The type invariants of the parts.
BridgesTypeOK == WatchTypeOK /\ PrometheusTypeOK /\ CommandTypeOK /\ NoticesTypeOK /\ SerialTypeOK

\* A device that does not deliver is answered for: one that is frozen is noticed, and one
\* on a serial port that can answer does: stale_devices() and connect() of serial_base.
SilenceIsEnded == FrozenIsAnswered /\ (part = "serial" => LinesComeUp)
=============================================================================
