----------------------------- MODULE MCDelivery -----------------------------
(***************************************************************************)
(* What must eventually happen outside the gateway's own scheduler: the    *)
(* Influx bridges, the mqtt bridge's link and a scraper's register reads,  *)
(* side by side. They share no state, so a behaviour is one part's.        *)
(***************************************************************************)
EXTENDS InfluxBatch, MqttLink, RegisterReads

CONSTANTS w1, w2, t1, t2

VARIABLE part
partVars == <<part, influxVars, mqttVars, readVars>>

Parts == {"influx", "mqtt", "reads"}

PartInit ==
    /\ part \in Parts
    /\ InfluxInit /\ MqttInit /\ RegisterReadsInit
    /\ part # "influx" => setup = "v1"
    /\ part # "reads" => readPath = "iter"

PartNext ==
    /\ part' = part
    /\ \/ part = "influx" /\ InfluxNext /\ UNCHANGED <<mqttVars, readVars>>
       \/ part = "mqtt" /\ MqttNext /\ UNCHANGED <<influxVars, readVars>>
       \/ part = "reads" /\ RegisterReadsNext /\ UNCHANGED <<influxVars, mqttVars>>

OnInflux == part = "influx"
OnMqtt == part = "mqtt"
OnReads == part = "reads"

\* InfluxFairness, MqttFairness and RegisterReadsFairness, of the part that runs.
PartFairness ==
    /\ WF_influxVars(OnInflux /\ IntervalPasses)
    /\ \A w \in InfluxWriters :
          /\ WF_influxVars(OnInflux /\ Reconnecting(w)) /\ WF_influxVars(OnInflux /\ Writing(w))
          /\ WF_influxVars(OnInflux /\ OfferOther(w)) /\ SF_influxVars(OnInflux /\ CheckPings(w))
    /\ WF_mqttVars(OnMqtt /\ PahoDials) /\ WF_mqttVars(OnMqtt /\ LinkReturns)
    /\ WF_mqttVars(OnMqtt /\ WillFires) /\ WF_mqttVars(OnMqtt /\ OnConnect)
    /\ WF_mqttVars(OnMqtt /\ ResubscribeNext) /\ WF_mqttVars(OnMqtt /\ OnDisconnect)
    /\ WF_mqttVars(OnMqtt /\ LoopLooks) /\ WF_mqttVars(OnMqtt /\ LoopDials) /\ WF_mqttVars(OnMqtt /\ LoopJudges)
    /\ WF_mqttVars(OnMqtt /\ LoopEnds) /\ WF_mqttVars(OnMqtt /\ \E d \in MqttDevices : AddTopic(d))
    /\ WF_mqttVars(OnMqtt /\ FinishStart) /\ WF_mqttVars(OnMqtt /\ BeginWrite)
    /\ WF_mqttVars(OnMqtt /\ EndWrite) /\ WF_mqttVars(OnMqtt /\ ExitDisconnects)
    /\ WF_readVars(OnReads /\ (ConnectPort \/ BeginCycle \/ SkipRange \/ ReadSucceeds \/ ReadFails))
    /\ WF_readVars(OnReads /\ ReadTimePasses)

PartSpec == PartInit /\ [][PartNext]_partVars /\ PartFairness
----------------------------------------------------------------------------
\* What must happen of itself after a failure, asked of the part that runs: the
\* bridge gets its readings out (_flush_backlog), the link comes back to service
\* with its topics (_reconnect), a range is read again and again
\* (read_modbus_registers).
DeliveryGoesOn ==
    /\ part = "influx" => ReconnectDelivers
    /\ LinkIsMinded
    /\ part = "reads" => EveryRangeIsRead
\* The type invariants of the parts.
DeliveryTypeOK == InfluxTypeOK /\ MqttLinkTypeOK /\ RegisterReadsTypeOK
=============================================================================
