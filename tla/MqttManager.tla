----------------------------- MODULE MqttManager -----------------------------
(***************************************************************************)
(* The MQTT session (network/MqttManager.cpp) and the part of manageWifi() *)
(* that ends it when the preferred route changes.  LAN and Wi-Fi come and  *)
(* go between the two steps of a pass; the broker, and the client library  *)
(* that notices a dead session by its keep-alive, are external.            *)
(* The retry interval is counted in units of ten seconds.                  *)
(***************************************************************************)
EXTENDS Integers, FiniteSetsExt

VARIABLES
  mqttUp,       \* the interfaces with an address: a subset of {"lan", "wifi"}
  mqttSchedule, \* Wi-Fi is switched off by the schedule
  mqttBroker,   \* the broker answers
  mqttPrevious, \* previousPrimaryEthernet
  mqttSession,  \* the interface the session was made on, or "none"
  mqttRetry,    \* mqttRetryMs
  mqttTimer,    \* "run", or "due" when the interval since the last attempt is over
  mqttPc        \* "wifi" before manageWifi(), "mqtt" before manageMqtt()

outsideVars == <<mqttUp, mqttSchedule, mqttBroker>>
mqttVars == <<outsideVars, mqttPrevious, mqttSession, mqttRetry, mqttTimer, mqttPc>>

Lan == "lan" \in mqttUp
-----------------------------------------------------------------------------
\* manageWifi(): when the preferred route has changed the session ends, and the
\* next attempt is due, unless the device has not run as long as the interval.
\* While the schedule holds the route is not looked at.
RouteStep ==
  /\ mqttPc = "wifi" /\ mqttPc' = "mqtt"
  /\ IF mqttSchedule \/ Lan = mqttPrevious
     THEN UNCHANGED <<mqttPrevious, mqttSession, mqttTimer>>
     ELSE mqttPrevious' = Lan /\ mqttSession' = "none" /\ mqttTimer' \in {"due", mqttTimer}
  /\ UNCHANGED <<outsideVars, mqttRetry>>

Idle ==
  /\ mqttUp = {}
  /\ mqttSession' = "none" /\ mqttRetry' = 1 /\ UNCHANGED mqttTimer

Wait ==
  /\ mqttUp # {} /\ (mqttSession # "none" \/ mqttTimer = "run")
  /\ UNCHANGED <<mqttSession, mqttRetry, mqttTimer>>

\* Mutant: the interval is doubled without end.
UncappedAttempt ==
  /\ mqttUp # {} /\ mqttSession = "none" /\ mqttTimer = "due"
  /\ mqttTimer' = "run"
  /\ IF mqttBroker
     THEN mqttSession' = (IF Lan THEN "lan" ELSE "wifi") /\ mqttRetry' = 1
     ELSE mqttRetry' = 2 * mqttRetry /\ UNCHANGED mqttSession

\* The connection is made over the preferred interface.
Attempt ==
  /\ mqttUp # {} /\ mqttSession = "none" /\ mqttTimer = "due"
  /\ mqttTimer' = "run"
  /\ IF mqttBroker
     THEN mqttSession' = (IF Lan THEN "lan" ELSE "wifi") /\ mqttRetry' = 1
     ELSE mqttRetry' = Min({2 * mqttRetry, 6}) /\ UNCHANGED mqttSession

\* Mutant: the time of the last attempt is noted before it is known to be due.
EagerMqttStep ==
  /\ mqttPc = "mqtt" /\ mqttPc' = "wifi"
  /\ \/ Idle \/ Attempt
     \/ mqttUp # {} /\ mqttSession = "none" /\ mqttTimer' = "run"
        /\ UNCHANGED <<mqttSession, mqttRetry>>
     \/ mqttSession # "none" /\ Wait
  /\ UNCHANGED <<outsideVars, mqttPrevious>>

\* manageMqtt()
MqttStep ==
  /\ mqttPc = "mqtt" /\ mqttPc' = "wifi"
  /\ Idle \/ Wait \/ Attempt
  /\ UNCHANGED <<outsideVars, mqttPrevious>>
-----------------------------------------------------------------------------
LanChange ==
  /\ mqttUp' \in {mqttUp \union {"lan"}, mqttUp \ {"lan"}} \ {mqttUp}
  /\ UNCHANGED <<mqttSchedule, mqttBroker, mqttPrevious, mqttSession, mqttRetry, mqttTimer, mqttPc>>

WifiChange ==
  /\ ~mqttSchedule
  /\ mqttUp' \in {mqttUp \union {"wifi"}, mqttUp \ {"wifi"}} \ {mqttUp}
  /\ UNCHANGED <<mqttSchedule, mqttBroker, mqttPrevious, mqttSession, mqttRetry, mqttTimer, mqttPc>>

\* The schedule begins, with stopWifiForEcoSchedule() in manageWifi(), or ends.
ScheduleChange ==
  /\ mqttPc = "wifi" /\ mqttSchedule' = ~mqttSchedule
  /\ IF mqttSchedule THEN UNCHANGED <<mqttUp, mqttSession>>
     ELSE mqttUp' = mqttUp \ {"wifi"} /\ mqttSession' = "none"
  /\ UNCHANGED <<mqttBroker, mqttPrevious, mqttRetry, mqttTimer, mqttPc>>

BrokerChange ==
  /\ mqttBroker' = ~mqttBroker
  /\ UNCHANGED <<mqttUp, mqttSchedule, mqttPrevious, mqttSession, mqttRetry, mqttTimer, mqttPc>>

\* mqtt.loop(), or a write that fails, finds a session dead whose interface or
\* broker has gone.
KeepAlive ==
  /\ mqttSession # "none" /\ (mqttSession \notin mqttUp \/ ~mqttBroker)
  /\ mqttSession' = "none"
  /\ UNCHANGED <<outsideVars, mqttPrevious, mqttRetry, mqttTimer, mqttPc>>

RetryDue ==
  /\ mqttTimer = "run" /\ mqttTimer' = "due"
  /\ UNCHANGED <<outsideVars, mqttPrevious, mqttSession, mqttRetry, mqttPc>>

MqttNext ==
  \/ RouteStep \/ MqttStep \/ KeepAlive \/ RetryDue
  \/ LanChange \/ WifiChange \/ ScheduleChange \/ BrokerChange

MqttInit ==
  /\ mqttUp = {} /\ mqttSchedule = FALSE /\ mqttBroker \in BOOLEAN
  /\ mqttPrevious = FALSE /\ mqttSession = "none" /\ mqttRetry = 1 /\ mqttTimer = "run"
  /\ mqttPc = "wifi"

\* The loop runs, time passes, and a dead session is noticed.
MqttFairness ==
  WF_mqttVars(RouteStep) /\ WF_mqttVars(MqttStep) /\ WF_mqttVars(KeepAlive) /\ WF_mqttVars(RetryDue)

MqttSpec == MqttInit /\ [][MqttNext]_mqttVars /\ MqttFairness
-----------------------------------------------------------------------------
MqttTypeOK ==
  /\ mqttUp \subseteq {"lan", "wifi"} /\ mqttSession \in {"lan", "wifi", "none"}
  /\ {mqttSchedule, mqttBroker, mqttPrevious} \subseteq BOOLEAN
  /\ mqttRetry \in {1, 2, 4, 6} /\ mqttTimer \in {"run", "due"} /\ mqttPc \in {"wifi", "mqtt"}

\* When the interfaces and the broker stay, the session comes back and stays,
\* and the next retry starts from the shortest interval, wherever the changes
\* before them fell in the pass of the loop.
MqttReturns ==
  /\ <>[](mqttUp # {} /\ mqttBroker /\ ~mqttSchedule)
  /\ <>[][UNCHANGED mqttUp]_mqttVars
  => <>[](mqttSession \in mqttUp /\ mqttRetry = 1)
=============================================================================
