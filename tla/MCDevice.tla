------------------------------ MODULE MCDevice ------------------------------
(***************************************************************************)
(* The smaller components in one run.  They share no state, so that every  *)
(* behaviour of one of them is seen while the others stand still: "focus"  *)
(* is the one that runs.                                                   *)
(***************************************************************************)
EXTENDS LegacyRing, EventLog, SmlParser, D0Parser, ModbusServer,
        EthernetManager, NetworkManager, MqttManager

VARIABLE focus

deviceVars == <<focus, ringVars, eventVars, smlVars, d0Vars, modbusVars, lanVars,
                wifiVars, mqttVars>>
-----------------------------------------------------------------------------
\* Instances.
RingImports == {[t |-> 1, v |-> 2]}

\* Full rings of an older firmware: two records of a bucket, spoiled ones, and
\* ones that are not sorted.
OldRings ==
  {[copies |-> <<[write |-> 0, count |-> 4, gen |-> 0], Spoiled>>, slots |-> s] :
     s \in {<<[t |-> 1, v |-> 1]>> \o rest : rest \in
           [1 .. 3 -> {[t |-> 1, v |-> 1], [t |-> 2, v |-> 1], [t |-> 2, v |-> 2],
                       [t |-> 3, v |-> 2], Spoiled}]}}

Items == {Code("power", "total"), Code("power", "first"), Num(1), Num(20), Tok("list")}

AllTelegrams ==
  UNION {{s \in [1 .. n -> Items] : s[1].kind = "code"} : n \in 1 .. 4}

SomeTelegrams == {<<Code("power", "total"), Num(20)>>}

Request(protocol, function, range, length) ==
  [protocol |-> protocol, function |-> function, range |-> range, length |-> length]

Requests ==
  {Request(TRUE, TRUE, TRUE, 12), Request(TRUE, FALSE, TRUE, 12), Request(TRUE, TRUE, TRUE, 10),
   Request(TRUE, TRUE, TRUE, 7), Request(TRUE, TRUE, TRUE, 300)}

Signals == {-50, -55, -60, -64, -70}
-----------------------------------------------------------------------------
DeviceInit ==
  /\ focus \in {"ring", "event", "sml", "d0", "modbus", "lan", "wifi", "mqtt"}
  /\ RingInit /\ (focus # "ring" => ringFile = NoFile)
  /\ EventInit /\ (focus # "event" => ~eventSetting)
  /\ SmlInit /\ (focus # "sml" => smlSends = SomeTelegrams /\ smlFaults = 0)
  /\ D0Init /\ (focus # "d0" => ~d0Passive)
  /\ ModbusInit /\ LanInit
  /\ WifiInit /\ (focus # "wifi" => wifiAir = {} /\ ~wifiHotspot)
  /\ MqttInit /\ (focus # "mqtt" => ~mqttBroker)

DeviceNext ==
  /\ UNCHANGED focus
  /\ focus # "ring" => UNCHANGED ringVars
  /\ focus # "event" => UNCHANGED eventVars
  /\ focus # "sml" => UNCHANGED smlVars
  /\ focus # "d0" => UNCHANGED d0Vars
  /\ focus # "modbus" => UNCHANGED modbusVars
  /\ focus # "lan" => UNCHANGED lanVars
  /\ focus # "wifi" => UNCHANGED wifiVars
  /\ focus # "mqtt" => UNCHANGED mqttVars
  /\ \/ focus = "ring" /\ RingNext
     \/ focus = "event" /\ EventNext
     \/ focus = "sml" /\ SmlNext
     \/ focus = "d0" /\ D0Next
     \/ focus = "modbus" /\ ModbusNext
     \/ focus = "lan" /\ LanNext
     \/ focus = "wifi" /\ WifiNext
     \/ focus = "mqtt" /\ MqttNext

\* LanFairness, WifiFairness and MqttFairness, of the component that runs.
DeviceFairness ==
  /\ WF_lanVars(focus = "lan" /\ HandleEvent)
  /\ WF_lanVars(focus = "lan" /\ ReadAddress)
  /\ WF_lanVars(focus = "lan" /\ StoreGot)
  /\ WF_lanVars(focus = "lan" /\ StoreAddress)
  /\ WF_lanVars(focus = "lan" /\ ReportLost)
  /\ WF_wifiVars(focus = "wifi" /\ WifiPass)
  /\ WF_wifiVars(focus = "wifi" /\ CandidateDue)
  /\ WF_wifiVars(focus = "wifi" /\ AttemptDue)
  /\ \A slot \in WifiKnown : SF_wifiVars(focus = "wifi" /\ Join(slot))
  /\ WF_mqttVars(focus = "mqtt" /\ RouteStep)
  /\ WF_mqttVars(focus = "mqtt" /\ MqttStep)
  /\ WF_mqttVars(focus = "mqtt" /\ KeepAlive)
  /\ WF_mqttVars(focus = "mqtt" /\ RetryDue)

DeviceSpec == DeviceInit /\ [][DeviceNext]_deviceVars /\ DeviceFairness
-----------------------------------------------------------------------------
\* Every component keeps the types of its state.
DeviceTypeOK ==
  /\ RingTypeOK /\ EventTypeOK /\ SmlTypeOK /\ D0TypeOK
  /\ ModbusTypeOK /\ LanTypeOK /\ WifiTypeOK /\ MqttTypeOK
=============================================================================
