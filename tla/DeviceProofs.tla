---------------------------- MODULE DeviceProofs ----------------------------
(***************************************************************************)
(* The network components, and the device that MCDevice composes from all  *)
(* the smaller ones, for any instance: a device that looks for a network   *)
(* sends with full power, and every component of the device keeps the      *)
(* types and properties that it keeps alone.                               *)
(***************************************************************************)
EXTENDS MCDevice, RingProofs, ParserProofs, ModbusServerProofs

\* The time of a connection is kept only while the loop takes it for connected:
\* without this the adaptation could lower the power of a search.
SteadyInv == steadySince => wasConnected

PowerInv == SteadyInv /\ SearchesWithFullPower

\* What a device may search with.
Strong(power) == power.profile = "full" \/ power.fault
-----------------------------------------------------------------------------
LEMMA ForcedIsStrong ==
  ASSUME NEW power, NEW set \in Forced(power)
  PROVE  Strong(set)
  BY DEF Forced, TxSet, Power, Strong

LEMMA ForcedKeepsFault ==
  ASSUME NEW power, power.fault, NEW set \in Forced(power)
  PROVE  set.fault
  BY DEF Forced, TxSet, Power

\* The power after a pass without Wi-Fi is strong, if it had been raised when
\* the connection was lost.
LEMMA LostIsStrong ==
  ASSUME PowerInv, NEW set \in LostPower(txPower)
  PROVE  Strong(set)
  <1> DEFINE first == IF wasConnected THEN Forced(txPower) ELSE {txPower}
  <1>1. ASSUME NEW power \in first PROVE Strong(power)
    <2>1. CASE wasConnected
      BY <1>1, <2>1, ForcedIsStrong
    <2>2. CASE ~wasConnected
      BY <1>1, <2>2 DEF PowerInv, SearchesWithFullPower, Strong
    <2>3. QED
      BY <2>1, <2>2
  <1>2. CASE StartsHotspot
    <2>1. PICK power \in first : set \in Forced(power)
      BY <1>2 DEF LostPower
    <2>2. QED
      BY <2>1, ForcedIsStrong
  <1>3. CASE ~StartsHotspot
    BY <1>1, <1>3 DEF LostPower
  <1>4. QED
    BY <1>2, <1>3

LEMMA PowerInit == WifiInit => PowerInv
  BY DEF WifiInit, PowerInv, SteadyInv, SearchesWithFullPower, Power

LEMMA PassKeepsPower == PowerInv /\ WifiPass => PowerInv'
  <1> SUFFICES ASSUME PowerInv, WifiPass PROVE PowerInv'
    OBVIOUS
  <1> USE DEF PowerInv, SteadyInv, SearchesWithFullPower
  <1>1. CASE ScheduleOffPass
    BY <1>1 DEF ScheduleOffPass
  <1>2. CASE ResumePass
    BY <1>2 DEF ResumePass
  <1>3. CASE ConnectedPass
    BY <1>3 DEF ConnectedPass
  <1>4. CASE LostPass
    <2>1. Strong(txPower')
      BY <1>4, LostIsStrong DEF LostPass
    <2>2. ~steadySince'
      BY <1>4 DEF LostPass
    <2>3. QED
      BY <2>1, <2>2 DEF Strong
  <1>5. QED
    BY <1>1, <1>2, <1>3, <1>4 DEF WifiPass

LEMMA AdaptKeepsPower == PowerInv /\ AdaptPower => PowerInv'
  <1> SUFFICES ASSUME PowerInv, AdaptPower PROVE PowerInv'
    OBVIOUS
  <1> USE DEF PowerInv, SteadyInv, SearchesWithFullPower
  <1>1. UNCHANGED <<wasConnected, steadySince>>
    BY DEF AdaptPower
  <1>2. CASE wasConnected
    BY <1>1, <1>2
  <1>3. CASE ~wasConnected
    <2>1. txPower.fault /\ txPower' \in Forced(txPower)
      BY <1>3 DEF AdaptPower
    <2>2. QED
      BY <1>1, <2>1, ForcedKeepsFault
  <1>4. QED
    BY <1>2, <1>3

LEMMA OthersKeepPower ==
  /\ \A slot \in WifiKnown : Join(slot) => UNCHANGED <<wasConnected, steadySince, txPower>>
  /\ LoseWifi \/ Around \/ CandidateDue \/ AttemptDue \/ HotspotDue \/ UNCHANGED wifiVars
       => UNCHANGED <<wasConnected, steadySince, txPower>>
  BY DEF Join, LoseWifi, Around, CandidateDue, AttemptDue, HotspotDue, insideVars, wifiVars

LEMMA PowerStep == PowerInv /\ [WifiNext]_wifiVars => PowerInv'
  <1> SUFFICES ASSUME PowerInv, [WifiNext]_wifiVars PROVE PowerInv'
    OBVIOUS
  <1>1. CASE WifiPass
    BY <1>1, PassKeepsPower
  <1>2. CASE AdaptPower
    BY <1>2, AdaptKeepsPower
  <1>3. CASE UNCHANGED <<wasConnected, steadySince, txPower>>
    BY <1>3 DEF PowerInv, SteadyInv, SearchesWithFullPower
  <1>4. QED
    BY <1>1, <1>2, <1>3, OthersKeepPower DEF WifiNext

\* forceFullWifiPower() on every way into a search, and the adaptation's wait
\* for a connection, keep a search at full power; only the radio can refuse.
THEOREM SearchIsStrong == WifiSpec => []SearchesWithFullPower
  <1>1. PowerInv => SearchesWithFullPower
    BY DEF PowerInv
  <1>2. QED
    BY PowerInit, PowerStep, <1>1, PTL DEF WifiSpec
-----------------------------------------------------------------------------
\* Types.

LEMMA MinIsIn ==
  ASSUME NEW S \in SUBSET Nat, S # {}
  PROVE  Min(S) \in S /\ \A y \in S : Min(S) <= y
  BY LeastExists DEF Min

\* The remainder the search goes round with.
LEMMA Remainder ==
  ASSUME NEW n \in Int
  PROVE  n % WifiSlots \in 0 .. WifiSlots - 1
  BY WifiAssumption

SearchOK ==
  /\ wifiTried \in 0 .. WifiSlots /\ wifiCandidate \in 0 .. WifiSlots - 1
  /\ wifiTarget \in WifiKnown \union {0}
  /\ candidateTimer \in Timers /\ attemptTimer \in Timers

LEMMA BeginNextOK ==
  ASSUME SearchOK,
         NEW tried \in 0 .. WifiSlots, NEW candidate \in 0 .. WifiSlots - 1,
         NEW attempt \in Timers, BeginNext(tried, candidate, attempt)
  PROVE  SearchOK'
  <1> DEFINE slot(n) == ((candidate + n - tried - 1) % WifiSlots) + 1
             next == {n \in tried + 1 .. WifiSlots : slot(n) \in WifiKnown}
  <1>1. WifiSlots \in Nat \ {0} /\ WifiKnown \subseteq 1 .. WifiSlots
    BY WifiAssumption
  <1>2. CASE next # {}
    <2> DEFINE m == Min(next)
    <2>1. m \in next
      <3> HIDE DEF next
      <3>1. next \in SUBSET Nat
        BY <1>1 DEF next
      <3>2. QED
        BY <1>2, <3>1, MinIsIn
    <2> HIDE DEF m
    <2>2. m \in 1 .. WifiSlots /\ slot(m) \in WifiKnown
      BY <1>1, <2>1
    <2>3. /\ wifiTried' = m /\ wifiCandidate' = slot(m) % WifiSlots
          /\ wifiTarget' = slot(m) /\ candidateTimer' = "run"
          /\ attemptTimer' = attempt
      BY <1>2 DEF BeginNext, m
    <2> HIDE DEF slot
    <2>4. slot(m) % WifiSlots \in 0 .. WifiSlots - 1
      <3>1. \A x \in WifiKnown : x \in Int
        BY <1>1
      <3>2. slot(m) \in Int
        BY <2>2, <3>1, Zenon
      <3>3. QED
        BY <3>2, Remainder
    <2>5. QED
      BY <1>1, <2>2, <2>3, <2>4 DEF SearchOK, Timers
  <1>3. CASE next = {}
    <2>1. /\ wifiTried' = WifiSlots
          /\ wifiCandidate' = (candidate + WifiSlots - tried) % WifiSlots
          /\ candidateTimer' = "none" /\ attemptTimer' = "run"
          /\ wifiTarget' = wifiTarget
      BY <1>3 DEF BeginNext
    <2>2. candidate + WifiSlots - tried \in Int
      BY <1>1
    <2>3. wifiCandidate' \in 0 .. WifiSlots - 1
      BY <2>1, <2>2, Remainder
    <2> HIDE DEF slot, next
    <2>4. QED
      BY <1>1, <2>1, <2>3 DEF SearchOK, Timers
  <1>4. QED
    BY <1>2, <1>3

LEMMA SearchKeepsOK ==
  ASSUME SearchOK,
         NEW tried \in 0 .. WifiSlots, NEW candidate \in 0 .. WifiSlots - 1,
         NEW timer \in Timers, Search(tried, candidate, timer)
  PROVE  SearchOK'
  <1>1. 0 \in 0 .. WifiSlots /\ attemptTimer \in Timers
    BY WifiAssumption DEF SearchOK
  <1>2. CASE BeginNext(tried, candidate, attemptTimer)
    BY <1>1, <1>2, BeginNextOK
  <1>3. CASE BeginNext(0, candidate, attemptTimer)
    BY <1>1, <1>3, BeginNextOK
  <1>4. CASE /\ wifiTried' = tried /\ wifiCandidate' = candidate /\ candidateTimer' = timer
             /\ UNCHANGED <<attemptTimer, wifiTarget>>
    BY <1>4 DEF SearchOK
  <1>5. QED
    BY <1>2, <1>3, <1>4 DEF Search

TxPowers == [profile : TxProfiles, fault : BOOLEAN]

LEMMA TxSetOK ==
  ASSUME NEW power \in TxPowers, NEW profile \in TxProfiles, NEW set \in TxSet(power, profile)
  PROVE  set \in TxPowers
  <1>1. power.profile \in TxProfiles /\ power.fault \in BOOLEAN
    BY DEF TxPowers
  <1>2. /\ Power(profile, power.fault) \in TxPowers
        /\ Power(power.profile, TRUE) \in TxPowers
    BY <1>1, Zenon DEF Power, TxPowers
  <1>3. set \in {power, Power(profile, power.fault), Power(power.profile, TRUE)}
    BY DEF TxSet
  <1>4. QED
    BY <1>2, <1>3

LEMMA ForcedOK ==
  ASSUME NEW power \in TxPowers, NEW set \in Forced(power)
  PROVE  set \in TxPowers
  BY TxSetOK DEF Forced, TxProfiles

LEMMA AdaptedOK ==
  ASSUME NEW power \in TxPowers, NEW rssi, NEW set \in Adapted(power, rssi)
  PROVE  set \in TxPowers
  <1> DEFINE target == TxTarget(power.profile, rssi)
  <1>1. power.profile \in TxProfiles
    BY DEF TxPowers
  <1>2. target \in TxProfiles
    BY <1>1 DEF TxTarget, TxProfiles
  <1>3. ASSUME set # power
        PROVE  \E first \in TxSet(power, target) :
                 set \in IF first.profile = target THEN {first} ELSE Forced(first)
    BY <1>3, Zenon DEF Adapted
  <1>4. CASE set # power
    <2> HIDE DEF target
    <2>1. PICK first \in TxSet(power, target) :
                 set \in IF first.profile = target THEN {first} ELSE Forced(first)
      BY <1>3, <1>4
    <2>2. first \in TxPowers
      BY <1>2, TxSetOK
    <2>3. QED
      BY <2>1, <2>2, ForcedOK
  <1>5. QED
    BY <1>4

LEMMA LostOK ==
  ASSUME txPower \in TxPowers, NEW set \in LostPower(txPower)
  PROVE  set \in TxPowers
  BY ForcedOK DEF LostPower

\* The other part of WifiTypeOK.
FlagsOK ==
  /\ wifiAir \subseteq WifiKnown
  /\ {wifiSchedule, wifiLan, wifiLink, wifiHotspot, wifiAllowed, scheduledOff,
      wasConnected, wasLan, steadySince} \subseteq BOOLEAN
  /\ hotspotTimer \in Timers
  /\ txPower \in TxPowers

LEMMA WifiTypeParts == WifiTypeOK <=> SearchOK /\ FlagsOK
  BY DEF WifiTypeOK, SearchOK, FlagsOK, TxPowers

LEMMA WifiTypeInit == WifiInit => SearchOK /\ FlagsOK
  <1> SUFFICES ASSUME WifiInit PROVE SearchOK /\ FlagsOK
    OBVIOUS
  <1> DEFINE first == Min(WifiKnown \union {WifiSlots + 1})
  <1>1. WifiSlots \in Nat \ {0} /\ WifiKnown \subseteq 1 .. WifiSlots
    BY WifiAssumption
  <1>2. first \in WifiKnown \union {WifiSlots + 1}
    BY <1>1, MinIsIn
  <1>3. WifiKnown # {} => first \in WifiKnown
    <2> SUFFICES ASSUME NEW k \in WifiKnown PROVE first # WifiSlots + 1
      BY <1>2
    <2>1. first <= k
      BY <1>1, MinIsIn
    <2>2. QED
      BY <1>1, <2>1
  <1>4. SearchOK
    <2>1. CASE WifiKnown = {}
      BY <1>1, <2>1 DEF WifiInit, SearchOK, Timers
    <2>2. CASE WifiKnown # {}
      <3>1. first \in 1 .. WifiSlots
        BY <1>1, <1>3, <2>2
      <3>2. first % WifiSlots \in 0 .. WifiSlots - 1
        BY <3>1, Remainder
      <3>3. QED
        BY <1>1, <1>3, <2>2, <3>1, <3>2 DEF WifiInit, SearchOK, Timers
    <2>3. QED
      BY <2>1, <2>2
  <1>5. FlagsOK
    BY DEF WifiInit, FlagsOK, Timers, TxPowers, TxProfiles, Power
  <1>6. QED
    BY <1>4, <1>5

LEMMA PassKeepsTypes == SearchOK /\ FlagsOK /\ WifiPass => SearchOK' /\ FlagsOK'
  <1> SUFFICES ASSUME SearchOK, FlagsOK, WifiPass PROVE SearchOK' /\ FlagsOK'
    OBVIOUS
  <1> USE DEF aroundVars, hotspotVars, searchVars
  <1>1. 0 \in 0 .. WifiSlots /\ 0 \in 0 .. WifiSlots - 1 /\ "none" \in Timers /\ "run" \in Timers
    BY WifiAssumption DEF Timers
  <1>2. CASE ScheduleOffPass
    BY <1>1, <1>2 DEF ScheduleOffPass, NoHotspot, SearchOK, FlagsOK
  <1>3. CASE ResumePass
    <2>1. SearchOK'
      BY <1>1, <1>3, BeginNextOK DEF ResumePass
    <2>2. FlagsOK'
      BY <1>3 DEF ResumePass, FlagsOK
    <2>3. QED
      BY <2>1, <2>2
  <1>4. CASE ConnectedPass
    <2>1. SearchOK'
      BY <1>1, <1>4 DEF ConnectedPass, SearchOK
    <2>2. txPower' \in TxPowers
      BY <1>4, ForcedOK DEF ConnectedPass, FlagsOK
    <2>3. FlagsOK'
      BY <1>1, <1>4, <2>2 DEF ConnectedPass, NoHotspot, FlagsOK
    <2>4. QED
      BY <2>1, <2>3
  <1>5. CASE LostPass
    <2>1. SearchOK'
      <3>1. CASE wasConnected
        BY <1>1, <1>5, <3>1, SearchKeepsOK DEF LostPass
      <3>2. CASE ~wasConnected
        BY <1>5, <3>2, SearchKeepsOK DEF LostPass, SearchOK
      <3>3. QED
        BY <3>1, <3>2
    <2>2. txPower' \in TxPowers
      BY <1>5, LostOK DEF LostPass, FlagsOK
    <2>3. /\ {wifiHotspot', wifiAllowed'} \subseteq BOOLEAN /\ hotspotTimer' \in Timers
      BY <1>1, <1>5 DEF LostPass, HotspotPass, NoHotspot, FlagsOK
    <2>4. /\ steadySince' \in BOOLEAN /\ wasConnected' \in BOOLEAN /\ wasLan' \in BOOLEAN
          /\ UNCHANGED <<wifiAir, wifiSchedule, wifiLan, wifiLink, scheduledOff>>
      BY <1>5 DEF LostPass, FlagsOK
    <2>5. QED
      BY <2>1, <2>2, <2>3, <2>4 DEF FlagsOK
  <1>6. QED
    BY <1>2, <1>3, <1>4, <1>5 DEF WifiPass

LEMMA AdaptKeepsTypes == SearchOK /\ FlagsOK /\ AdaptPower => SearchOK' /\ FlagsOK'
  <1> SUFFICES ASSUME SearchOK, FlagsOK, AdaptPower PROVE SearchOK' /\ FlagsOK'
    OBVIOUS
  <1>1. txPower' \in TxPowers
    BY ForcedOK, AdaptedOK DEF AdaptPower, FlagsOK
  <1>2. QED
    BY <1>1 DEF AdaptPower, SearchOK, FlagsOK, aroundVars, hotspotVars, searchVars

LEMMA OthersKeepTypes ==
  ASSUME SearchOK, FlagsOK,
         \/ (\E slot \in WifiKnown : Join(slot)) \/ LoseWifi \/ Around
         \/ CandidateDue \/ AttemptDue \/ HotspotDue \/ UNCHANGED wifiVars
  PROVE  SearchOK' /\ FlagsOK'
  <1> USE DEF insideVars, aroundVars, hotspotVars, searchVars, SearchOK, FlagsOK
  <1>1. CASE \E slot \in WifiKnown : Join(slot)
    BY <1>1 DEF Join
  <1>2. CASE LoseWifi
    BY <1>2 DEF LoseWifi
  <1>3. CASE Around
    <2>1. wifiLink' \in BOOLEAN /\ wifiSchedule' \in BOOLEAN /\ wifiLan' \in BOOLEAN
      BY <1>3 DEF Around
    <2>2. wifiAir' \subseteq WifiKnown
      BY <1>3 DEF Around
    <2>3. QED
      BY <1>3, <2>1, <2>2 DEF Around
  <1>4. CASE CandidateDue \/ AttemptDue \/ HotspotDue
    BY <1>4 DEF CandidateDue, AttemptDue, HotspotDue, Timers
  <1>5. CASE UNCHANGED wifiVars
    BY <1>5 DEF wifiVars
  <1>6. QED
    BY <1>1, <1>2, <1>3, <1>4, <1>5

LEMMA WifiTypeStep == SearchOK /\ FlagsOK /\ [WifiNext]_wifiVars => SearchOK' /\ FlagsOK'
  BY PassKeepsTypes, AdaptKeepsTypes, OthersKeepTypes DEF WifiNext

\* The places of the search stay places, and the network that is joined is a
\* known one, for any number of places and any of them filled.
THEOREM WifiTypes == WifiSpec => []WifiTypeOK
  BY WifiTypeInit, WifiTypeStep, WifiTypeParts, PTL DEF WifiSpec
-----------------------------------------------------------------------------
(***************************************************************************)
(* LAN.  The address of an event is one a lease has given, or none.        *)
(***************************************************************************)
LanAddress == LanAddresses \union {0}

LanEventType == [kind : {"connected", "disconnected", "got", "lost"}, ip : LanAddress]

LanInv ==
  /\ LanTypeOK
  /\ lanEvents \in Seq(LanEventType)

LEMMA LanStarts == LanInit => LanInv
  <1>1. Len(<<>>) <= LanEventLimit /\ <<>> \in Seq(LanEventType)
    BY LanAssumption
  <1>2. QED
    BY <1>1 DEF LanInit, LanInv, LanTypeOK

LEMMA PostKeeps ==
  ASSUME LanInv, NEW kind \in {"connected", "disconnected", "got", "lost"},
         NEW ip \in LanAddress, Post(kind, ip)
  PROVE  /\ lanEvents' \in Seq(LanEventType)
         /\ Len(lanEvents') <= LanEventLimit
  <1>1. LanEvent(kind, ip) \in LanEventType
    BY DEF LanEvent, LanEventType
  <1>2. /\ lanEvents \in Seq(LanEventType)
        /\ Len(lanEvents) < LanEventLimit /\ lanEvents' = Append(lanEvents, LanEvent(kind, ip))
    BY DEF LanInv, Post
  <1> HIDE DEF LanEvent
  <1>3. QED
    BY <1>1, <1>2, LanAssumption

LEMMA LanKeepsTypes == LanInv /\ [LanNext]_lanVars => LanInv'
  <1> SUFFICES ASSUME LanInv, [LanNext]_lanVars PROVE LanInv'
    OBVIOUS
  <1> USE DEF driverVars, managerVars, loopVars
  <1>0. 0 \in LanAddress /\ LanAddresses \subseteq LanAddress /\ 0 \notin LanAddresses
    BY LanAssumption DEF LanAddress
  <1>1. CASE PlugIn
    BY <1>0, <1>1, PostKeeps DEF PlugIn, LanInv, LanTypeOK
  <1>2. CASE Lease
    BY <1>0, <1>2, PostKeeps DEF Lease, LanInv, LanTypeOK
  <1>3. CASE Unplug
    BY <1>0, <1>3, PostKeeps DEF Unplug, LanInv, LanTypeOK
  <1>4. CASE NetifDown
    BY <1>4 DEF NetifDown, LanInv, LanTypeOK
  <1>5. CASE ReportLost
    BY <1>0, <1>5, PostKeeps DEF ReportLost, LanInv, LanTypeOK
  <1>6. CASE HandleEvent
    <2>1. /\ Head(lanEvents) \in LanEventType
          /\ Tail(lanEvents) \in Seq(LanEventType)
          /\ Len(Tail(lanEvents)) <= LanEventLimit
      <3>1. lanEvents \in Seq(LanEventType) /\ lanEvents # <<>> /\ Len(lanEvents) <= LanEventLimit
        BY <1>6 DEF HandleEvent, LanInv, LanTypeOK
      <3>2. LanEventLimit \in Nat
        BY LanAssumption
      <3>3. QED
        BY <3>1, <3>2
    <2>2. OnEvent(Head(lanEvents)) /\ lanEvents' = Tail(lanEvents)
      BY <1>6 DEF HandleEvent
    <2>3. lanLink' \in BOOLEAN /\ lanGot' \in BOOLEAN /\ lanIp' \in LanAddress
      BY <2>1, <2>2 DEF OnEvent, LanInv, LanTypeOK, LanAddress, LanEventType
    <2>4. QED
      BY <1>6, <2>1, <2>2, <2>3 DEF HandleEvent, LanInv, LanTypeOK, LanAddress
  <1>7. CASE ReadAddress
    BY <1>7 DEF ReadAddress, LanInv, LanTypeOK
  <1>8. CASE StoreGot
    BY <1>8 DEF StoreGot, LanInv, LanTypeOK
  <1>9. CASE StoreAddress
    BY <1>9 DEF StoreAddress, LanInv, LanTypeOK
  <1>10. CASE UNCHANGED lanVars
    BY <1>10 DEF lanVars, LanInv, LanTypeOK
  <1>11. QED
    BY <1>1, <1>2, <1>3, <1>4, <1>5, <1>6, <1>7, <1>8, <1>9, <1>10 DEF LanNext
-----------------------------------------------------------------------------
(***************************************************************************)
(* MQTT.  The interval between attempts is one of four.                    *)
(***************************************************************************)
LEMMA Intervals ==
  ASSUME NEW n \in {1, 2, 4, 6}
  PROVE  Min({2 * n, 6}) \in {1, 2, 4, 6}
  <1>1. {2 * n, 6} \in SUBSET Nat /\ {2 * n, 6} # {} /\ 2 * n \in {2, 4, 8, 12}
    OBVIOUS
  <1>2. Min({2 * n, 6}) \in {2 * n, 6} /\ Min({2 * n, 6}) <= 6
    BY <1>1, MinIsIn
  <1>3. QED
    BY <1>1, <1>2

LEMMA MqttStarts == MqttInit => MqttTypeOK
  BY DEF MqttInit, MqttTypeOK

LEMMA MqttKeepsTypes == MqttTypeOK /\ [MqttNext]_mqttVars => MqttTypeOK'
  <1> SUFFICES ASSUME MqttTypeOK, [MqttNext]_mqttVars PROVE MqttTypeOK'
    OBVIOUS
  <1> USE DEF outsideVars, MqttTypeOK
  <1>1. CASE RouteStep
    <2>1. Lan \in BOOLEAN
      BY DEF Lan
    <2>2. mqttPrevious' \in BOOLEAN
      BY <1>1, <2>1 DEF RouteStep
    <2>3. mqttSession' \in {"lan", "wifi", "none"} /\ mqttTimer' \in {"run", "due"}
      BY <1>1 DEF RouteStep
    <2>4. QED
      BY <1>1, <2>2, <2>3 DEF RouteStep
  <1>2. CASE MqttStep
    <2>1. mqttRetry' \in {1, 2, 4, 6}
      BY <1>2, Intervals DEF MqttStep, Idle, Wait, Attempt
    <2>2. mqttSession' \in {"lan", "wifi", "none"} /\ mqttTimer' \in {"run", "due"}
      BY <1>2 DEF MqttStep, Idle, Wait, Attempt
    <2>3. QED
      BY <1>2, <2>1, <2>2 DEF MqttStep
  <1>3. CASE KeepAlive \/ RetryDue
    BY <1>3 DEF KeepAlive, RetryDue
  <1>4. CASE LanChange \/ WifiChange
    BY <1>4 DEF LanChange, WifiChange
  <1>5. CASE ScheduleChange \/ BrokerChange
    BY <1>5 DEF ScheduleChange, BrokerChange
  <1>6. CASE UNCHANGED mqttVars
    BY <1>6 DEF mqttVars
  <1>7. QED
    BY <1>1, <1>2, <1>3, <1>4, <1>5, <1>6 DEF MqttNext
-----------------------------------------------------------------------------
(***************************************************************************)
(* The device.  A step of it is one of the component that runs, and leaves *)
(* the others as they are: each component behaves as it does alone.        *)
(***************************************************************************)
LEMMA DeviceStarts ==
  DeviceInit => /\ RingInit /\ EventInit /\ SmlInit /\ D0Init
                /\ ModbusInit /\ LanInit /\ WifiInit /\ MqttInit
  BY DEF DeviceInit

LEMMA DeviceSteps ==
  [DeviceNext]_deviceVars =>
    /\ [RingNext]_ringVars /\ [EventNext]_eventVars /\ [SmlNext]_smlVars /\ [D0Next]_d0Vars
    /\ [ModbusNext]_modbusVars /\ [LanNext]_lanVars /\ [WifiNext]_wifiVars /\ [MqttNext]_mqttVars
  BY Zenon DEF DeviceNext, deviceVars

\* DeviceSpec without its fairness is the specification of every component.
LEMMA DeviceRunsAll ==
  DeviceSpec =>
    /\ RingSpec /\ EventSpec /\ SmlSpec /\ D0Spec /\ ModbusSpec
    /\ LanInit /\ [][LanNext]_lanVars /\ WifiInit /\ [][WifiNext]_wifiVars
    /\ MqttInit /\ [][MqttNext]_mqttVars
  BY DeviceStarts, DeviceSteps, PTL
  DEF DeviceSpec, RingSpec, EventSpec, SmlSpec, D0Spec, ModbusSpec

\* Every component of the device keeps the types of its state, for any sizes,
\* telegrams, requests, addresses and networks.
THEOREM DeviceKeepsTypes == DeviceSpec => []DeviceTypeOK
  <1>1. LanInv => LanTypeOK
    BY DEF LanInv
  <1>2. RingTypeOK /\ EventTypeOK /\ SmlTypeOK /\ D0TypeOK
          /\ ModbusTypeOK /\ LanTypeOK /\ WifiTypeOK /\ MqttTypeOK => DeviceTypeOK
    BY DEF DeviceTypeOK
  <1>3. QED
    BY DeviceRunsAll, RingTypes, EventTypes, SmlTypes, D0Types, ModbusTypes,
       LanStarts, LanKeepsTypes, <1>1, WifiTypeInit, WifiTypeStep, WifiTypeParts, MqttStarts, MqttKeepsTypes, <1>2, PTL

\* And what each of them promises alone it keeps in the device.
THEOREM DeviceKeepsPromises ==
  DeviceSpec => [](/\ QueryExact /\ RingKeepsRecords /\ EventsSurvive /\ ClearedStaysCleared
                   /\ SmlResync /\ SelfCheckAgrees /\ D0Resync /\ ModbusAnswers
                   /\ SearchesWithFullPower)
  <1>1. PowerInv => SearchesWithFullPower
    BY DEF PowerInv
  <1>2. QED
    BY DeviceRunsAll, QueriesAreExact, RecordsAreKept, EventsAreKept, ClearedStays,
       ResyncHolds, SelfCheckHolds, D0ResyncHolds, AnswersInOrder,
       PowerInit, PowerStep, <1>1, PTL
=============================================================================
