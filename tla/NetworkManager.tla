--------------------------- MODULE NetworkManager ---------------------------
(***************************************************************************)
(* Wi-Fi (network/NetworkManager.cpp): the known networks tried in turn,   *)
(* the setup hotspot while there is no network, the schedule that switches *)
(* Wi-Fi off, and the transmit power that adapts to the signal             *)
(* (core/EcoManager.cpp).                                                  *)
(* A timer is "none" when it is not running, then "run", then "due".  The  *)
(* radio and the networks around the device are external.                  *)
(***************************************************************************)
EXTENDS Integers, FiniteSetsExt

CONSTANTS
  WifiSlots,     \* number of places for known networks (kWifiSlots)
  WifiKnown,     \* the places that are filled
  WifiSignals    \* levels of the signal that are told apart

ASSUME WifiAssumption ==
  /\ WifiSlots \in Nat \ {0} /\ WifiKnown \subseteq 1 .. WifiSlots
  /\ WifiSignals \subseteq -90 .. 0

VARIABLES
  wifiAir,       \* the known networks in range
  wifiSchedule,  \* wifiOffScheduleActive()
  wifiLan,       \* ethernet.connected()
  wifiTarget,    \* the network the radio was told to join, 0 for none
  wifiLink,      \* the radio is joined to it
  wifiHotspot,   \* accessPointMode
  wifiAllowed,   \* accessPointAllowed
  hotspotTimer,  \* since accessPointStartedMs
  scheduledOff,  \* wifiScheduledOff
  wifiTried,     \* wifiTried
  wifiCandidate, \* wifiCandidate
  candidateTimer,\* since wifiCandidateStartedMs
  attemptTimer,  \* since lastWifiAttemptMs
  wasConnected,  \* statics of manageWifi()
  wasLan,
  txPower,       \* wifiTxProfile with wifiTxPowerRuntimeFault
  steadySince    \* wifiConnectedSinceMs is set

aroundVars == <<wifiAir, wifiSchedule, wifiLan>>
hotspotVars == <<wifiHotspot, wifiAllowed, hotspotTimer>>
searchVars == <<wifiTried, wifiCandidate, candidateTimer, attemptTimer>>
wifiVars == <<aroundVars, wifiTarget, wifiLink, hotspotVars, scheduledOff, searchVars,
              wasConnected, wasLan, txPower, steadySince>>
-----------------------------------------------------------------------------
Timers == {"none", "run", "due"}
TxProfiles == {"full", "medium", "reduced"}
Power(profile, fault) == [profile |-> profile, fault |-> fault]

\* setWifiTxProfile(): nothing to do, done, or refused by the radio.
TxSet(power, profile) ==
  IF power.profile = profile THEN {power}
  ELSE {Power(profile, power.fault), Power(power.profile, TRUE)}

\* forceFullWifiPower()
Forced(power) == TxSet(power, "full")

\* The profile for a signal: it rises and falls at different levels.
TxTarget(profile, rssi) ==
  CASE profile = "full" -> IF rssi >= -60 THEN "medium" ELSE "full"
    [] profile = "medium" ->
         IF rssi >= -53 THEN "reduced" ELSE IF rssi <= -67 THEN "full" ELSE "medium"
    [] profile = "reduced" ->
         IF rssi <= -67 THEN "full" ELSE IF rssi <= -60 THEN "medium" ELSE "reduced"

\* manageAdaptiveWifiPower(): a refusal ends the adaptation for this run time.
Adapted(power, rssi) ==
  LET target == TxTarget(power.profile, rssi)
  IN {power} \union
     UNION {IF set.profile = target THEN {set} ELSE Forced(set) : set \in TxSet(power, target)}

\* beginNextKnownWifi(): the next filled place, unless all have been tried.  The
\* round that then has ended is remembered in place of the attempt before.
BeginNext(tried, candidate, attempt) ==
  LET slot(n) == ((candidate + n - tried - 1) % WifiSlots) + 1
      next == {n \in tried + 1 .. WifiSlots : slot(n) \in WifiKnown}
  IN \/ /\ next # {}
        /\ wifiTried' = Min(next) /\ wifiCandidate' = slot(Min(next)) % WifiSlots
        /\ wifiTarget' = slot(Min(next)) /\ candidateTimer' = "run"
        /\ attemptTimer' = attempt
     \/ /\ next = {}
        /\ wifiTried' = WifiSlots /\ wifiCandidate' = (candidate + WifiSlots - tried) % WifiSlots
        /\ candidateTimer' = "none" /\ attemptTimer' = "run"
        /\ UNCHANGED wifiTarget

\* Mutant: a new round goes on with the count of the last one.
SearchOnce(tried, candidate, timer) ==
  \/ timer = "due" /\ BeginNext(tried, candidate, attemptTimer)
  \/ timer = "none" /\ attemptTimer # "run" /\ BeginNext(tried, candidate, attemptTimer)
  \/ /\ timer = "run" \/ (timer = "none" /\ attemptTimer = "run")
     /\ wifiTried' = tried /\ wifiCandidate' = candidate /\ candidateTimer' = timer
     /\ UNCHANGED <<attemptTimer, wifiTarget>>

\* The search goes on when the time of a network is up, and starts again some
\* time after a round without success.
Search(tried, candidate, timer) ==
  \/ timer = "due" /\ BeginNext(tried, candidate, attemptTimer)
  \/ timer = "none" /\ attemptTimer # "run" /\ BeginNext(0, candidate, attemptTimer)
  \/ /\ timer = "run" \/ (timer = "none" /\ attemptTimer = "run")
     /\ wifiTried' = tried /\ wifiCandidate' = candidate /\ candidateTimer' = timer
     /\ UNCHANGED <<attemptTimer, wifiTarget>>

\* stopAccessPoint()
NoHotspot == wifiHotspot' = FALSE /\ hotspotTimer' = "none"
-----------------------------------------------------------------------------
\* manageWifi() during the schedule, and when the schedule has ended; both
\* return before the statics are updated.
ScheduleOffPass ==
  /\ wifiSchedule
  /\ IF scheduledOff
     THEN UNCHANGED <<wifiTarget, wifiLink, hotspotVars, scheduledOff, steadySince>>
     ELSE /\ NoHotspot /\ wifiTarget' = 0 /\ wifiLink' = FALSE
          /\ scheduledOff' = TRUE /\ steadySince' = FALSE /\ UNCHANGED wifiAllowed
  /\ UNCHANGED <<aroundVars, searchVars, wasConnected, wasLan, txPower>>

ResumePass ==
  /\ ~wifiSchedule /\ scheduledOff
  /\ scheduledOff' = FALSE /\ wifiLink' = FALSE
  /\ BeginNext(0, 0, "none")
  /\ UNCHANGED <<aroundVars, hotspotVars, wasConnected, wasLan, txPower, steadySince>>

\* manageWifi() while Wi-Fi is connected.
ConnectedPass ==
  /\ ~wifiSchedule /\ ~scheduledOff /\ wifiLink
  /\ IF wasConnected
     THEN /\ UNCHANGED <<wifiAllowed, txPower, steadySince>>
          /\ IF wifiLan /\ ~wasLan THEN NoHotspot ELSE UNCHANGED <<wifiHotspot, hotspotTimer>>
     ELSE /\ NoHotspot /\ wifiAllowed' = TRUE
          /\ steadySince' = TRUE /\ txPower' \in Forced(txPower)
  /\ candidateTimer' = "none"
  /\ wasConnected' = TRUE /\ wasLan' = wifiLan
  /\ UNCHANGED <<aroundVars, wifiTarget, wifiLink, scheduledOff, wifiTried, wifiCandidate, attemptTimer>>

\* The hotspot of a pass without Wi-Fi: none beside the LAN; otherwise started
\* when it is allowed, which may fail, and stopped for good when its time is up.
HotspotPass ==
  \/ wifiLan /\ NoHotspot /\ UNCHANGED wifiAllowed
  \/ /\ ~wifiLan /\ wifiHotspot /\ hotspotTimer = "due"
     /\ NoHotspot /\ wifiAllowed' = FALSE
  \/ /\ ~wifiLan /\ wifiHotspot /\ hotspotTimer # "due" /\ UNCHANGED hotspotVars
  \/ /\ ~wifiLan /\ ~wifiHotspot
     /\ \/ wifiAllowed /\ wifiHotspot' = TRUE /\ hotspotTimer' = "run"
        \/ UNCHANGED <<wifiHotspot, hotspotTimer>>
     /\ UNCHANGED wifiAllowed

StartsHotspot == ~wifiLan /\ ~wifiHotspot /\ wifiAllowed

\* Mutant: the power is forced to full for the hotspot only.
LazyPower(power) == IF StartsHotspot THEN Forced(power) ELSE {power}

\* The power after a pass without Wi-Fi: forced to full when the connection has
\* just been lost, and before a hotspot is started.
LostPower(power) ==
  LET first == IF wasConnected THEN Forced(power) ELSE {power}
  IN IF StartsHotspot THEN UNION {Forced(p) : p \in first} ELSE first

\* manageWifi() while Wi-Fi is not connected.
LostPass ==
  /\ ~wifiSchedule /\ ~scheduledOff /\ ~wifiLink
  /\ HotspotPass /\ txPower' \in LostPower(txPower)
  /\ IF wasConnected
     THEN steadySince' = FALSE /\ Search(0, 0, "none")
     ELSE UNCHANGED steadySince /\ Search(wifiTried, wifiCandidate, candidateTimer)
  /\ wasConnected' = FALSE /\ wasLan' = wifiLan
  /\ UNCHANGED <<aroundVars, wifiLink, scheduledOff>>

WifiPass == ScheduleOffPass \/ ResumePass \/ ConnectedPass \/ LostPass

\* manageAdaptiveWifiPower() in the same loop.
AdaptPower ==
  /\ wifiLink
  /\ IF txPower.fault THEN txPower' \in Forced(txPower)
     ELSE steadySince /\ \E rssi \in WifiSignals : txPower' \in Adapted(txPower, rssi)
  /\ UNCHANGED <<aroundVars, wifiTarget, wifiLink, hotspotVars, scheduledOff, searchVars,
                 wasConnected, wasLan, steadySince>>
-----------------------------------------------------------------------------
insideVars == <<hotspotVars, scheduledOff, searchVars, wasConnected, wasLan, txPower, steadySince>>

\* The radio joins the network it was told to, loses it, and joins it again.
Join(slot) ==
  /\ wifiTarget = slot /\ slot \in wifiAir /\ ~wifiLink /\ ~scheduledOff
  /\ wifiLink' = TRUE /\ UNCHANGED <<aroundVars, wifiTarget, insideVars>>

LoseWifi ==
  wifiLink /\ wifiLink' = FALSE /\ UNCHANGED <<aroundVars, wifiTarget, insideVars>>

\* Networks come into range or leave it; the cable and the schedule.
Around ==
  /\ \/ wifiAir' \in SUBSET WifiKnown /\ UNCHANGED <<wifiSchedule, wifiLan>>
     \/ wifiSchedule' = ~wifiSchedule /\ UNCHANGED <<wifiAir, wifiLan>>
     \/ wifiLan' = ~wifiLan /\ UNCHANGED <<wifiAir, wifiSchedule>>
  /\ wifiLink' = (wifiLink /\ wifiTarget \in wifiAir')
  /\ UNCHANGED <<wifiTarget, insideVars>>

CandidateDue ==
  /\ candidateTimer = "run" /\ candidateTimer' = "due"
  /\ UNCHANGED <<aroundVars, wifiTarget, wifiLink, hotspotVars, scheduledOff, wifiTried,
                 wifiCandidate, attemptTimer, wasConnected, wasLan, txPower, steadySince>>

AttemptDue ==
  /\ attemptTimer = "run" /\ attemptTimer' = "due"
  /\ UNCHANGED <<aroundVars, wifiTarget, wifiLink, hotspotVars, scheduledOff, wifiTried,
                 wifiCandidate, candidateTimer, wasConnected, wasLan, txPower, steadySince>>

HotspotDue ==
  /\ hotspotTimer = "run" /\ hotspotTimer' = "due"
  /\ UNCHANGED <<aroundVars, wifiTarget, wifiLink, wifiHotspot, wifiAllowed, scheduledOff,
                 searchVars, wasConnected, wasLan, txPower, steadySince>>

WifiNext ==
  \/ WifiPass \/ AdaptPower
  \/ (\E slot \in WifiKnown : Join(slot)) \/ LoseWifi \/ Around
  \/ CandidateDue \/ AttemptDue \/ HotspotDue

\* What setup() leaves: a hotspot unless it failed, and the first network tried.
WifiInit ==
  /\ wifiAir \in SUBSET WifiKnown /\ wifiSchedule = FALSE /\ wifiLan = FALSE
  /\ wifiHotspot \in BOOLEAN /\ wifiAllowed = TRUE
  /\ hotspotTimer = IF wifiHotspot THEN "run" ELSE "none"
  /\ LET first == Min(WifiKnown \union {WifiSlots + 1})
         none == WifiKnown = {}
     IN /\ wifiTried = IF none THEN WifiSlots ELSE first
        /\ wifiCandidate = IF none THEN 0 ELSE first % WifiSlots
        /\ wifiTarget = IF none THEN 0 ELSE first
        /\ candidateTimer = IF none THEN "none" ELSE "run"
        /\ attemptTimer = IF none THEN "run" ELSE "none"
  /\ wifiLink = FALSE /\ scheduledOff = FALSE /\ wasConnected = FALSE /\ wasLan = FALSE
  /\ txPower = Power("full", FALSE) /\ steadySince = FALSE

\* The loop runs, time passes, and a network that is in range whenever it is
\* tried is joined in the end.
WifiFairness ==
  /\ WF_wifiVars(WifiPass) /\ WF_wifiVars(CandidateDue) /\ WF_wifiVars(AttemptDue)
  /\ \A slot \in WifiKnown : SF_wifiVars(Join(slot))

WifiSpec == WifiInit /\ [][WifiNext]_wifiVars /\ WifiFairness
-----------------------------------------------------------------------------
WifiTypeOK ==
  /\ wifiAir \subseteq WifiKnown /\ wifiTarget \in WifiKnown \union {0}
  /\ {wifiSchedule, wifiLan, wifiLink, wifiHotspot, wifiAllowed, scheduledOff,
      wasConnected, wasLan, steadySince} \subseteq BOOLEAN
  /\ {hotspotTimer, candidateTimer, attemptTimer} \subseteq Timers
  /\ wifiTried \in 0 .. WifiSlots /\ wifiCandidate \in 0 .. WifiSlots - 1
  /\ txPower \in [profile : TxProfiles, fault : BOOLEAN]

\* Whatever the order of losses, schedules, refusals of the radio and passes of
\* the loop: a device that looks for a network sends with full power, unless
\* the radio refused it.
SearchesWithFullPower ==
  ~wasConnected => txPower.profile = "full" \/ txPower.fault

\* A known network that stays in range while Wi-Fi may be on is joined again and
\* again, whatever was lost before: no order of hotspot, LAN, schedule and
\* rounds without success leaves the device without trying.
WifiComesBack ==
  \A slot \in WifiKnown :
    <>[](slot \in wifiAir /\ ~wifiSchedule) => []<>wifiLink
=============================================================================
