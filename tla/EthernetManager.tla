--------------------------- MODULE EthernetManager ---------------------------
(***************************************************************************)
(* The LAN interface as the rest of the firmware sees it                   *)
(* (network/EthernetManager.cpp): the events of the driver, handled on the *)
(* task of the event loop, and the check once a second on the main task,   *)
(* which reads the address and stores it step by step.                     *)
(* The interface, the lease and the driver's timer for a lost address are  *)
(* external.                                                               *)
(***************************************************************************)
EXTENDS Integers, Sequences

CONSTANTS
  LanAddresses, \* the addresses a lease can give
  LanEventLimit \* bound on the events waiting to be handled

ASSUME LanAssumption == LanAddresses \subseteq Nat \ {0} /\ LanEventLimit \in Nat

VARIABLES
  lanCable,  \* the cable is plugged in
  lanNetif,  \* the address of the interface, 0 when it has none
  lanTimer,  \* the driver waits before it reports the address lost
  lanEvents, \* events on the way to the manager
  lanLink,   \* linkUp_
  lanGot,    \* gotIp_, which is connected()
  lanIp,     \* ipAddress_
  lanRead,   \* the address loop() has read and not yet stored, 0 for none
  lanHalf    \* it has set gotIp_ and not yet ipAddress_

driverVars == <<lanCable, lanNetif, lanTimer>>
managerVars == <<lanLink, lanGot, lanIp>>
loopVars == <<lanRead, lanHalf>>
lanVars == <<driverVars, lanEvents, managerVars, loopVars>>

LanEvent(kind, ip) == [kind |-> kind, ip |-> ip]
Post(kind, ip) ==
  Len(lanEvents) < LanEventLimit /\ lanEvents' = Append(lanEvents, LanEvent(kind, ip))
-----------------------------------------------------------------------------
PlugIn ==
  /\ ~lanCable /\ lanNetif = 0 /\ Post("connected", 0)
  /\ lanCable' = TRUE /\ UNCHANGED <<lanNetif, lanTimer, managerVars, loopVars>>

\* A lease; the event about it may be missed during early boot.
Lease ==
  /\ lanCable /\ lanNetif = 0
  /\ lanNetif' \in LanAddresses /\ lanTimer' = FALSE
  /\ Post("got", lanNetif') \/ UNCHANGED lanEvents
  /\ UNCHANGED <<lanCable, managerVars, loopVars>>

Unplug ==
  /\ lanCable /\ Post("disconnected", 0)
  /\ lanCable' = FALSE /\ UNCHANGED <<lanNetif, lanTimer, managerVars, loopVars>>

\* The interface loses its address, before or after the manager hears of it.
NetifDown ==
  /\ ~lanCable /\ lanNetif # 0
  /\ lanNetif' = 0 /\ lanTimer' = TRUE
  /\ UNCHANGED <<lanCable, lanEvents, managerVars, loopVars>>

\* Two minutes later the driver reports the address lost: by then loop() has
\* long stored what it had read.
ReportLost ==
  /\ lanTimer /\ lanNetif = 0 /\ lanRead = 0 /\ Post("lost", 0)
  /\ lanTimer' = FALSE /\ UNCHANGED <<lanCable, lanNetif, managerVars, loopVars>>
-----------------------------------------------------------------------------
\* Mutant: a lost address is left to the next link event.
LostIgnored(event) ==
  CASE event.kind = "connected" -> lanLink' = TRUE /\ UNCHANGED <<lanGot, lanIp>>
    [] event.kind = "disconnected" -> lanLink' = FALSE /\ lanGot' = FALSE /\ lanIp' = 0
    [] event.kind = "got" -> lanLink' = TRUE /\ lanGot' = TRUE /\ lanIp' = event.ip
    [] event.kind = "lost" -> UNCHANGED managerVars

\* onEthernetEvent(), onGotIp() and onLostIp()
OnEvent(event) ==
  CASE event.kind = "connected" -> lanLink' = TRUE /\ UNCHANGED <<lanGot, lanIp>>
    [] event.kind = "disconnected" -> lanLink' = FALSE /\ lanGot' = FALSE /\ lanIp' = 0
    [] event.kind = "got" -> lanLink' = TRUE /\ lanGot' = TRUE /\ lanIp' = event.ip
    [] event.kind = "lost" -> lanGot' = FALSE /\ lanIp' = 0 /\ UNCHANGED lanLink

HandleEvent ==
  /\ lanEvents # <<>>
  /\ OnEvent(Head(lanEvents)) /\ lanEvents' = Tail(lanEvents)
  /\ UNCHANGED <<driverVars, loopVars>>

\* loop() reads the address of an interface that is up ...
ReadAddress ==
  /\ lanRead = 0 /\ lanNetif # 0
  /\ lanRead' = lanNetif /\ UNCHANGED <<driverVars, lanEvents, managerVars, lanHalf>>

\* ... and stores that there is one, and which.
StoreGot ==
  /\ lanRead # 0 /\ ~lanHalf
  /\ lanGot' = TRUE /\ lanHalf' = TRUE
  /\ UNCHANGED <<driverVars, lanEvents, lanLink, lanIp, lanRead>>

StoreAddress ==
  /\ lanHalf
  /\ lanIp' = lanRead /\ lanRead' = 0 /\ lanHalf' = FALSE
  /\ UNCHANGED <<driverVars, lanEvents, lanLink, lanGot>>

LanNext ==
  \/ PlugIn \/ Lease \/ Unplug \/ NetifDown \/ ReportLost
  \/ HandleEvent \/ ReadAddress \/ StoreGot \/ StoreAddress

LanInit ==
  /\ lanCable = FALSE /\ lanNetif = 0 /\ lanTimer = FALSE /\ lanEvents = <<>>
  /\ lanLink = FALSE /\ lanGot = FALSE /\ lanIp = 0 /\ lanRead = 0 /\ lanHalf = FALSE

\* The event loop and the main loop run, and the driver's timer expires.
LanFairness ==
  /\ WF_lanVars(HandleEvent) /\ WF_lanVars(ReadAddress)
  /\ WF_lanVars(StoreGot) /\ WF_lanVars(StoreAddress)
  /\ WF_lanVars(ReportLost)

LanSpec == LanInit /\ [][LanNext]_lanVars /\ LanFairness
-----------------------------------------------------------------------------
LanTypeOK ==
  /\ lanCable \in BOOLEAN /\ lanTimer \in BOOLEAN /\ lanLink \in BOOLEAN /\ lanGot \in BOOLEAN
  /\ lanHalf \in BOOLEAN /\ (lanHalf => lanRead # 0)
  /\ {lanNetif, lanIp, lanRead} \subseteq LanAddresses \union {0}
  /\ Len(lanEvents) <= LanEventLimit

\* However the events and the steps of the check interleave, and though the
\* event about a lease may be missed: when the interface stays as it is, what
\* the firmware uses becomes the same.  An address stored after the link was
\* lost goes again with the report of the driver.
LanFollows ==
  <>[][UNCHANGED lanNetif]_lanVars =>
    <>[](lanIp = lanNetif /\ lanGot = (lanNetif # 0))
=============================================================================
