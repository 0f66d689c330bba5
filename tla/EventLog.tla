------------------------------ MODULE EventLog ------------------------------
(***************************************************************************)
(* The event log (core/EventLog.cpp): a ring in RAM and, when the          *)
(* administrator wants it, a ring file behind two header copies.  The two  *)
(* have write positions of their own: they differ once persistence was     *)
(* switched on late, a write has failed or a record was spoiled.           *)
(* An event is known by its number.                                        *)
(***************************************************************************)
EXTENDS HeaderRing

CONSTANTS
  EventSize,      \* capacity of both rings (256 in the code)
  EventLimit,     \* bound on the number of events
  EventFaultLimit \* bound on the number of failed or torn writes

ASSUME EventAssumption ==
  /\ EventSize \in Nat \ {0} /\ EventLimit \in Nat /\ EventFaultLimit \in Nat
  /\ Spoiled \notin 1 .. EventLimit /\ Spoiled \notin Headers(EventSize)
  /\ NoFile \notin RingFiles(EventSize, 1 .. EventLimit)

VARIABLES
  eventFile,    \* NoFile, or the ring file
  eventSetting, \* config.persistEventLog as saved
  eventHead,    \* fileHeader_
  eventRam,     \* the records in RAM, oldest first
  eventOn,      \* persistent_
  eventPc,      \* "off", "ready", "seal", "switch", or "dead" when begin() failed
  eventCount,   \* number of events so far
  eventStored,  \* the events whose header was written since the file was created
  eventCleared, \* the last event at the last clear() that reported success
  eventFaults

eventVars == <<eventFile, eventSetting, eventHead, eventRam, eventOn, eventPc,
               eventCount, eventStored, eventCleared, eventFaults>>

EventFault == eventFaults < EventFaultLimit /\ eventFaults' = eventFaults + 1
-----------------------------------------------------------------------------
\* initializeFile(): an interrupted or failed creation leaves no valid header.
FreshFile ==
  /\ eventFile' = EmptyRing /\ eventHead' = EmptyHeader /\ eventStored' = <<>>
  /\ UNCHANGED eventFaults

NoFreshFile ==
  /\ EventFault
  /\ eventFile' \in {NoFile, TornRing} /\ eventHead' = EmptyHeader /\ eventStored' = <<>>

\* What loadPersistent() reads from a file with a valid header.
Stored(file) == Sound(InOrder(file.slots, NewestHeader(file), EventSize))

Loads(file) ==
  /\ file # NoFile /\ Readable(file)
  /\ LongEnough(file, NewestHeader(file))

Untouched == UNCHANGED <<eventFile, eventHead, eventStored, eventFaults>>

\* begin(): without persistence a file that is left over is removed, and it
\* does not matter whether that succeeds.
BeginLog ==
  /\ eventPc = "off"
  /\ eventOn' = eventSetting
  /\ \/ /\ ~eventSetting
        /\ eventRam' = <<>> /\ eventPc' = "ready"
        /\ \/ eventFile' = NoFile /\ UNCHANGED eventFaults
           \/ EventFault /\ UNCHANGED eventFile
        /\ UNCHANGED <<eventHead, eventStored>>
     \/ /\ eventSetting /\ Loads(eventFile)
        /\ eventHead' = NewestHeader(eventFile)
        /\ eventRam' = Stored(eventFile) /\ eventPc' = "ready"
        /\ UNCHANGED <<eventFile, eventStored, eventFaults>>
     \/ /\ eventSetting /\ ~Loads(eventFile)
        /\ eventRam' = <<>>
        /\ \/ FreshFile /\ eventPc' = "ready"
           \/ NoFreshFile /\ eventPc' = "dead"
  /\ UNCHANGED <<eventSetting, eventCount, eventCleared>>

\* Mutant: the slot is taken from the write position in RAM.
RamSlot == Len(eventRam) % EventSize

\* The slot of the file an event goes to.
EventSlot == eventHead.write

PutEvent(e) == [eventFile EXCEPT !.slots = PutSlot(@, EventSlot, e)]

\* add(), up to the record in the file; the file may have gone.
AddEvent ==
  /\ eventPc = "ready" /\ eventCount < EventLimit
  /\ eventCount' = eventCount + 1
  /\ eventRam' = Newest(Append(eventRam, eventCount'), EventSize)
  /\ \/ /\ ~eventOn \/ eventFile = NoFile
        /\ UNCHANGED <<eventFile, eventPc, eventFaults>>
     \/ /\ eventOn /\ eventFile # NoFile
        /\ \/ eventFile' = PutEvent(eventCount') /\ eventPc' = "seal" /\ UNCHANGED eventFaults
           \/ /\ EventFault /\ UNCHANGED eventPc
              /\ eventFile' \in {eventFile, PutEvent(Spoiled)}
  /\ UNCHANGED <<eventSetting, eventHead, eventOn, eventStored, eventCleared>>

\* The header of writePersistent().
SealEvent ==
  LET header == NextHeader(eventHead, EventSize)
  IN /\ eventPc = "seal" /\ eventPc' = "ready"
     /\ \/ /\ eventFile' = [eventFile EXCEPT !.copies[CopyOf(header)] = header]
           /\ eventHead' = header
           /\ eventStored' = Newest(Append(eventStored, eventCount), EventSize)
           /\ UNCHANGED eventFaults
        \/ /\ EventFault
           /\ eventFile' \in {eventFile, [eventFile EXCEPT !.copies[CopyOf(header)] = Spoiled]}
           /\ UNCHANGED <<eventHead, eventStored>>
     /\ UNCHANGED <<eventSetting, eventRam, eventOn, eventCount, eventCleared>>

\* Mutant: clear() goes on although the file could not be removed.
ClearAnyway ==
  /\ eventPc = "ready"
  /\ eventRam' = <<>> /\ eventCleared' = eventCount
  /\ \/ eventOn /\ FreshFile
     \/ EventFault /\ UNCHANGED <<eventFile, eventHead, eventStored>>
  /\ UNCHANGED <<eventSetting, eventOn, eventPc, eventCount>>

\* clear(): the log in RAM first, then the file, which is made again when the
\* log is persistent.  An error is reported when the file stays, or is not made.
ClearLog ==
  /\ eventPc = "ready"
  /\ eventRam' = <<>>
  /\ \/ /\ eventOn /\ FreshFile /\ eventCleared' = eventCount
     \/ /\ ~eventOn /\ eventFile' = NoFile /\ eventCleared' = eventCount
        /\ UNCHANGED <<eventHead, eventStored, eventFaults>>
     \/ /\ eventFile # NoFile /\ EventFault
        /\ UNCHANGED <<eventFile, eventHead, eventStored, eventCleared>>
     \/ /\ eventOn /\ NoFreshFile /\ UNCHANGED eventCleared
  /\ UNCHANGED <<eventSetting, eventOn, eventPc, eventCount>>

\* handleInterfacesSave() saves the setting and then changes the log; the
\* device restarts afterwards.
SaveSetting ==
  /\ eventPc = "ready"
  /\ eventSetting' = ~eventOn /\ eventPc' = "switch"
  /\ UNCHANGED <<eventFile, eventHead, eventRam, eventOn, eventCount, eventStored,
                 eventCleared, eventFaults>>

\* setPersistence(), and the setting that is put back when it fails.
SetPersistence ==
  /\ eventPc = "switch" /\ eventPc' = "ready"
  /\ \/ /\ eventOn /\ eventOn' = FALSE
        /\ \/ eventFile' = NoFile /\ UNCHANGED eventFaults
           \/ eventFile # NoFile /\ EventFault /\ UNCHANGED eventFile
        /\ UNCHANGED <<eventSetting, eventHead, eventStored>>
     \/ /\ ~eventOn
        /\ \/ FreshFile /\ eventOn' = TRUE /\ UNCHANGED eventSetting
           \/ /\ eventOn' = FALSE /\ eventSetting' = FALSE
              /\ \/ NoFreshFile
                 \/ EventFault /\ eventFile # NoFile /\ UNCHANGED <<eventFile, eventHead, eventStored>>
  /\ UNCHANGED <<eventRam, eventCount, eventCleared>>

\* A restart, or a power cut that may tear the header that is being written.
CutLog ==
  /\ eventPc # "off" /\ eventPc' = "off"
  /\ \/ UNCHANGED <<eventFile, eventFaults>>
     \/ /\ eventPc = "seal" /\ EventFault
        /\ eventFile' = [eventFile EXCEPT !.copies[CopyOf(NextHeader(eventHead, EventSize))] = Spoiled]
  /\ eventRam' = <<>> /\ eventHead' = EmptyHeader /\ eventOn' = FALSE
  /\ UNCHANGED <<eventSetting, eventCount, eventStored, eventCleared>>

EventNext ==
  \/ BeginLog \/ AddEvent \/ SealEvent \/ ClearLog
  \/ SaveSetting \/ SetPersistence \/ CutLog

EventInit ==
  /\ eventFile = NoFile /\ eventSetting \in BOOLEAN /\ eventHead = EmptyHeader
  /\ eventRam = <<>> /\ eventOn = FALSE /\ eventPc = "off" /\ eventCount = 0
  /\ eventStored = <<>> /\ eventCleared = 0 /\ eventFaults = 0

EventSpec == EventInit /\ [][EventNext]_eventVars
-----------------------------------------------------------------------------
EventTypeOK ==
  /\ eventFile \in RingFiles(EventSize, 1 .. EventLimit) \union {NoFile}
  /\ eventFile # NoFile => Len(eventFile.slots) <= EventSize
  /\ eventHead \in Headers(EventSize)
  /\ eventRam \in Seq(1 .. EventLimit) /\ Len(eventRam) <= EventSize
  /\ eventSetting \in BOOLEAN /\ eventOn \in BOOLEAN
  /\ eventPc \in {"off", "ready", "seal", "switch", "dead"}
  /\ eventCount \in 0 .. EventLimit /\ eventFaults \in 0 .. EventFaultLimit

\* Whenever the power fails, the next start finds in the file every event whose
\* write was completed, but for the oldest of a full log, whose slot the write
\* that was cut short had taken; and the events are in the order in which they
\* happened, but for that one slot, which then shows the newest event first.
EventsSurvive ==
  Loads(eventFile) =>
    LET shown == Stored(eventFile)
        owed == Newest(eventStored, IF Len(eventStored) < EventSize THEN EventSize ELSE EventSize - 1)
    IN /\ \A i \in DOMAIN owed : \E j \in DOMAIN shown : shown[j] = owed[i]
       /\ \A i, j \in 2 .. Len(shown) : i < j => shown[i] < shown[j]

\* Events that were cleared, with success reported, are never shown again,
\* after no restart and no change of the setting.
ClearedStaysCleared ==
  \A i \in DOMAIN eventRam : eventRam[i] > eventCleared
=============================================================================
