-------------------------- MODULE SerialPortProofs --------------------------
(***************************************************************************)
(* SerialPort for any pins, meters, rates and requests: the guards of the  *)
(* jobs keep them apart as far as the properties say, the port is always   *)
(* given back, and a scan never leaves its list of candidates.             *)
(***************************************************************************)
EXTENDS SerialPort, FiniteSetTheorems, WellFoundedInduction, TLAPS

\* A readout runs only for the two protocols that want one, and the line it
\* leaves behind without restoring anything is the configured one.
ReadoutInv ==
  activeD0.active =>
    /\ config.protocol \in {"Auto", "Iec62056Active"}
    /\ ~irPulse.active => port \in {D0Line, ConfiguredLine(config)}

\* Every telegram counted for a candidate came over the candidate's line.
HeardInv ==
  meterCommissioning.active /\ reading.accepted > 0 =>
    /\ reading.detected = wired.kind
    /\ wired.kind = meterCommissioningProtocol
    /\ wired.baud = AutoSerialCandidates[meterCommissioning.candidate].baud

\* A scan listens on its candidate unless an unlock sequence is under way,
\* which can get no further than its PIN while the scan is on.
ScanInv ==
  gpioScan.active =>
    /\ ~gpioScan.found
    /\ apatorUnlock.active => apatorUnlock.phase <= 3
    /\ ~apatorUnlock.active =>
         /\ ~irPulse.active
         /\ port = ScanLine(config, gpioScan.candidate)
         /\ reading.accepted > 0 => ScanHeard

IInv ==
  /\ ScanInv /\ JobsOK /\ ReadoutInv /\ HeardInv
  /\ PortGivenBack /\ PulseOwnsPort /\ OneReader /\ CommissioningRight

LEMMA CandidateCount == Len(AutoSerialCandidates) = 5
  BY DEF AutoSerialCandidates

\* The line of an explicit readout is the configured one.
LEMMA ReadoutLine ==
  ASSUME NEW c, c.protocol = "Iec62056Active"
  PROVE  ConfiguredLine(c) = D0Line
  BY DEF ConfiguredLine, D0Line, meterBaud, meterSerialMode

LEMMA InitHolds == Init => IInv
  <1> SUFFICES ASSUME Init PROVE IInv
    OBVIOUS
  <1> USE PinAssumption, WorldAssumption, JobAssumption, CandidateCount
  <1> USE DEF Init, NoPulse, NoUnlock, NoScan, NoD0, NoCommissioning, NoReading
  <1>1. JobsOK
    BY DEF JobsOK, PulseJob, UnlockJob, ScanJob, D0Job, CommissioningJob, Reading
  <1>2. QED
    BY <1>1 DEF IInv, ReadoutInv, HeardInv, ScanInv, ScanHeard, PortGivenBack, PulseOwnsPort,
                OneReader, CommissioningRight, Busy

LEMMA ReadoutOver == NoD0 \in D0Job /\ ~NoD0.active
  BY DEF NoD0, D0Job

\* Jobs as they start.
LEMMA NewJobs ==
  /\ [active |-> TRUE, phase |-> 1, verifying |-> FALSE] \in UnlockJob
  /\ [NoScan EXCEPT !.active = TRUE] \in ScanJob
  /\ [NoScan EXCEPT !.active = TRUE].active
  /\ [NoScan EXCEPT !.active = TRUE].candidate = 1
  /\ ~[NoScan EXCEPT !.active = TRUE].found
  /\ [started |-> TRUE, active |-> TRUE, found |-> FALSE, candidate |-> 1]
       \in CommissioningJob
  <1>1. 1 \in 1..Len(AutoSerialCandidates) /\ 1 \in 0..8 /\ 1 \in Nat \ {0}
    BY CandidateCount
  <1>2. NoScan \in ScanJob
    BY <1>1 DEF NoScan, ScanJob
  <1>3. [active |-> TRUE, phase |-> 1, verifying |-> FALSE] \in UnlockJob
    BY <1>1 DEF UnlockJob
  <1>4. [NoScan EXCEPT !.active = TRUE] \in ScanJob /\ [NoScan EXCEPT !.active = TRUE].active
        /\ [NoScan EXCEPT !.active = TRUE].candidate = 1
  /\ ~[NoScan EXCEPT !.active = TRUE].found
    BY <1>1, <1>2 DEF NoScan, ScanJob
  <1>5. [started |-> TRUE, active |-> TRUE, found |-> FALSE, candidate |-> 1]
          \in CommissioningJob
    BY <1>1 DEF CommissioningJob
  <1>6. QED
    BY <1>3, <1>4, <1>5

LEMMA ParsersResetKeeps ==
  ASSUME reading \in Reading, NEW r, r = ParsersReset(reading)
  PROVE  r \in Reading /\ r.accepted = reading.accepted /\ r.detected = reading.detected
  BY DEF ParsersReset, Reading

\* A counter that starts again has heard nothing yet.
LEMMA CountResets ==
  ASSUME reading \in Reading, NEW r, r = [ParsersReset(reading) EXCEPT !.accepted = 0]
  PROVE  r \in Reading /\ r.accepted = 0
  <1>1. ParsersReset(reading) \in Reading
    BY ParsersResetKeeps
  <1>2. QED
    BY <1>1 DEF Reading

\* A job begun by beginIrPulseJob() is alone from the first moment.
LEMMA BeginPulse ==
  ASSUME IInv, NEW pin \in Pins \cup {TxPin}, NEW digits \in 1..PinDigits,
         BeginIrPulseJob(pin, digits)
  PROVE  /\ irPulse' \in PulseJob /\ irPulse'.active
         /\ irPulse'.pin \in driven' /\ driven' \subseteq Pins
         /\ port' = NoLine /\ activeD0' = NoD0
         /\ reading' \in Reading
         /\ reading'.accepted = reading.accepted
         /\ reading'.detected = reading.detected
         /\ ~gpioScan.active /\ ~meterCommissioning.active
  <1> USE PinAssumption, JobAssumption DEF BeginIrPulseJob, MayPulse
  <1>1. pin \in Pins
    OBVIOUS
  <1>2. irPulse' = PulseOn(pin, digits) /\ digits - 1 \in 0..PinDigits - 1
        /\ PulsesPerDigit \in 0..PulsesPerDigit
    OBVIOUS
  <1>3. irPulse' \in PulseJob /\ irPulse'.active /\ irPulse'.pin = pin
    BY <1>1, <1>2 DEF PulseOn, PulseJob
  <1>4. driven' \subseteq Pins /\ pin \in driven'
    BY <1>1 DEF PinsAfterD0, Taken, IInv, JobsOK
  <1>5. reading' \in Reading /\ reading'.accepted = reading.accepted
        /\ reading'.detected = reading.detected
    BY ParsersResetKeeps DEF IInv, JobsOK
  <1>6. QED
    BY <1>3, <1>4, <1>5 DEF meterCommissioningOwnsSerial

LEMMA PulseStep == IInv /\ UpdateIrPulseJob => IInv'
  <1> SUFFICES ASSUME IInv, UpdateIrPulseJob PROVE IInv'
    OBVIOUS
  <1> USE PinAssumption, JobAssumption DEF IInv, UpdateIrPulseJob
  <1>1. CASE NextPulse
    <2>1. irPulse' \in PulseJob
      <3>1. CASE irPulse' = [irPulse EXCEPT !.output = TRUE, !.left = @ - 1] /\ irPulse.left > 0
        <4>1. irPulse.left - 1 \in 0..PulsesPerDigit
          BY <3>1 DEF JobsOK, PulseJob, Reading
        <4>2. QED
          BY <3>1, <4>1, Zenon DEF JobsOK, PulseJob, Reading
      <3>2. CASE irPulse' = [irPulse EXCEPT !.output = FALSE]
        BY <3>2 DEF JobsOK, PulseJob, Reading
      <3>3. CASE irPulse' = [irPulse EXCEPT !.left = PulsesPerDigit, !.digits = @ - 1]
                 /\ irPulse.digits > 0
        <4>1. irPulse.digits - 1 \in 0..PinDigits - 1 /\ PulsesPerDigit \in 0..PulsesPerDigit
          BY <3>3 DEF JobsOK, PulseJob, Reading
        <4>2. QED
          BY <3>3, <4>1, Zenon DEF JobsOK, PulseJob, Reading
      <3>4. QED
        BY <1>1, <3>1, <3>2, <3>3 DEF NextPulse
    <2>2. irPulse'.active /\ irPulse.active /\ irPulse'.pin = irPulse.pin
      BY <1>1 DEF NextPulse, JobsOK, PulseJob, Reading
    <2>3. QED
      BY <1>1, <2>1, <2>2 DEF NextPulse, JobsOK, PulseJob, Reading, ReadoutInv, HeardInv, ScanInv, ScanHeard, PortGivenBack,
         PulseOwnsPort, OneReader, CommissioningRight, Busy, meterCommissioningProtocol
  <1>2. CASE FinishIrPulseJob
    <2>1. /\ ~irPulse'.active /\ irPulse.active
          /\ irPulse' \in PulseJob
      BY <1>2 DEF FinishIrPulseJob, NextPulse, JobsOK, PulseJob, Reading
    <2>2. /\ port' = ConfiguredLine(config')
          /\ driven' \subseteq Pins
      BY <1>2 DEF FinishIrPulseJob, Restore, Taken, JobsOK, PulseJob, Reading
    <2>3. /\ reading' \in Reading
          /\ reading'.accepted = reading.accepted
          /\ reading'.detected = reading.detected
      BY <1>2 DEF FinishIrPulseJob, ParsersReset, JobsOK, PulseJob, Reading
    <2>4. QED
      BY <2>1, <2>2, <2>3 DEF JobsOK, PulseJob, Reading, ReadoutInv, HeardInv, ScanInv, ScanHeard, PortGivenBack,
         PulseOwnsPort, OneReader, CommissioningRight, Busy, meterCommissioningProtocol
  <1>3. QED
    BY <1>1, <1>2

LEMMA UnlockStep == IInv /\ UpdateApatorUnlock => IInv'
  <1> SUFFICES ASSUME IInv, UpdateApatorUnlock PROVE IInv'
    OBVIOUS
  <1> USE PinAssumption, JobAssumption
  <1>a. BeginIrPulseJob(TxPin, PinDigits) =>
          /\ irPulse' \in PulseJob /\ irPulse'.active
          /\ irPulse'.pin \in driven' /\ driven' \subseteq Pins
          /\ port' = NoLine /\ activeD0' = NoD0
          /\ reading' \in Reading
          /\ reading'.accepted = reading.accepted
          /\ reading'.detected = reading.detected
          /\ ~gpioScan.active /\ ~meterCommissioning.active
    <2>1. TxPin \in Pins \cup {TxPin} /\ PinDigits \in 1..PinDigits
      OBVIOUS
    <2>2. QED
      BY <2>1, BeginPulse
  <1> USE DEF IInv, JobsOK, ReadoutInv, HeardInv, ScanInv, ScanHeard, PortGivenBack, PulseOwnsPort,
              OneReader, CommissioningRight, Busy, meterCommissioningProtocol
  <1>0. apatorUnlock \in UnlockJob /\ apatorUnlock.active /\ ~irPulse.active
    BY DEF UpdateApatorUnlock
  <1>1. CASE /\ apatorUnlock.phase \in {1, 5, 7} /\ BeginIrPulseCount
             /\ UnlockPhase(apatorUnlock.phase + 1)
    <2>1. apatorUnlock' \in UnlockJob /\ apatorUnlock'.active
          /\ apatorUnlock'.phase = apatorUnlock.phase + 1
      BY <1>0, <1>1 DEF UnlockPhase, UnlockJob
    <2>4. gpioScan.active => apatorUnlock'.phase <= 3
      BY <1>0, <1>1, <2>1
    <2>2. irPulse' \in PulseJob /\ irPulse'.active
      <3>1. 0 \in 0..PinDigits - 1 /\ PulsesPerDigit \in 0..PulsesPerDigit /\ 1 - 1 = 0
        OBVIOUS
      <3>2. QED
        BY <1>1, <3>1, Zenon DEF BeginIrPulseCount, PulseOn, PulseJob
    <2>3. QED
      BY <1>0, <1>1, <2>1, <2>2, <2>4 DEF BeginIrPulseCount, UpdateApatorUnlock,
         meterCommissioningOwnsSerial, D0Job, CommissioningJob
  <1>2. CASE apatorUnlock.phase = 3 /\ BeginIrPulseJob(TxPin, PinDigits) /\ UnlockPhase(4)
    <2>1. apatorUnlock' \in UnlockJob /\ apatorUnlock'.active
      BY <1>0, <1>2 DEF UnlockPhase, UnlockJob
    <2>2. activeD0' \in D0Job /\ ~activeD0'.active
      <3>1. activeD0' = NoD0
        BY <1>2, <1>a
      <3>2. QED
        BY <3>1, ReadoutOver
    <2>3. UNCHANGED <<config, gpioScan, meterCommissioning, wired>>
      BY DEF UpdateApatorUnlock
    <2>4. QED
      BY <1>2, <1>a, <2>1, <2>2, <2>3
  <1>3. CASE /\ apatorUnlock.phase \in {2, 4, 6} /\ UnlockPhase(apatorUnlock.phase + 1)
             /\ UNCHANGED <<irPulse, activeD0, port, driven, reading>>
    <2>1. apatorUnlock' \in UnlockJob /\ apatorUnlock'.active
          /\ apatorUnlock'.phase = apatorUnlock.phase + 1
      BY <1>0, <1>3 DEF UnlockPhase, UnlockJob
    <2>2. gpioScan.active => apatorUnlock'.phase <= 3
      BY <1>0, <1>3, <2>1
    <2>3. QED
      BY <1>0, <1>3, <2>1, <2>2 DEF UpdateApatorUnlock
  <1>4. CASE /\ apatorUnlock.phase = 8
             /\ \/ apatorUnlock' = [apatorUnlock EXCEPT !.verifying = TRUE]
                \/ apatorUnlock' = [apatorUnlock EXCEPT !.active = FALSE]
             /\ UNCHANGED <<irPulse, activeD0, port, driven, reading>>
    <2>1. apatorUnlock' \in UnlockJob
      BY <1>0, <1>4 DEF UnlockJob
    <2>2. QED
      BY <1>0, <1>4, <2>1 DEF UpdateApatorUnlock
  <1>5. QED
    BY <1>1, <1>2, <1>3, <1>4 DEF UpdateApatorUnlock

LEMMA ReadoutStep == IInv /\ UpdateActiveD0 => IInv'
  <1> SUFFICES ASSUME IInv, UpdateActiveD0 PROVE IInv'
    OBVIOUS
  <1> USE PinAssumption
  <1> USE DEF IInv, JobsOK, ReadoutInv, HeardInv, ScanInv, ScanHeard, PortGivenBack, PulseOwnsPort,
              OneReader, CommissioningRight, Busy, meterCommissioningProtocol, UpdateActiveD0
  <1>1. CASE BeginActiveD0
    <2>1. activeD0' \in D0Job /\ activeD0'.active
      BY <1>1 DEF BeginActiveD0, D0Job
    <2>2. driven' \subseteq Pins
      BY <1>1 DEF BeginActiveD0, Taken
    <2>3. reading' \in Reading /\ reading'.accepted = reading.accepted
          /\ reading'.detected = reading.detected
      BY <1>1, ParsersResetKeeps DEF BeginActiveD0
    <2>4. QED
      BY <1>1, <2>1, <2>2, <2>3 DEF BeginActiveD0, meterCommissioningOwnsSerial
  <1>2. CASE activeD0.active /\ Acknowledge
    <2>1. activeD0' \in D0Job /\ activeD0'.active
      BY <1>2 DEF Acknowledge, D0Job
    <2>2. reading' \in Reading /\ reading'.accepted = reading.accepted
          /\ reading'.detected = reading.detected
      BY <1>2 DEF Acknowledge, Reading
    <2>3. QED
      BY <1>2, <2>1, <2>2 DEF Acknowledge
  <1>3. CASE activeD0.active /\ FinishActiveD0
    <2>1. activeD0' \in D0Job /\ ~activeD0'.active
      BY <1>3 DEF FinishActiveD0, NoD0, D0Job
    <2>2. driven' \subseteq Pins /\ reading' \in Reading
          /\ reading'.accepted = reading.accepted /\ reading'.detected = reading.detected
      BY <1>3, ParsersResetKeeps DEF FinishActiveD0, Restore, Taken
    <2>3. ~irPulse.active => port' = ConfiguredLine(config')
      BY <1>3, ReadoutLine DEF FinishActiveD0, Restore
    <2>4. irPulse.active => apatorUnlock.active
      BY <1>3
    <2>5. QED
      BY <1>3, <2>1, <2>2, <2>3, <2>4
  <1>4. QED
    BY <1>1, <1>2, <1>3

LEMMA RecoveryStep == IInv /\ UpdateMeterRecovery => IInv'
  <1> SUFFICES ASSUME IInv, UpdateMeterRecovery PROVE IInv'
    OBVIOUS
  <1> USE DEF IInv, JobsOK, ReadoutInv, HeardInv, ScanInv, ScanHeard, PortGivenBack, PulseOwnsPort,
              OneReader, CommissioningRight, Busy, meterCommissioningProtocol
  <1>1. driven' \subseteq Pins /\ port' = ConfiguredLine(config')
    BY DEF UpdateMeterRecovery, Restore, Taken
  <1>2. reading' \in Reading /\ reading'.accepted = reading.accepted
        /\ reading'.detected = reading.detected
    BY ParsersResetKeeps DEF UpdateMeterRecovery
  <1>3. QED
    BY <1>1, <1>2 DEF UpdateMeterRecovery, jobs, meterCommissioningOwnsSerial

LEMMA ScanStep == IInv /\ UpdateGpioScan => IInv'
  <1> SUFFICES ASSUME IInv, UpdateGpioScan PROVE IInv'
    OBVIOUS
  <1> USE PinAssumption, JobAssumption
  <1> USE DEF IInv, JobsOK, ReadoutInv, HeardInv, ScanInv, ScanHeard, PortGivenBack, PulseOwnsPort,
              OneReader, CommissioningRight, Busy, meterCommissioningProtocol
  <1> USE DEF UpdateGpioScan
  <1>0. gpioScan \in ScanJob /\ gpioScan.active /\ ~activeD0.active
        /\ ~meterCommissioning.active
    OBVIOUS
  <1>1. ASSUME NEW found \in BOOLEAN, FinishGpioScan(found)
        PROVE  IInv'
    <2>1. gpioScan' \in ScanJob /\ ~gpioScan'.active
      BY <1>0, <1>1 DEF FinishGpioScan, ScanJob
    <2>2. driven' \subseteq Pins /\ port' = ConfiguredLine(config')
      BY <1>1 DEF FinishGpioScan, Restore, Taken
    <2>3. reading' \in Reading
      BY <1>1, ParsersResetKeeps DEF FinishGpioScan
    <2>4. QED
      BY <1>0, <2>1, <2>2, <2>3
  <1>2. CASE /\ gpioScan' = [gpioScan EXCEPT !.candidate = @ + 1]
             /\ BeginGpioScanCandidate(gpioScan.candidate + 1, driven)
    <2>1. gpioScan' \in ScanJob /\ gpioScan'.active
          /\ gpioScan'.candidate = gpioScan.candidate + 1
          /\ gpioScan'.found = gpioScan.found
      BY <1>0, <1>2 DEF ScanJob
    <2>2. driven' \subseteq Pins /\ port' = ScanLine(config, gpioScan.candidate + 1)
      BY <1>2 DEF BeginGpioScanCandidate, Taken
    <2>3. reading' \in Reading /\ reading'.accepted = 0
      BY <1>2, CountResets DEF BeginGpioScanCandidate
    <2>4. QED
      BY <1>0, <2>1, <2>2, <2>3
  <1>3. QED
    BY <1>1, <1>2

\* A commissioning candidate is opened with nothing counted for it.
LEMMA CandidateOpened ==
  ASSUME JobsOK, NEW k, BeginMeterCommissioningCandidate(k)
  PROVE  /\ port' = CommissioningLine(k) /\ driven' \subseteq Pins
         /\ reading' \in Reading /\ reading'.accepted = 0
  BY CountResets DEF BeginMeterCommissioningCandidate, Taken, JobsOK

LEMMA CommissioningStart == IInv /\ ManageMeterCommissioning(StartMeterCommissioning) => IInv'
  <1> SUFFICES ASSUME IInv, ManageMeterCommissioning(StartMeterCommissioning) PROVE IInv'
    OBVIOUS
  <1> USE PinAssumption, JobAssumption
  <1> USE DEF IInv, JobsOK, ReadoutInv, HeardInv, ScanInv, ScanHeard, PortGivenBack, PulseOwnsPort,
              OneReader, CommissioningRight, Busy, meterCommissioningProtocol
  <1> USE DEF ManageMeterCommissioning, StartMeterCommissioning
  <1>1. /\ meterCommissioning' \in CommissioningJob
        /\ ~meterCommissioning'.found /\ meterCommissioning'.candidate = 1
    BY NewJobs
  <1>2. /\ port' = CommissioningLine(1) /\ driven' \subseteq Pins
        /\ reading' \in Reading /\ reading'.accepted = 0
    BY CandidateOpened
  <1>3. QED
    BY <1>1, <1>2

LEMMA CommissioningStep == IInv /\ ManageMeterCommissioning(StepMeterCommissioning) => IInv'
  <1> SUFFICES ASSUME IInv, ManageMeterCommissioning(StepMeterCommissioning) PROVE IInv'
    OBVIOUS
  <1> USE PinAssumption, JobAssumption
  <1> USE DEF IInv, JobsOK, ReadoutInv, HeardInv, ScanInv, ScanHeard, PortGivenBack, PulseOwnsPort,
              OneReader, CommissioningRight, Busy, meterCommissioningProtocol
  <1> USE DEF ManageMeterCommissioning, StepMeterCommissioning
  <1>0. meterCommissioning \in CommissioningJob /\ meterCommissioning.active
        /\ ~irPulse.active /\ ~apatorUnlock.active /\ ~gpioScan.active /\ ~activeD0.active
    OBVIOUS
  <1>1. ASSUME NEW found \in BOOLEAN, FinishMeterCommissioning(found),
               found => Confirmed(2) /\ Unambiguous
        PROVE  IInv'
    <2>1. meterCommissioning' \in CommissioningJob /\ ~meterCommissioning'.active
          /\ meterCommissioning'.found = found
      BY <1>0, <1>1 DEF FinishMeterCommissioning, CommissioningJob
    <2>2. driven' \subseteq Pins /\ port' = ConfiguredLine(config')
      BY <1>1 DEF FinishMeterCommissioning, Restore, Taken
    <2>3. reading' \in Reading
      BY <1>1, ParsersResetKeeps DEF FinishMeterCommissioning
    <2>4. found => config'.protocol = wired.kind /\ config'.baud = wired.baud
      BY <1>0, <1>1 DEF FinishMeterCommissioning, FoundConfig, Confirmed, Reading
    <2>5. QED
      BY <1>0, <2>1, <2>2, <2>3, <2>4
  <1>2. CASE /\ meterCommissioning.candidate < Len(AutoSerialCandidates)
             /\ meterCommissioning' = [meterCommissioning EXCEPT !.candidate = @ + 1]
             /\ BeginMeterCommissioningCandidate(meterCommissioning.candidate + 1)
             /\ UNCHANGED config
    <2>1. /\ meterCommissioning' \in CommissioningJob
          /\ meterCommissioning'.candidate = meterCommissioning.candidate + 1
          /\ meterCommissioning'.found = meterCommissioning.found
      BY <1>0, <1>2, CandidateCount DEF CommissioningJob
    <2>2. /\ port' = CommissioningLine(meterCommissioning.candidate + 1)
          /\ driven' \subseteq Pins /\ reading' \in Reading /\ reading'.accepted = 0
      BY <1>2, CandidateOpened
    <2>3. QED
      BY <1>0, <1>2, <2>1, <2>2
  <1>3. Unambiguous \in BOOLEAN
    BY DEF Unambiguous
  <1>4. QED
    BY <1>1, <1>2, <1>3

\* A telegram is counted where it was heard.
LEMMA TelegramStep == IInv /\ ReceiveTelegram => IInv'
  <1> SUFFICES ASSUME IInv, ReceiveTelegram PROVE IInv'
    OBVIOUS
  <1> USE PinAssumption, JobAssumption
  <1> USE DEF IInv, JobsOK, ReadoutInv, HeardInv, ScanInv, ScanHeard, PortGivenBack, PulseOwnsPort,
              OneReader, CommissioningRight, Busy, meterCommissioningProtocol
  <1> USE WorldAssumption DEF ReceiveTelegram
  <1>1. reading' \in Reading /\ reading'.detected = wired.kind
    <2>1. wired.kind \in {"Sml", "Iec62056"}
      BY DEF Meter
    <2>2. (IF reading.accepted = 2 THEN 2 ELSE reading.accepted + 1) \in 0..2
      BY DEF Reading
    <2>3. QED
      BY <2>1, <2>2 DEF Reading
  <1>2. meterCommissioning.active =>
          /\ wired.kind = meterCommissioningProtocol
          /\ wired.baud = AutoSerialCandidates[meterCommissioning.candidate].baud
    BY DEF Hears, Feeds, meterCommissioningOwnsSerial, CommissioningLine
  <1>3. gpioScan.active /\ ~apatorUnlock.active =>
          /\ ScanLine(config, gpioScan.candidate).rx = wired.pin
          /\ ScanLine(config, gpioScan.candidate).baud = wired.baud
    BY DEF Hears
  <1>4. QED
    BY <1>1, <1>2, <1>3 DEF jobs

LEMMA OtherReceptionStep ==
  IInv /\ (ReceiveIdentification \/ ReceiveDamaged \/ Age) => IInv'
  <1> SUFFICES ASSUME IInv, ReceiveIdentification \/ ReceiveDamaged \/ Age PROVE IInv'
    OBVIOUS
  <1> USE PinAssumption, JobAssumption
  <1> USE DEF IInv, JobsOK, ReadoutInv, HeardInv, ScanInv, ScanHeard, PortGivenBack, PulseOwnsPort,
              OneReader, CommissioningRight, Busy, meterCommissioningProtocol
  <1>1. reading' \in Reading /\ reading'.accepted = reading.accepted
        /\ reading'.detected = reading.detected
    BY DEF ReceiveIdentification, ReceiveDamaged, Age, Reading
  <1>2. UNCHANGED <<config, port, driven, jobs, wired>>
    BY DEF ReceiveIdentification, ReceiveDamaged, Age
  <1>3. QED
    BY <1>1, <1>2 DEF jobs

LEMMA BeginPulseStep ==
  ASSUME IInv, NEW pin \in Pins \cup {TxPin}, NEW digits \in 1..PinDigits,
         BeginIrPulseJob(pin, digits),
         UNCHANGED <<config, apatorUnlock, gpioScan, meterCommissioning, wired>>
  PROVE  IInv'
  <1>1. /\ irPulse' \in PulseJob /\ irPulse'.active
        /\ irPulse'.pin \in driven' /\ driven' \subseteq Pins
        /\ port' = NoLine /\ activeD0' = NoD0
        /\ reading' \in Reading
        /\ reading'.accepted = reading.accepted
        /\ reading'.detected = reading.detected
        /\ ~gpioScan.active /\ ~meterCommissioning.active
    BY BeginPulse
  <1>2. activeD0' \in D0Job /\ ~activeD0'.active
    BY <1>1, ReadoutOver
  <1>3. QED
    BY <1>1, <1>2 DEF IInv, JobsOK, ReadoutInv, HeardInv, ScanInv, ScanHeard, PortGivenBack, PulseOwnsPort,
       OneReader, CommissioningRight, Busy

LEMMA UnlockRequest == IInv /\ HandleApatorUnlock => IInv'
  <1> SUFFICES ASSUME IInv, HandleApatorUnlock PROVE IInv'
    OBVIOUS
  <1> USE DEF HandleApatorUnlock, IInv, JobsOK, ReadoutInv, HeardInv, ScanInv, ScanHeard, PortGivenBack,
      PulseOwnsPort, OneReader, CommissioningRight, Busy, meterCommissioningProtocol,
      meterCommissioningOwnsSerial
  <1>1. apatorUnlock' \in UnlockJob /\ apatorUnlock'.active
    BY NewJobs
  <1>2. QED
    BY <1>1

LEMMA PulseRequests ==
  IInv /\ (HandleIrPin \/ HandlePulseTest \/ HandleForgetPin) => IInv'
  <1> SUFFICES ASSUME IInv, HandleIrPin \/ HandlePulseTest \/ HandleForgetPin PROVE IInv'
    OBVIOUS
  <1>1. CASE HandleIrPin /\ BeginIrPulseJob(TxPin, PinDigits)
    <2>1. PinDigits \in 1..PinDigits
      BY JobAssumption
    <2>2. QED
      BY <1>1, <2>1, BeginPulseStep DEF HandleIrPin
  <1>2. CASE HandlePulseTest
    <2>1. PICK pin \in Pins : BeginIrPulseJob(pin, 1)
      BY <1>2 DEF HandlePulseTest
    <2>2. 1 \in 1..PinDigits
      BY JobAssumption
    <2>3. QED
      BY <1>2, <2>1, <2>2, BeginPulseStep DEF HandlePulseTest
  <1>3. CASE UNCHANGED <<config, port, driven, jobs, reading, wired>>
    BY <1>3 DEF jobs, IInv, JobsOK, ReadoutInv, HeardInv, ScanInv, ScanHeard, PortGivenBack,
       PulseOwnsPort, OneReader, CommissioningRight, Busy, meterCommissioningProtocol
  <1>4. QED
    BY <1>1, <1>2, <1>3 DEF HandleIrPin, HandleForgetPin, jobs

LEMMA StopRequest == IInv /\ HandleIrStop => IInv'
  <1> SUFFICES ASSUME IInv, HandleIrStop PROVE IInv'
    OBVIOUS
  <1> USE DEF HandleIrStop, IInv, JobsOK, ReadoutInv, HeardInv, ScanInv, ScanHeard, PortGivenBack,
      PulseOwnsPort, OneReader, CommissioningRight, Busy, meterCommissioningProtocol
  <1>1. ~irPulse'.active /\ irPulse' \in PulseJob
    BY DEF FinishIrPulseJob, PulseJob
  <1>2. port' = ConfiguredLine(config') /\ driven' \subseteq Pins
    BY DEF FinishIrPulseJob, Restore, Taken
  <1>3. reading' \in Reading /\ reading'.accepted = reading.accepted
        /\ reading'.detected = reading.detected
    BY ParsersResetKeeps DEF FinishIrPulseJob
  <1>4. QED
    BY <1>1, <1>2, <1>3

LEMMA TxScanRequest == IInv /\ HandleGpioTxScan => IInv'
  <1> SUFFICES ASSUME IInv, HandleGpioTxScan PROVE IInv'
    OBVIOUS
  <1> USE DEF HandleGpioTxScan, IInv, JobsOK, ReadoutInv, HeardInv, ScanInv, ScanHeard, PortGivenBack,
      PulseOwnsPort, OneReader, CommissioningRight, Busy, meterCommissioningProtocol,
      meterCommissioningOwnsSerial
  <1>1. port' = ConfiguredLine(config') /\ driven' \subseteq Pins
    BY DEF Restore, Taken
  <1>2. reading' \in Reading /\ reading'.accepted = reading.accepted
        /\ reading'.detected = reading.detected
    BY ParsersResetKeeps
  <1>3. QED
    BY <1>1, <1>2 DEF jobs

LEMMA ScanRequest == IInv /\ RequestScan => IInv'
  <1> SUFFICES ASSUME IInv, RequestScan PROVE IInv'
    OBVIOUS
  <1> USE DEF RequestScan, IInv, JobsOK, ReadoutInv, HeardInv, ScanInv, ScanHeard, PortGivenBack,
      PulseOwnsPort, OneReader, CommissioningRight, Busy, StartGpioScan,
      meterCommissioningOwnsSerial
  <1>1. irPulse' \in PulseJob /\ ~irPulse'.active
    BY DEF PulseJob
  <1>2. apatorUnlock' \in UnlockJob /\ ~apatorUnlock'.active
    BY DEF UnlockJob
  <1>3. gpioScan' \in ScanJob /\ gpioScan'.active /\ gpioScan'.candidate = 1
        /\ ~gpioScan'.found
    BY NewJobs
  <1>4. activeD0' \in D0Job /\ ~activeD0'.active
    BY ReadoutOver
  <1>5. driven' \subseteq Pins /\ port' = ScanLine(config, 1)
    BY DEF BeginGpioScanCandidate, PinsAfterD0, Taken
  <1>6. reading' \in Reading /\ reading'.accepted = 0
    BY CountResets DEF BeginGpioScanCandidate
  <1>7. QED
    BY <1>1, <1>2, <1>3, <1>4, <1>5, <1>6

LEMMA CancelRequest == IInv /\ CancelScan => IInv'
  <1> SUFFICES ASSUME IInv, CancelScan PROVE IInv'
    OBVIOUS
  <1> USE DEF CancelScan, IInv, JobsOK, ReadoutInv, HeardInv, ScanInv, ScanHeard, PortGivenBack,
      PulseOwnsPort, OneReader, CommissioningRight, Busy, FinishGpioScan
  <1>1. gpioScan' \in ScanJob /\ ~gpioScan'.active
    BY DEF ScanJob
  <1>2. port' = ConfiguredLine(config') /\ driven' \subseteq Pins
    BY DEF Restore, Taken
  <1>3. reading' \in Reading
    BY ParsersResetKeeps
  <1>4. QED
    BY <1>1, <1>2, <1>3

LEMMA RebootStep == IInv /\ Reboot => IInv'
  <1> SUFFICES ASSUME IInv, Reboot PROVE IInv'
    OBVIOUS
  <1>1. /\ NoPulse \in PulseJob /\ NoUnlock \in UnlockJob /\ NoScan \in ScanJob
        /\ NoCommissioning \in CommissioningJob /\ NoReading \in Reading
    <2>1. 0 \in 0..PulsesPerDigit /\ 0 \in 0..PinDigits - 1
      BY JobAssumption
    <2>2. 1 \in 1..Len(AutoSerialCandidates)
      BY CandidateCount
    <2>3. QED
      BY <2>1, <2>2 DEF NoPulse, NoUnlock, NoScan, NoCommissioning, NoReading,
         PulseJob, UnlockJob, ScanJob, CommissioningJob, Reading
  <1>2. ~NoPulse.active /\ ~NoScan.active /\ ~NoCommissioning.active
        /\ ~NoCommissioning.found
    BY DEF NoPulse, NoScan, NoCommissioning
  <1>3. QED
    BY <1>1, <1>2, ReadoutOver DEF Reboot, IInv, JobsOK, ReadoutInv, HeardInv, ScanInv,
       PortGivenBack, PulseOwnsPort, OneReader, CommissioningRight, Busy

LEMMA StepHolds == IInv /\ [Next]_vars => IInv'
  <1> SUFFICES ASSUME IInv, [Next]_vars PROVE IInv'
    OBVIOUS
  <1>1. CASE Loop
    BY <1>1, PulseStep, UnlockStep, ReadoutStep, RecoveryStep, ScanStep,
       CommissioningStart, CommissioningStep DEF Loop
  <1>2. CASE Receive \/ Age
    BY <1>2, TelegramStep, OtherReceptionStep DEF Receive
  <1>3. CASE Web
    BY <1>3, UnlockRequest, PulseRequests, StopRequest, TxScanRequest, ScanRequest,
       CancelRequest DEF Web
  <1>4. CASE Reboot
    BY <1>4, RebootStep
  <1>5. CASE UNCHANGED vars
    BY <1>5 DEF vars, jobs, IInv, JobsOK, ReadoutInv, HeardInv, ScanInv, ScanHeard, PortGivenBack,
       PulseOwnsPort, OneReader, CommissioningRight, Busy, meterCommissioningProtocol
  <1>6. QED
    BY <1>1, <1>2, <1>3, <1>4, <1>5 DEF Next

\* The state of the jobs keeps its shape, whatever the order of requests,
\* telegrams and turns of the loop.
THEOREM JobsKeepShape == Spec => []JobsOK
  <1>1. IInv => JobsOK
    BY DEF IInv
  <1>2. QED
    BY InitHolds, StepHolds, <1>1, PTL DEF Spec

\* Whenever no job has the port, it is open on the configured line.
THEOREM PortIsGivenBack == Spec => []PortGivenBack
  <1>1. IInv => PortGivenBack
    BY DEF IInv
  <1>2. QED
    BY InitHolds, StepHolds, <1>1, PTL DEF Spec

\* beginIrPulseJob() and the guards of the others keep a pulse job alone.
THEOREM PulseIsAlone == Spec => []PulseOwnsPort
  <1>1. IInv => PulseOwnsPort
    BY DEF IInv
  <1>2. QED
    BY InitHolds, StepHolds, <1>1, PTL DEF Spec

\* Scan, readout and commissioning never overlap.
THEOREM ReadersAreApart == Spec => []OneReader
  <1>1. IInv => OneReader
    BY DEF IInv
  <1>2. QED
    BY InitHolds, StepHolds, <1>1, PTL DEF Spec

\* Commissioning never saves a protocol or a rate that is not the meter's.
THEOREM CommissioningIsRight == Spec => []CommissioningRight
  <1>1. IInv => CommissioningRight
    BY DEF IInv
  <1>2. QED
    BY InitHolds, StepHolds, <1>1, PTL DEF Spec

\* A scan reports only what it has heard, unless an unlock sequence is on.
THEOREM ScanReportIsRight == Spec => ScanConfirms
  <1>1. IInv /\ [Next]_vars =>
          [gpioScan.active /\ gpioScan'.found /\ ~apatorUnlock.active => ScanHeard]_vars
    <2> SUFFICES ASSUME IInv, [Next]_vars,
                        gpioScan.active, gpioScan'.found, ~apatorUnlock.active
                 PROVE  ScanHeard
      OBVIOUS
    <2>1. gpioScan \in ScanJob /\ ~gpioScan.found
      BY DEF IInv, JobsOK, ScanInv
    <2>2. gpioScan' # gpioScan
      BY <2>1
    <2>3. UpdateGpioScan
      <3>1. ~CancelScan
        BY <2>1 DEF CancelScan, FinishGpioScan, ScanJob
      <3>2. ~RequestScan
        BY DEF RequestScan, StartGpioScan
      <3>3. ~Reboot
        BY DEF Reboot, NoScan
      <3>4. ~(Receive \/ Age) /\ ~UNCHANGED vars
        BY <2>2 DEF Receive, Age, ReceiveTelegram, ReceiveIdentification, ReceiveDamaged,
           vars, jobs
      <3>5. Web => CancelScan \/ RequestScan
        BY <2>2 DEF Web, HandleApatorUnlock, HandleIrPin, HandleForgetPin, HandlePulseTest,
           HandleIrStop, HandleGpioTxScan, jobs
      <3>6. Loop => UpdateGpioScan
        BY <2>2 DEF Loop, UpdateIrPulseJob, UpdateApatorUnlock, UpdateActiveD0,
           UpdateMeterRecovery, ManageMeterCommissioning, jobs
      <3>7. QED
        BY <3>1, <3>2, <3>3, <3>4, <3>5, <3>6 DEF Next
    <2>4. Confirmed(1)
      BY <2>1, <2>3 DEF UpdateGpioScan, FinishGpioScan, ScanJob
    <2>5. reading.accepted > 0
      BY <2>4 DEF Confirmed, IInv, JobsOK, Reading
    <2>6. QED
      BY <2>5 DEF IInv, ScanInv
  <1>2. QED
    BY InitHolds, StepHolds, <1>1, PTL DEF Spec, ScanConfirms

-----------------------------------------------------------------------------
(* The lines the port can be open on.                                      *)

\* Every set of numbers has a least element.
LEMMA LeastExists ==
  ASSUME NEW S \in SUBSET Nat, S # {}
  PROVE  \E x \in S : \A y \in S : x <= y
  <1> DEFINE R == {p \in Nat \X Nat : p[1] < p[2]}
  <1>1. IsWellFoundedOn(R, Nat)
    BY NatLessThanWellFounded DEF OpToRel
  <1>2. PICK x \in S : \A y \in S : ~ (<<y, x>> \in R)
    BY <1>1, WFMin
  <1>3. ASSUME NEW y \in S PROVE x <= y
    <2>1. x \in Nat /\ y \in Nat
      OBVIOUS
    <2>2. ~ (y < x)
      BY <1>2, <2>1, Zenon
    <2>3. QED
      BY <2>1, <2>2
  <1>4. QED
    BY <1>3

Sorts(s, S) ==
  /\ s \in [1..Cardinality(S) -> S]
  /\ \A i, j \in 1..Cardinality(S) : i < j => s[i] < s[j]

\* The least element goes in front of the others.
LEMMA SortMore ==
  ASSUME NEW S \in SUBSET Nat, NEW m \in S, \A y \in S : m <= y,
         NEW n \in Nat, Cardinality(S) = n + 1, Cardinality(S \ {m}) = n,
         NEW r, Sorts(r, S \ {m})
  PROVE  \E s : Sorts(s, S)
  <1> DEFINE s == [i \in 1..n + 1 |-> IF i = 1 THEN m ELSE r[i - 1]]
  <1>1. r \in [1..n -> S \ {m}] /\ \A i, j \in 1..n : i < j => r[i] < r[j]
    BY DEF Sorts
  <1>2. ASSUME NEW i \in 1..n PROVE r[i] \in S /\ m < r[i]
    <2>1. r[i] \in S /\ r[i] # m
      BY <1>1
    <2>2. m <= r[i] /\ m \in Nat /\ r[i] \in Nat
      BY <2>1
    <2>3. QED
      BY <2>1, <2>2
  <1>3. s \in [1..n + 1 -> S]
    <2>1. ASSUME NEW i \in 1..n + 1 PROVE s[i] \in S
      <3>1. i # 1 => i - 1 \in 1..n
        OBVIOUS
      <3>2. QED
        BY <1>2, <3>1
    <2>2. QED
      BY <2>1
  <1>4. ASSUME NEW i \in 1..n + 1, NEW j \in 1..n + 1, i < j PROVE s[i] < s[j]
    <2>1. j # 1 /\ j - 1 \in 1..n /\ s[j] = r[j - 1]
      BY <1>4
    <2>2. CASE i = 1
      BY <1>2, <2>1, <2>2
    <2>3. CASE i # 1
      <3>1. i - 1 \in 1..n /\ i - 1 < j - 1 /\ s[i] = r[i - 1]
        BY <1>4, <2>3
      <3>2. QED
        BY <1>1, <2>1, <3>1
    <2>4. QED
      BY <2>2, <2>3
  <1> HIDE DEF s
  <1>5. Sorts(s, S)
    BY <1>3, <1>4 DEF Sorts
  <1>6. QED
    BY <1>5

\* Every finite set of numbers can be sorted: a least set that cannot would do
\* without its least element.
LEMMA SortExists ==
  ASSUME NEW S \in SUBSET Nat, IsFiniteSet(S)
  PROVE  \E s : Sorts(s, S)
  <1> DEFINE Bad == {n \in Nat : \E T \in SUBSET Nat :
                       IsFiniteSet(T) /\ Cardinality(T) = n /\ ~ \E s : Sorts(s, T)}
  <1>1. SUFFICES ASSUME Bad # {} PROVE FALSE
    <2>1. Cardinality(S) \in Nat
      BY FS_CardinalityType
    <2>2. QED
      BY <2>1
  <1>2. PICK n \in Bad : \A k \in Bad : n <= k
    BY <1>1, LeastExists
  <1>3. PICK T \in SUBSET Nat :
          IsFiniteSet(T) /\ Cardinality(T) = n /\ ~ \E s : Sorts(s, T)
    BY <1>2
  <1>4. T # {}
    <2>1. SUFFICES ASSUME T = {} PROVE FALSE
      OBVIOUS
    <2>2. Cardinality(T) = 0
      BY <2>1, FS_EmptySet
    <2>3. Sorts([i \in 1..0 |-> 0], T)
      BY <2>2 DEF Sorts
    <2>4. QED
      BY <1>3, <2>3
  <1>5. PICK m \in T : \A y \in T : m <= y
    BY <1>4, LeastExists
  <1>6. IsFiniteSet(T \ {m}) /\ Cardinality(T \ {m}) = n - 1
    BY <1>3, <1>5, FS_RemoveElement
  <1>7. n \in Nat /\ n - 1 \in Nat
    BY <1>2, <1>6, FS_CardinalityType
  <1>8. n - 1 \notin Bad
    BY <1>2, <1>7
  <1>9. PICK r : Sorts(r, T \ {m})
    <2>1. T \ {m} \in SUBSET Nat
      OBVIOUS
    <2>2. QED
      BY <1>6, <1>7, <1>8, <2>1
  <1> HIDE DEF Bad
  <1>10. n - 1 \in Nat /\ Cardinality(T) = (n - 1) + 1 /\ Cardinality(T \ {m}) = n - 1
    BY <1>3, <1>6, <1>7
  <1>11. \E s : Sorts(s, T)
    BY <1>5, <1>9, <1>10, SortMore
  <1>12. QED
    BY <1>3, <1>11

LEMMA AscendingIs ==
  ASSUME NEW S \in SUBSET Nat, IsFiniteSet(S)
  PROVE  Ascending(S) \in Seq(S) /\ Cardinality(S) \in Nat
  <1>1. Cardinality(S) \in Nat
    BY FS_CardinalityType
  <1>2. Sorts(Ascending(S), S)
    BY SortExists DEF Ascending, Sorts
  <1>3. QED
    BY <1>1, <1>2 DEF Sorts

LEMMA SeqOfSubset ==
  ASSUME NEW S, NEW T, S \subseteq T, NEW s \in Seq(S)
  PROVE  s \in Seq(T) /\ Len(s) \in Nat /\ DOMAIN s = 1..Len(s) /\ \A k \in 1..Len(s) : s[k] \in T
  <1>1. Len(s) \in Nat /\ DOMAIN s = 1..Len(s) /\ \A k \in 1..Len(s) : s[k] \in T
    OBVIOUS
  <1>2. s = [k \in 1..Len(s) |-> s[k]]
    OBVIOUS
  <1>3. QED
    BY <1>1, <1>2

LEMMA OrdersTyped ==
  ASSUME NEW baud \in Nat
  PROVE  /\ PinOrder \in Seq(Pins) /\ Len(PinOrder) >= 1
         /\ BaudOrder(baud) \in Seq(Nat) /\ Len(BaudOrder(baud)) >= 1
  <1>1. PinOrder \in Seq(Pins) /\ Len(PinOrder) >= 1
    <2> DEFINE S == Pins \ {RxPin}
    <2>1. S \in SUBSET Nat /\ S \subseteq 0..10 /\ RxPin \in Pins /\ S \subseteq Pins
      BY PinAssumption
    <2>2. IsFiniteSet(S)
      <3>1. 0 \in Int /\ 10 \in Int => IsFiniteSet(0..10)
        BY FS_Interval, Zenon
      <3>2. QED
        BY <2>1, <3>1, FS_Subset
    <2>3. PinOrder = <<RxPin>> \o Ascending(S)
      BY DEF PinOrder
    <2> HIDE DEF S
    <2>4. Ascending(S) \in Seq(Pins)
      <3>1. Ascending(S) \in Seq(S)
        BY <2>1, <2>2, AscendingIs
      <3>2. QED
        BY <2>1, <3>1, SeqOfSubset
    <2>5. QED
      BY <2>1, <2>3, <2>4
  <1>2. BaudOrder(baud) \in Seq(Nat) /\ Len(BaudOrder(baud)) >= 1
    <2> DEFINE S == {i \in DOMAIN CommonBauds : CommonBauds[i] # baud}
               others == Ascending(S)
               rest == [k \in DOMAIN others |-> CommonBauds[others[k]]]
    <2>1. /\ CommonBauds \in Seq(Nat) /\ DOMAIN CommonBauds = 1..Len(CommonBauds)
          /\ Len(CommonBauds) \in Nat /\ S \in SUBSET Nat /\ S \subseteq DOMAIN CommonBauds
      BY WorldAssumption
    <2>2. IsFiniteSet(S)
      <3>1. IsFiniteSet(1..Len(CommonBauds))
        BY <2>1, FS_Interval
      <3>2. QED
        BY <2>1, <3>1, FS_Subset
    <2>3. BaudOrder(baud) = <<baud>> \o rest
      BY DEF BaudOrder
    <2> HIDE DEF S
    <2>4. others \in Seq(S)
      BY <2>1, <2>2, AscendingIs
    <2>5. rest \in Seq(Nat)
      <3> HIDE DEF others
      <3>1. Len(others) \in Nat /\ DOMAIN others = 1..Len(others)
            /\ \A k \in 1..Len(others) : others[k] \in DOMAIN CommonBauds
        BY <2>1, <2>4, SeqOfSubset
      <3>2. QED
        BY <2>1, <3>1
    <2> HIDE DEF others, rest
    <2>6. QED
      BY <2>3, <2>5
  <1>3. QED
    BY <1>1, <1>2
\* The pin and the rate of a candidate are in their lists.
LEMMA Quotient ==
  ASSUME NEW n \in Nat, NEW d \in Nat \ {0}, NEW p \in Nat, n < p * d
  PROVE  n \div d \in 0..p - 1 /\ n % d \in 0..d - 1
  <1> DEFINE q == n \div d
  <1>1. q \in Nat /\ n % d \in 0..d - 1
    OBVIOUS
  <1>2. n = d * q + (n % d)
    BY Z3
  <1> HIDE DEF q
  <1>3. ~ (q >= p)
    <2>1. SUFFICES ASSUME q >= p PROVE FALSE
      OBVIOUS
    <2>2. d * q = d * p + d * (q - p) /\ d * (q - p) >= 0 /\ d * p = p * d
      BY <1>1, <2>1, Z3
    <2> DEFINE a == d * q
               b == p * d
               c == d * (q - p)
    <2>3. a = b + c /\ c >= 0 /\ n = a + (n % d) /\ n < b
      BY <1>2, <2>2
    <2>4. a \in Int /\ b \in Int /\ c \in Int
      BY <1>1, Z3
    <2> HIDE DEF a, b, c
    <2>5. QED
      BY <1>1, <2>3, <2>4
  <1>4. QED
    BY <1>1, <1>3 DEF q

LEMMA ScanLineTyped ==
  ASSUME NEW c, c.baud \in Nat, NEW k \in Nat \ {0},
         k <= Len(PinOrder) * Len(BaudOrder(c.baud))
  PROVE  ScanLine(c, k) \in Lines
  <1> DEFINE n == Len(PinOrder)
             bauds == BaudOrder(c.baud)
             d == Len(bauds)
  <1>1. PinOrder \in Seq(Pins) /\ bauds \in Seq(Nat) /\ d >= 1
    BY OrdersTyped
  <1>2. n \in Nat /\ d \in Nat \ {0}
    BY <1>1
  <1>3. ScanLine(c, k) = [rx |-> PinOrder[((k - 1) \div d) + 1], tx |-> -1,
                          baud |-> bauds[((k - 1) % d) + 1], mode |-> "8N1"]
    BY DEF ScanLine
  <1> DEFINE m == n * d
  <1>4. k <= m /\ m \in Nat
    BY <1>2, Z3
  <1> HIDE DEF bauds, n, d
  <1>5. k - 1 \in Nat /\ k - 1 < n * d
    <2> HIDE DEF m
    <2>1. k - 1 < m /\ k - 1 \in Nat
      BY <1>4
    <2>2. QED
      BY <2>1 DEF m
  <1>6. (k - 1) \div d \in 0..n - 1 /\ (k - 1) % d \in 0..d - 1
    BY <1>2, <1>5, Quotient
  <1>7. ((k - 1) \div d) + 1 \in 1..n /\ ((k - 1) % d) + 1 \in 1..d
    <2> DEFINE a == (k - 1) \div d
               b == (k - 1) % d
    <2>1. a \in 0..n - 1 /\ b \in 0..d - 1
      BY <1>6
    <2> HIDE DEF a, b
    <2>2. a + 1 \in 1..n /\ b + 1 \in 1..d
      BY <1>2, <2>1
    <2>3. QED
      BY <2>2 DEF a, b
  <1>8. PinOrder[((k - 1) \div d) + 1] \in Pins /\ bauds[((k - 1) % d) + 1] \in Nat
    BY <1>1, <1>7 DEF n, d
  <1>9. QED
    BY <1>3, <1>8 DEF Lines, Modes

LEMMA LinesTyped ==
  /\ D0Line \in Lines
  /\ \A c \in [protocol : Protocols, baud : Nat] : ConfiguredLine(c) \in Lines
  /\ \A k \in 1..Len(AutoSerialCandidates) : CommissioningLine(k) \in Lines
  <1>1. D0Line \in Lines
    BY PinAssumption DEF D0Line, Lines, Modes
  <1>2. ASSUME NEW c \in [protocol : Protocols, baud : Nat] PROVE ConfiguredLine(c) \in Lines
    <2>1. meterBaud(c) \in Nat /\ meterSerialMode(c) \in Modes
      BY DEF meterBaud, meterSerialMode, Modes
    <2>2. QED
      BY <2>1, PinAssumption DEF ConfiguredLine, Lines
  <1>3. ASSUME NEW k \in 1..Len(AutoSerialCandidates) PROVE CommissioningLine(k) \in Lines
    <2>1. AutoSerialCandidates[k].baud \in Nat /\ AutoSerialCandidates[k].mode \in Modes
      BY CandidateCount DEF AutoSerialCandidates, Modes
    <2>2. QED
      BY <2>1, PinAssumption DEF CommissioningLine, Lines
  <1>4. QED
    BY <1>1, <1>2, <1>3

-----------------------------------------------------------------------------
(* Types.                                                                  *)

\* A scan does not run off the end of its candidates.
PortInv ==
  /\ config \in [protocol : Protocols, baud : Nat]
  /\ port \in Lines \cup {NoLine}
  /\ meterPin \in BOOLEAN
  /\ requests \in 0..MaxRequests
  /\ gpioScan.active => gpioScan.candidate <= ScanTotal

LEMMA PortInit == Init => PortInv
  <1> SUFFICES ASSUME Init PROVE PortInv
    OBVIOUS
  <1>1. config \in [protocol : Protocols, baud : Nat]
    BY WorldAssumption DEF Init
  <1>2. port \in Lines /\ ~ gpioScan.active /\ requests \in 0..MaxRequests /\ meterPin \in BOOLEAN
    BY <1>1, LinesTyped, JobAssumption DEF Init, NoScan
  <1>3. QED
    BY <1>1, <1>2 DEF PortInv

\* A step that begins no scan and leaves the configuration alone.
LEMMA PortStays ==
  ASSUME PortInv, config' = config, meterPin' \in BOOLEAN, requests' \in 0..MaxRequests,
         port' \in {port, NoLine, D0Line, ConfiguredLine(config)},
         gpioScan'.active => gpioScan' = gpioScan
  PROVE  PortInv'
  <1>1. port' \in Lines \cup {NoLine}
    BY LinesTyped DEF PortInv
  <1>2. QED
    BY <1>1 DEF PortInv, ScanTotal

LEMMA PortStep == IInv /\ PortInv /\ [Next]_vars => PortInv'
  <1> SUFFICES ASSUME IInv, PortInv, [Next]_vars PROVE PortInv'
    OBVIOUS
  <1>0. /\ config \in [protocol : Protocols, baud : Nat] /\ config.baud \in Nat
        /\ meterPin \in BOOLEAN /\ requests \in 0..MaxRequests
        /\ port \in Lines \cup {NoLine} /\ requests \in Nat /\ MaxRequests \in Nat
        /\ gpioScan \in ScanJob /\ gpioScan.candidate \in Nat \ {0}
        /\ meterCommissioning.candidate \in 1..Len(AutoSerialCandidates)
        /\ meterCommissioning.active => ~ gpioScan.active
    BY JobAssumption DEF PortInv, IInv, JobsOK, ScanJob, CommissioningJob, OneReader
  <1>1. Request => requests' \in 0..MaxRequests
    BY <1>0 DEF Request
  <1>2. ASSUME NEW k \in Nat \ {0}, k <= ScanTotal, config' = config, meterPin' = meterPin,
               requests' \in 0..MaxRequests, port' = ScanLine(config, k),
               gpioScan'.candidate = k
        PROVE  PortInv'
    <2>1. port' \in Lines
      BY <1>0, <1>2, ScanLineTyped DEF ScanTotal
    <2>2. QED
      BY <1>0, <1>2, <2>1 DEF PortInv, ScanTotal
  <1>3. ScanTotal \in Nat /\ ScanTotal >= 1
    <2>0. /\ PinOrder \in Seq(Pins) /\ Len(PinOrder) >= 1
          /\ BaudOrder(config.baud) \in Seq(Nat) /\ Len(BaudOrder(config.baud)) >= 1
      BY <1>0, OrdersTyped, Zenon
    <2> DEFINE a == Len(PinOrder)
               b == Len(BaudOrder(config.baud))
    <2>1. a \in Nat /\ b \in Nat /\ a >= 1 /\ b >= 1
      BY <2>0, SMT
    <2>2. ScanTotal = a * b
      BY DEF ScanTotal
    <2> HIDE DEF a, b
    <2>3. a * b \in Nat /\ a * b >= 1
      BY <2>1, Z3
    <2>4. QED
      BY <2>2, <2>3
  <1>4. CASE UpdateIrPulseJob \/ UpdateApatorUnlock \/ UpdateActiveD0 \/ UpdateMeterRecovery
    BY <1>0, <1>4, PortStays
    DEF UpdateIrPulseJob, NextPulse, FinishIrPulseJob, Restore, UpdateApatorUnlock,
        BeginIrPulseCount, BeginIrPulseJob, UpdateActiveD0, BeginActiveD0, Acknowledge,
        FinishActiveD0, UpdateMeterRecovery, jobs
  <1>5. CASE UpdateGpioScan
    <2>1. CASE \E found : FinishGpioScan(found)
      <3>1. ~ gpioScan'.active
        BY <1>0, <2>1 DEF FinishGpioScan, ScanJob
      <3>2. QED
        BY <1>0, <1>5, <2>1, <3>1, PortStays DEF UpdateGpioScan, FinishGpioScan, Restore
    <2>2. CASE /\ gpioScan.candidate < ScanTotal
               /\ gpioScan' = [gpioScan EXCEPT !.candidate = @ + 1]
               /\ BeginGpioScanCandidate(gpioScan.candidate + 1, driven)
      <3>1. gpioScan'.candidate = gpioScan.candidate + 1
        BY <1>0, <2>2 DEF ScanJob
      <3>2. gpioScan.candidate + 1 \in Nat \ {0} /\ gpioScan.candidate + 1 <= ScanTotal
        BY <1>0, <1>3, <2>2
      <3>3. QED
        BY <1>0, <1>2, <1>5, <2>2, <3>1, <3>2 DEF UpdateGpioScan, BeginGpioScanCandidate
    <2>3. QED
      BY <1>5, <2>1, <2>2 DEF UpdateGpioScan
  <1>6. ASSUME NEW k \in 1..Len(AutoSerialCandidates), BeginMeterCommissioningCandidate(k),
               UNCHANGED <<config, meterPin, gpioScan, requests>>
        PROVE  PortInv'
    BY <1>0, <1>6, LinesTyped DEF BeginMeterCommissioningCandidate, PortInv, ScanTotal
  <1>7. CASE ManageMeterCommissioning(StartMeterCommissioning)
    BY <1>6, <1>7, CandidateCount DEF ManageMeterCommissioning, StartMeterCommissioning
  <1>8. CASE ManageMeterCommissioning(StepMeterCommissioning)
    <2>1. ASSUME NEW found, FinishMeterCommissioning(found), meterCommissioning.active,
                 UNCHANGED <<meterPin, gpioScan, requests>>
          PROVE  PortInv'
      <3>1. FoundConfig \in [protocol : Protocols, baud : Nat]
        <4>1. reading.detected \in Protocols
          BY DEF IInv, JobsOK, Reading, Protocols
        <4>2. AutoSerialCandidates[meterCommissioning.candidate].baud \in Nat
          BY <1>0, CandidateCount DEF AutoSerialCandidates
        <4>3. QED
          BY <4>1, <4>2 DEF FoundConfig
      <3>2. config' \in [protocol : Protocols, baud : Nat]
        BY <1>0, <2>1, <3>1 DEF FinishMeterCommissioning
      <3>3. port' \in Lines
        BY <2>1, <3>2, LinesTyped DEF FinishMeterCommissioning, Restore
      <3>4. QED
        BY <1>0, <2>1, <3>2, <3>3 DEF PortInv
    <2>2. meterCommissioning.candidate < Len(AutoSerialCandidates)
            => meterCommissioning.candidate + 1 \in 1..Len(AutoSerialCandidates)
      BY <1>0, CandidateCount
    <2>3. QED
      BY <1>6, <1>8, <2>1, <2>2 DEF ManageMeterCommissioning, StepMeterCommissioning
  <1>9. CASE Receive \/ Age \/ UNCHANGED vars
    BY <1>0, <1>9, PortStays
    DEF Receive, ReceiveTelegram, ReceiveIdentification, ReceiveDamaged, Age, vars, jobs
  <1>10. CASE HandleApatorUnlock \/ HandleIrPin \/ HandleForgetPin \/ HandlePulseTest
              \/ HandleIrStop \/ HandleGpioTxScan
    BY <1>0, <1>1, <1>10, PortStays
    DEF HandleApatorUnlock, HandleIrPin, HandleForgetPin, HandlePulseTest, HandleIrStop,
        HandleGpioTxScan, BeginIrPulseJob, FinishIrPulseJob, Restore, jobs
  <1>11. CASE RequestScan
    <2>1. gpioScan'.candidate = 1 /\ port' = ScanLine(config, 1)
      BY <1>11, NewJobs DEF RequestScan, StartGpioScan, BeginGpioScanCandidate
    <2>2. QED
      BY <1>1, <1>2, <1>3, <1>11, <2>1 DEF RequestScan
  <1>12. CASE CancelScan
    <2>1. ~ gpioScan'.active
      BY <1>0, <1>12 DEF CancelScan, FinishGpioScan, ScanJob
    <2>2. QED
      BY <1>0, <1>1, <1>12, <2>1, PortStays DEF CancelScan, FinishGpioScan, Restore
  <1>13. CASE Reboot
    <2>1. config' \in [protocol : Protocols, baud : Nat]
      BY <1>0, <1>13, WorldAssumption DEF Reboot
    <2>2. port' \in Lines /\ ~ gpioScan'.active
      BY <1>13, <2>1, LinesTyped DEF Reboot, NoScan
    <2>3. QED
      BY <1>0, <1>1, <1>13, <2>1, <2>2 DEF Reboot, PortInv
  <1>14. QED
    BY <1>4, <1>5, <1>7, <1>8, <1>9, <1>10, <1>11, <1>12, <1>13 DEF Next, Loop, Web

\* The state keeps its shape: the port is open on a line that exists or closed,
\* and a scan stays within its candidates.
THEOREM TypeCorrect == Spec => []TypeOK
  <1>1. IInv /\ PortInv => TypeOK
    BY DEF IInv, PortInv, TypeOK
  <1>2. QED
    BY InitHolds, StepHolds, PortInit, PortStep, <1>1, PTL DEF Spec

=============================================================================
