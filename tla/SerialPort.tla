----------------------------- MODULE SerialPort -----------------------------
(***************************************************************************)
(* The one UART of the tracker and everything that takes it over: the      *)
(* normal reception, the active D0 readout, the automatic commissioning,   *)
(* the GPIO scan, and the jobs that pulse an output pin while the UART is   *)
(* closed (meter/, diagnostics/GpioScanner.cpp).                           *)
(*                                                                         *)
(* All of them run in loop(): an action is one call of a web handler or of *)
(* one of the update functions.  Nothing locks the port; each function     *)
(* looks at the flags of some of the others, and the properties ask        *)
(* whether those guards add up.  Timers are abstracted: what waits for one *)
(* may happen at any later step.                                           *)
(***************************************************************************)
EXTENDS Integers, FiniteSets, Sequences

CONSTANTS
  Pins,           \* GPIOs for which trackerGpioAvailable() holds
  RxPin, TxPin,   \* config.rxPin and config.txPin; a negative TxPin is "none"
  CommonBauds,    \* the rates startGpioScan() tries after the configured one
  Meters,         \* the meters, and wirings of them, the tracker may be given
  Configs,        \* the protocol and rate a user may have saved
  PinDigits,      \* digits of a PIN
  PulsesPerDigit, \* pulses of a digit
  RunsCommissioning, \* whether the loop calls manageProductRuntime()
  MaxRequests     \* web requests and reboots of one behaviour

Protocols == {"Auto", "Sml", "Iec62056", "Iec62056Active"}
Modes == {"8N1", "7E1"}
Lines == [rx : Pins, tx : Pins \cup {-1}, baud : Nat, mode : Modes]
NoLine == [rx |-> -1, tx |-> -1, baud |-> 0, mode |-> "none"]

\* What a meter sends: SML is framed 8N1 and D0 7E1.  A meter that is asked
\* (a D0 meter without push) speaks only during an active readout.
Meter == [pin : Pins, baud : Nat, kind : {"Sml", "Iec62056"}, asked : BOOLEAN]

ASSUME PinAssumption ==
  /\ Pins \subseteq 0..10
  /\ RxPin \in Pins
  /\ TxPin \in Pins \cup {-1}
ASSUME WorldAssumption ==
  /\ CommonBauds \in Seq(Nat)
  /\ Meters \subseteq Meter
  /\ Configs \subseteq [protocol : Protocols, baud : Nat]
  /\ RunsCommissioning \in BOOLEAN
ASSUME JobAssumption ==
  /\ PinDigits \in Nat \ {0}
  /\ PulsesPerDigit \in Nat \ {0}
  /\ MaxRequests \in Nat

VARIABLES
  config,             \* meterProtocol and baud, saved in flash
  meterPin,           \* whether a meter PIN is saved
  port,               \* what meterSerial listens to, or NoLine when it is closed
  driven,             \* pins left in mode OUTPUT by a job, and not to the UART
  irPulse,            \* the pulse job
  apatorUnlock,       \* the unlock sequence
  gpioScan,           \* the search for the input pin
  activeD0,           \* the active readout
  meterCommissioning, \* the automatic detection
  reading,            \* what is known of the telegrams received so far
  wired,              \* the meter in front of the tracker
  requests            \* requests so far

jobs == <<irPulse, apatorUnlock, gpioScan, activeD0, meterCommissioning>>
vars == <<config, meterPin, port, driven, jobs, reading, wired, requests>>

-----------------------------------------------------------------------------
(* Lines and the configured line.                                          *)

meterBaud(c) == IF c.protocol = "Iec62056Active" THEN 300 ELSE c.baud

meterSerialMode(c) ==
  IF c.protocol \in {"Iec62056", "Iec62056Active"} THEN "7E1" ELSE "8N1"

ConfiguredLine(c) ==
  [rx |-> RxPin, tx |-> TxPin, baud |-> meterBaud(c), mode |-> meterSerialMode(c)]

\* The UART takes its output pin from whoever drove it, and its input is one.
Taken(pins, line) == pins \ {line.rx, line.tx}

\* restoreConfiguredMeterSerial(), from the pins in mode OUTPUT.
Restore(c, pins) ==
  /\ port' = ConfiguredLine(c)
  /\ driven' = Taken(pins, ConfiguredLine(c))

\* resetMeterParsers() drops an identification that was not answered yet.
ParsersReset(r) == [r EXCEPT !.identified = FALSE]

-----------------------------------------------------------------------------
(* The jobs when they are not running, and what they try.                  *)

NoPulse == [active |-> FALSE, output |-> FALSE, pin |-> -1, left |-> 0, digits |-> 0]
NoUnlock == [active |-> FALSE, phase |-> 0, verifying |-> FALSE]
NoScan == [active |-> FALSE, complete |-> FALSE, found |-> FALSE, candidate |-> 1]
NoD0 == [active |-> FALSE, acknowledged |-> FALSE]
NoCommissioning == [started |-> FALSE, active |-> FALSE, found |-> FALSE, candidate |-> 1]

\* A set of numbers in ascending order (SetToSortSeq by its specification, so
\* that it can be reasoned about).
Ascending(S) ==
  CHOOSE s \in [1..Cardinality(S) -> S] :
    \A i, j \in 1..Cardinality(S) : i < j => s[i] < s[j]

PinOrder == <<RxPin>> \o Ascending(Pins \ {RxPin})
BaudOrder(baud) ==
  LET others == Ascending({i \in DOMAIN CommonBauds : CommonBauds[i] # baud})
  IN  <<baud>> \o [k \in DOMAIN others |-> CommonBauds[others[k]]]
ScanTotal == Len(PinOrder) * Len(BaudOrder(config.baud))
ScanLine(c, k) ==
  LET bauds == BaudOrder(c.baud)
  IN  [rx |-> PinOrder[((k - 1) \div Len(bauds)) + 1], tx |-> -1,
       baud |-> bauds[((k - 1) % Len(bauds)) + 1], mode |-> "8N1"]

D0Line == [rx |-> RxPin, tx |-> TxPin, baud |-> 300, mode |-> "7E1"]

AutoSerialCandidates ==
  << [baud |-> 9600, mode |-> "8N1"], [baud |-> 9600, mode |-> "7E1"],
     [baud |-> 300, mode |-> "7E1"], [baud |-> 2400, mode |-> "7E1"],
     [baud |-> 115200, mode |-> "8N1"] >>
CommissioningLine(k) ==
  [rx |-> RxPin, tx |-> TxPin,
   baud |-> AutoSerialCandidates[k].baud, mode |-> AutoSerialCandidates[k].mode]

meterCommissioningOwnsSerial == meterCommissioning.active

meterCommissioningProtocol ==
  IF AutoSerialCandidates[meterCommissioning.candidate].mode = "8N1"
  THEN "Sml" ELSE "Iec62056"

-----------------------------------------------------------------------------
(* Reception.                                                              *)

Fresh == reading.age = "fresh"

\* shouldFeedSmlParser() and shouldFeedD0Parser(): in Auto mode a fresh
\* telegram of one protocol keeps the bytes from the other parser.
Feeds(kind) ==
  IF meterCommissioningOwnsSerial THEN kind = meterCommissioningProtocol
  ELSE CASE config.protocol = "Auto" -> ~(Fresh /\ reading.detected \notin {"Auto", kind})
         [] config.protocol = "Sml"  -> kind = "Sml"
         [] OTHER                    -> kind = "Iec62056"

\* parserIntegrityIsActive(): whose checksum errors count.
IntegrityIsActive(kind) ==
  CASE config.protocol = "Sml"  -> kind = "Sml"
    [] config.protocol = "Auto" -> reading.detected = "Auto" \/ ~Fresh \/ reading.detected = kind
    [] OTHER                    -> kind = "Iec62056"

\* serviceMeterInput() reads nothing while a pulse job is on.
Listening == port # NoLine /\ ~irPulse.active

\* The D0 parser drops the eighth bit, so it reads 7E1 on an 8N1 line as well.
Hears(m) ==
  /\ Listening
  /\ port.rx = m.pin
  /\ port.baud = m.baud
  /\ m.kind = "Sml" => port.mode = "8N1"

\* commitMeterCandidate(): a complete, checked and plausible telegram.
ReceiveTelegram ==
  /\ Hears(wired) /\ Feeds(wired.kind)
  /\ wired.asked => activeD0.active /\ activeD0.acknowledged
  /\ reading' = [reading EXCEPT !.detected = wired.kind, !.age = "fresh",
                                !.crcValid = TRUE,
                                !.accepted = IF @ = 2 THEN 2 ELSE @ + 1]
  /\ UNCHANGED <<config, meterPin, port, driven, jobs, wired, requests>>

\* The answer of a D0 meter to the request of an active readout.
ReceiveIdentification ==
  /\ Hears(wired) /\ Feeds("Iec62056")
  /\ wired.asked /\ activeD0.active /\ ~activeD0.acknowledged
  /\ reading' = [reading EXCEPT !.identified = TRUE]
  /\ UNCHANGED <<config, meterPin, port, driven, jobs, wired, requests>>

\* A frame whose checksum is wrong, from the meter or from stray light.
ReceiveDamaged ==
  /\ Listening
  /\ \E kind \in {"Sml", "Iec62056"} : Feeds(kind) /\ IntegrityIsActive(kind)
  /\ reading' = [reading EXCEPT !.crcValid = FALSE]
  /\ UNCHANGED <<config, meterPin, port, driven, jobs, wired, requests>>

\* The last telegram is older than kReadingStaleMs, then than kMeterRecoveryMs.
Age ==
  /\ reading.age # "lost"
  /\ reading' = [reading EXCEPT !.age = IF Fresh THEN "stale" ELSE "lost"]
  /\ UNCHANGED <<config, meterPin, port, driven, jobs, wired, requests>>

-----------------------------------------------------------------------------
(* Pulse jobs.                                                             *)

PulseOn(pin, digits) ==
  [active |-> TRUE, output |-> FALSE, pin |-> pin,
   left |-> PulsesPerDigit, digits |-> digits - 1]

\* finishIrPulseJob(): the test pin becomes an input again.
FinishIrPulseJob ==
  /\ irPulse' = [irPulse EXCEPT !.active = FALSE, !.output = FALSE]
  /\ Restore(config, driven \ {irPulse.pin})
  /\ reading' = ParsersReset(reading)

\* finishActiveD0Attempt() as other jobs call it: it restores the configured
\* line in Auto mode only, and the caller takes the port right after.
PinsAfterD0 ==
  IF activeD0.active /\ config.protocol = "Auto"
  THEN Taken(driven, ConfiguredLine(config)) ELSE driven

MayPulse(pin) ==
  /\ ~meterCommissioningOwnsSerial
  /\ pin >= 0 /\ pin # RxPin
  /\ ~irPulse.active /\ ~gpioScan.active

\* Mutant: a pulse job does not end the readout it interrupts.
BesideReadout(pin, digits) ==
  /\ MayPulse(pin)
  /\ port' = NoLine
  /\ driven' = driven \cup {pin}
  /\ irPulse' = PulseOn(pin, digits)
  /\ UNCHANGED <<activeD0, reading>>

BeginIrPulseJob(pin, digits) ==
  /\ MayPulse(pin)
  /\ activeD0' = NoD0
  /\ port' = NoLine
  /\ driven' = PinsAfterD0 \cup {pin}
  /\ irPulse' = PulseOn(pin, digits)
  /\ reading' = IF activeD0.active /\ config.protocol = "Auto"
                THEN ParsersReset(reading) ELSE reading

\* The unlock's own pulses: a running scan or readout is not looked at.
BeginIrPulseCount ==
  /\ ~meterCommissioningOwnsSerial
  /\ TxPin >= 0
  /\ ~irPulse.active
  /\ port' = NoLine
  /\ driven' = driven \cup {TxPin}
  /\ irPulse' = PulseOn(TxPin, 1)
  /\ UNCHANGED <<activeD0, reading>>

\* Mutant: the end of the last digit is missed.
EndlessPulse ==
  /\ irPulse.active
  /\ irPulse' = [irPulse EXCEPT !.output = ~@,
                                !.left = IF @ = 0 THEN PulsesPerDigit ELSE @ - 1]
  /\ UNCHANGED <<port, driven, reading>>

\* Mutant: a digit more is begun after the last one.
DigitTooMany ==
  /\ irPulse.active
  /\ \/ /\ ~irPulse.output /\ irPulse.left > 0
        /\ irPulse' = [irPulse EXCEPT !.output = TRUE, !.left = @ - 1]
     \/ /\ irPulse.output
        /\ irPulse' = [irPulse EXCEPT !.output = FALSE]
     \/ /\ ~irPulse.output /\ irPulse.left = 0 /\ irPulse.digits >= 0
        /\ irPulse' = [irPulse EXCEPT !.left = PulsesPerDigit, !.digits = @ - 1]
  /\ UNCHANGED <<port, driven, reading>>

NextPulse ==
  /\ irPulse.active
  /\ \/ /\ ~irPulse.output /\ irPulse.left > 0
        /\ irPulse' = [irPulse EXCEPT !.output = TRUE, !.left = @ - 1]
     \/ /\ irPulse.output
        /\ irPulse' = [irPulse EXCEPT !.output = FALSE]
     \/ /\ ~irPulse.output /\ irPulse.left = 0 /\ irPulse.digits > 0
        /\ irPulse' = [irPulse EXCEPT !.left = PulsesPerDigit, !.digits = @ - 1]
  /\ UNCHANGED <<port, driven, reading>>

UpdateIrPulseJob ==
  /\ \/ NextPulse
     \/ /\ irPulse.active /\ ~irPulse.output
        /\ irPulse.left = 0 /\ irPulse.digits = 0
        /\ FinishIrPulseJob
  /\ UNCHANGED <<config, meterPin, apatorUnlock, gpioScan, activeD0,
                 meterCommissioning, wired, requests>>

-----------------------------------------------------------------------------
(* The unlock sequence: two pulses, the PIN, thirteen pulses and a long    *)
(* one, with pauses, then up to 90 s of waiting for the power.             *)

UnlockPhase(n) == apatorUnlock' = [apatorUnlock EXCEPT !.phase = n]

UpdateApatorUnlock ==
  /\ apatorUnlock.active /\ ~irPulse.active
  /\ \/ /\ apatorUnlock.phase \in {1, 5, 7}
        /\ BeginIrPulseCount
        /\ UnlockPhase(apatorUnlock.phase + 1)
     \/ /\ apatorUnlock.phase = 3
        /\ BeginIrPulseJob(TxPin, PinDigits)
        /\ UnlockPhase(4)
     \/ /\ apatorUnlock.phase \in {2, 4, 6}
        /\ UnlockPhase(apatorUnlock.phase + 1)
        /\ UNCHANGED <<irPulse, activeD0, port, driven, reading>>
     \/ /\ apatorUnlock.phase = 8
        /\ \/ /\ ~apatorUnlock.verifying
              /\ apatorUnlock' = [apatorUnlock EXCEPT !.verifying = TRUE]
           \/ /\ apatorUnlock.verifying     \* power received, or 90 s over
              /\ apatorUnlock' = [apatorUnlock EXCEPT !.active = FALSE]
        /\ UNCHANGED <<irPulse, activeD0, port, driven, reading>>
  /\ UNCHANGED <<config, meterPin, gpioScan, meterCommissioning, wired, requests>>

-----------------------------------------------------------------------------
(* The active readout and the recovery of a silent port.                   *)

\* beginActiveD0Attempt(): the request is written at 300 baud.
BeginActiveD0 ==
  /\ ~activeD0.active
  /\ \/ config.protocol = "Iec62056Active"
     \/ config.protocol = "Auto" /\ reading.age = "lost"
  /\ ~meterCommissioningOwnsSerial
  /\ TxPin >= 0
  /\ ~irPulse.active /\ ~gpioScan.active /\ ~apatorUnlock.active
  /\ port' = D0Line
  /\ driven' = Taken(driven, D0Line)
  /\ activeD0' = [active |-> TRUE, acknowledged |-> FALSE]
  /\ reading' = ParsersReset(reading)

\* Mutant: the port stays at 300 baud after a readout.
KeepD0Line ==
  /\ activeD0' = NoD0
  /\ UNCHANGED <<port, driven, reading>>

\* finishActiveD0Attempt() at the end of a readout.
FinishActiveD0 ==
  /\ activeD0' = NoD0
  /\ IF config.protocol = "Auto"
     THEN Restore(config, driven) /\ reading' = ParsersReset(reading)
     ELSE UNCHANGED <<port, driven, reading>>

Acknowledge ==
  /\ ~activeD0.acknowledged /\ reading.identified
  /\ activeD0' = [activeD0 EXCEPT !.acknowledged = TRUE]
  /\ reading' = [reading EXCEPT !.identified = FALSE]
  /\ UNCHANGED <<port, driven>>

\* An acknowledgement and the end of the readout in one call are two steps
\* here with nothing in between.  The end is the answer or kActiveD0TimeoutMs.
UpdateActiveD0 ==
  /\ \/ BeginActiveD0
     \/ activeD0.active /\ (Acknowledge \/ FinishActiveD0)
  /\ UNCHANGED <<config, meterPin, irPulse, apatorUnlock, gpioScan,
                 meterCommissioning, wired, requests>>

\* updateMeterRecovery(): nothing valid for kMeterRecoveryMs.
UpdateMeterRecovery ==
  /\ reading.age = "lost"
  /\ ~meterCommissioningOwnsSerial
  /\ ~activeD0.active /\ ~gpioScan.active /\ ~irPulse.active /\ ~apatorUnlock.active
  /\ Restore(config, driven)
  /\ reading' = ParsersReset(reading)
  /\ UNCHANGED <<config, meterPin, jobs, wired, requests>>

-----------------------------------------------------------------------------
(* The GPIO scan.                                                          *)

\* Mutant: the telegrams of the last candidate count for the next one.
KeepBaseline(k, pins) ==
  /\ port' = ScanLine(config, k)
  /\ driven' = Taken(pins, ScanLine(config, k))
  /\ reading' = ParsersReset(reading)

\* beginGpioScanCandidate() for a candidate that exists.
BeginGpioScanCandidate(k, pins) ==
  /\ port' = ScanLine(config, k)
  /\ driven' = Taken(pins, ScanLine(config, k))
  /\ reading' = [ParsersReset(reading) EXCEPT !.accepted = 0]

\* finishGpioScan(): what was found is the candidate it ends with.
FinishGpioScan(found) ==
  /\ gpioScan' = [gpioScan EXCEPT !.active = FALSE, !.complete = TRUE, !.found = found]
  /\ Restore(config, driven)
  /\ reading' = ParsersReset(reading)

\* Mutant: a scan starts beside a running readout.
ScanBesideReadout ==
  /\ ~meterCommissioningOwnsSerial /\ ~gpioScan.active
  /\ irPulse' = [irPulse EXCEPT !.active = FALSE]
  /\ apatorUnlock' = [apatorUnlock EXCEPT !.active = FALSE]
  /\ gpioScan' = [NoScan EXCEPT !.active = TRUE]
  /\ BeginGpioScanCandidate(1, driven)
  /\ UNCHANGED activeD0

\* startGpioScan(): pulses and unlock are simply marked as over.
StartGpioScan ==
  /\ ~meterCommissioningOwnsSerial /\ ~gpioScan.active
  /\ activeD0' = NoD0
  /\ irPulse' = [irPulse EXCEPT !.active = FALSE]
  /\ apatorUnlock' = [apatorUnlock EXCEPT !.active = FALSE]
  /\ gpioScan' = [NoScan EXCEPT !.active = TRUE]
  /\ BeginGpioScanCandidate(1, PinsAfterD0)

Confirmed(telegrams) == reading.accepted >= telegrams /\ reading.crcValid

UpdateGpioScan ==
  /\ gpioScan.active
  /\ \/ /\ Confirmed(1)
        /\ FinishGpioScan(TRUE)
     \/ /\ ~Confirmed(1)                    \* kGpioScanWindowMs is over
        /\ \/ /\ gpioScan.candidate < ScanTotal
              /\ gpioScan' = [gpioScan EXCEPT !.candidate = @ + 1]
              /\ BeginGpioScanCandidate(gpioScan.candidate + 1, driven)
           \/ /\ gpioScan.candidate = ScanTotal
              /\ FinishGpioScan(FALSE)
  /\ UNCHANGED <<config, meterPin, irPulse, apatorUnlock, activeD0,
                 meterCommissioning, wired, requests>>

-----------------------------------------------------------------------------
(* Automatic commissioning.                                                *)

\* Mutant: both telegrams need not have come at the same rate.
CountAcrossCandidates(k) ==
  /\ port' = CommissioningLine(k)
  /\ driven' = Taken(driven, CommissioningLine(k))
  /\ reading' = ParsersReset(reading)

BeginMeterCommissioningCandidate(k) ==
  /\ port' = CommissioningLine(k)
  /\ driven' = Taken(driven, CommissioningLine(k))
  /\ reading' = [ParsersReset(reading) EXCEPT !.accepted = 0]

\* startMeterCommissioning(); whether safe recovery is on is a free choice.
StartMeterCommissioning ==
  /\ ~meterCommissioning.started /\ ~Fresh
  /\ config.protocol = "Auto"
  /\ ~gpioScan.active /\ ~irPulse.active /\ ~apatorUnlock.active /\ ~activeD0.active
  /\ meterCommissioning' =
       [started |-> TRUE, active |-> TRUE, found |-> FALSE, candidate |-> 1]
  /\ BeginMeterCommissioningCandidate(1)
  /\ UNCHANGED config

\* Whether the detected protocol is the one its candidate can carry.
Unambiguous == reading.detected = meterCommissioningProtocol

FoundConfig == [protocol |-> reading.detected,
                baud |-> AutoSerialCandidates[meterCommissioning.candidate].baud]

\* Mutant: the port is restored before the configuration is changed.
RestoreThenSave(found) ==
  /\ meterCommissioning' = [meterCommissioning EXCEPT !.active = FALSE, !.found = found]
  /\ config' = IF found THEN FoundConfig ELSE config
  /\ Restore(config, driven)
  /\ reading' = ParsersReset(reading)

\* finishMeterCommissioning(): what was found is saved, and then opened.
FinishMeterCommissioning(found) ==
  /\ meterCommissioning' = [meterCommissioning EXCEPT !.active = FALSE, !.found = found]
  /\ config' = IF found THEN FoundConfig ELSE config
  /\ Restore(config', driven)
  /\ reading' = ParsersReset(reading)

StepMeterCommissioning ==
  /\ meterCommissioning.active
  /\ \/ /\ Confirmed(2)
        /\ FinishMeterCommissioning(Unambiguous)
     \/ /\ ~Confirmed(2)                    \* kAutoSerialWindowMs is over
        /\ \/ /\ meterCommissioning.candidate < Len(AutoSerialCandidates)
              /\ meterCommissioning' = [meterCommissioning EXCEPT !.candidate = @ + 1]
              /\ BeginMeterCommissioningCandidate(meterCommissioning.candidate + 1)
              /\ UNCHANGED config
           \/ /\ meterCommissioning.candidate = Len(AutoSerialCandidates)
              /\ FinishMeterCommissioning(FALSE)

\* manageMeterCommissioning(), which manageProductRuntime() calls.  The native
\* tests drive it; the loop of main.cpp does not call manageProductRuntime().
ManageMeterCommissioning(Step) ==
  /\ RunsCommissioning
  /\ Step
  /\ UNCHANGED <<meterPin, irPulse, apatorUnlock, gpioScan, activeD0, wired, requests>>

-----------------------------------------------------------------------------
(* Web requests.                                                           *)

Request == requests < MaxRequests /\ requests' = requests + 1

HandleApatorUnlock ==
  /\ Request
  /\ ~meterCommissioningOwnsSerial /\ ~apatorUnlock.active /\ ~irPulse.active
  /\ meterPin /\ TxPin >= 0
  /\ apatorUnlock' = [active |-> TRUE, phase |-> 1, verifying |-> FALSE]
  /\ UNCHANGED <<config, meterPin, port, driven, irPulse, gpioScan, activeD0,
                 meterCommissioning, reading, wired>>

\* The PIN is saved before the job is accepted or refused.
HandleIrPin ==
  /\ Request
  /\ meterPin' \in {meterPin, TRUE}
  /\ \/ BeginIrPulseJob(TxPin, PinDigits)
     \/ ~MayPulse(TxPin) /\ UNCHANGED <<activeD0, port, driven, irPulse, reading>>
  /\ UNCHANGED <<config, apatorUnlock, gpioScan, meterCommissioning, wired>>

HandleForgetPin ==
  /\ Request
  /\ meterPin' = FALSE
  /\ UNCHANGED <<config, port, driven, jobs, reading, wired>>

\* handleIrPulse() on the IR output, handleGpioOutputTest() on any other pin.
HandlePulseTest ==
  /\ Request
  /\ \E pin \in Pins : BeginIrPulseJob(pin, 1)
  /\ UNCHANGED <<config, meterPin, apatorUnlock, gpioScan, meterCommissioning, wired>>

HandleIrStop ==
  /\ Request
  /\ irPulse.active
  /\ FinishIrPulseJob
  /\ UNCHANGED <<config, meterPin, apatorUnlock, gpioScan, activeD0,
                 meterCommissioning, wired>>

\* handleGpioTxScan() does not return before it has restored the port: the
\* pins it has tried, and the input it was given, are inputs afterwards.
HandleGpioTxScan ==
  /\ Request
  /\ ~meterCommissioningOwnsSerial /\ ~gpioScan.active /\ ~irPulse.active
  /\ \E rx \in Pins : \E tried \in SUBSET (Pins \ {rx}) :
       Restore(config, driven \ (tried \cup {rx}))
  /\ reading' = ParsersReset(reading)
  /\ UNCHANGED <<config, meterPin, jobs, wired>>

RequestScan ==
  /\ Request
  /\ StartGpioScan
  /\ UNCHANGED <<config, meterPin, meterCommissioning, wired>>

CancelScan ==
  /\ Request
  /\ gpioScan.active
  /\ FinishGpioScan(FALSE)
  /\ UNCHANGED <<config, meterPin, irPulse, apatorUnlock, activeD0,
                 meterCommissioning, wired>>

NoReading == [detected |-> "Auto", age |-> "lost", accepted |-> 0,
              crcValid |-> FALSE, identified |-> FALSE]

\* Settings are saved and applied by a restart; setup() opens the port.
Reboot ==
  /\ Request
  /\ config' \in Configs \cup {config}
  /\ port' = ConfiguredLine(config')
  /\ driven' = {}
  /\ irPulse' = NoPulse /\ apatorUnlock' = NoUnlock /\ gpioScan' = NoScan
  /\ activeD0' = NoD0 /\ meterCommissioning' = NoCommissioning
  /\ reading' = NoReading
  /\ UNCHANGED <<meterPin, wired>>

-----------------------------------------------------------------------------
(* The specification.                                                      *)

Init ==
  /\ config \in Configs
  /\ meterPin \in BOOLEAN
  /\ port = ConfiguredLine(config)
  /\ driven = {}
  /\ irPulse = NoPulse /\ apatorUnlock = NoUnlock /\ gpioScan = NoScan
  /\ activeD0 = NoD0 /\ meterCommissioning = NoCommissioning
  /\ reading = NoReading
  /\ wired \in Meters
  /\ requests = 0

Loop ==
  \/ UpdateIrPulseJob \/ UpdateApatorUnlock \/ UpdateActiveD0
  \/ UpdateMeterRecovery \/ UpdateGpioScan
  \/ ManageMeterCommissioning(StartMeterCommissioning)
  \/ ManageMeterCommissioning(StepMeterCommissioning)

Receive ==
  ReceiveTelegram \/ ReceiveIdentification \/ ReceiveDamaged

Web ==
  \/ HandleApatorUnlock \/ HandleIrPin \/ HandleForgetPin \/ HandlePulseTest
  \/ HandleIrStop \/ HandleGpioTxScan \/ RequestScan \/ CancelScan

Next == Loop \/ Receive \/ Age \/ Web \/ Reboot

Spec == Init /\ [][Next]_vars

\* loop() calls each of these in every turn, and their timers run out.
Fairness ==
  /\ WF_vars(UpdateIrPulseJob) /\ WF_vars(UpdateApatorUnlock)
  /\ WF_vars(UpdateActiveD0) /\ WF_vars(UpdateGpioScan)
  /\ WF_vars(ManageMeterCommissioning(StepMeterCommissioning))

FairSpec == Spec /\ Fairness

-----------------------------------------------------------------------------
(* Properties.                                                             *)

PulseJob == [active : BOOLEAN, output : BOOLEAN, pin : Pins \cup {-1},
             left : 0..PulsesPerDigit, digits : 0..PinDigits - 1]
UnlockJob == [active : BOOLEAN, phase : 0..8, verifying : BOOLEAN]
ScanJob == [active : BOOLEAN, complete : BOOLEAN, found : BOOLEAN, candidate : Nat \ {0}]
D0Job == [active : BOOLEAN, acknowledged : BOOLEAN]
CommissioningJob == [started : BOOLEAN, active : BOOLEAN, found : BOOLEAN,
                     candidate : 1..Len(AutoSerialCandidates)]
Reading == [detected : {"Auto", "Sml", "Iec62056"}, age : {"fresh", "stale", "lost"},
            accepted : 0..2, crcValid : BOOLEAN, identified : BOOLEAN]

\* The shape of the jobs and of what they share.
JobsOK ==
  /\ driven \subseteq Pins
  /\ irPulse \in PulseJob
  /\ apatorUnlock \in UnlockJob
  /\ gpioScan \in ScanJob
  /\ activeD0 \in D0Job
  /\ meterCommissioning \in CommissioningJob
  /\ reading \in Reading
  /\ wired \in Meters

\* The shape of the state: every job stays within its own bounds, and pins
\* that are driven exist.
TypeOK ==
  /\ config \in [protocol : Protocols, baud : Nat]
  /\ port \in Lines \cup {NoLine}
  /\ meterPin \in BOOLEAN
  /\ requests \in 0..MaxRequests
  /\ JobsOK

\* Whether a job has the port; an unlock in a pause has given it back.
Busy == irPulse.active \/ gpioScan.active \/ activeD0.active \/ meterCommissioning.active

\* However jobs interrupt each other, the tracker listens on the configured
\* line whenever none of them is left (restoreConfiguredMeterSerial()).
PortGivenBack == ~Busy => port = ConfiguredLine(config)

\* A pulse job, unless the unlock sequence began it, is alone: the port is
\* closed, its pin is an output, and nothing else reads or writes the port.
PulseOwnsPort ==
  irPulse.active /\ ~apatorUnlock.active =>
    /\ port = NoLine /\ irPulse.pin \in driven
    /\ ~gpioScan.active /\ ~activeD0.active /\ ~meterCommissioning.active

\* Scan, readout and commissioning each reopen the port at will: two of them
\* at once would attribute a telegram to the wrong line.  Commissioning has no
\* company at all, and listens on its candidate.
OneReader ==
  /\ ~(gpioScan.active /\ activeD0.active)
  /\ meterCommissioning.active =>
       /\ ~gpioScan.active /\ ~activeD0.active /\ ~irPulse.active /\ ~apatorUnlock.active
       /\ port = CommissioningLine(meterCommissioning.candidate)

\* What commissioning saves is the protocol and the rate of the meter that is
\* there, even if it was heard on the way through the candidates.
CommissioningRight ==
  meterCommissioning.found =>
    config.protocol = wired.kind /\ config.baud = wired.baud

ScanHeard ==
  /\ ScanLine(config, gpioScan.candidate).rx = wired.pin
  /\ ScanLine(config, gpioScan.candidate).baud = wired.baud

\* A scan that reports a pin and a rate has heard the meter there, if no
\* unlock sequence took the port away from it in the meantime.
ScanConfirms ==
  [][gpioScan.active /\ gpioScan'.found /\ ~apatorUnlock.active => ScanHeard]_vars

\* main.cpp says of the scan that it "stores nothing and always restores
\* normal operation".  It does not: an output that a pulse job was driving
\* when the scan began stays an output when the scan is over.
ScanRestores ==
  gpioScan.complete /\ ~irPulse.active => driven = {}

\* Whatever is requested, the jobs end and normal reception comes back.
PortReturns ==
  []<>(~Busy /\ ~apatorUnlock.active /\ port = ConfiguredLine(config))

=============================================================================
