# A specification of the IR tracker firmware

This directory holds a TLA+ model of the offline IR tracker firmware
(ESP32-C3, Arduino), the configurations that check it with TLC, and proofs
checked by TLAPS. It covers what is hardest to test on the device: what survives
in flash when the power fails, a flash operation reports an error, or an update
has to be undone; who has the only UART when jobs interrupt each other; what the
parsers and the Modbus server make of bytes that are lost, added or cut into
pieces; and whether connections come back whatever was lost before.

Paths such as `storage/HistoryStore.cpp` are under `src/src/app/`.

## 1. The system

The firmware is one program on one core: `main.cpp` runs `setup()` once and then
`loop()`. Every handler, timer and storage operation runs in that loop; only the
network stack calls back from another task. So most interleavings of this system
are not between threads but between a long operation and the power supply: every
durable step may be the last one before a reboot. The second kind comes from long
operations calling `serviceOtaMeasurementTick()` in their middle, so that meter
readings and history records go on during an update.

| Component | State it keeps | Operations | Interacts with | What is hard | What makes it correct |
| --- | --- | --- | --- | --- | --- |
| Update of firmware and assets (`update/`, `main.cpp`) | two application slots, one asset partition, a backup of the old assets and a journal beside each application, status and blocked flag in RAM | bundle upload (prepare, firmware, assets, commit), recovery at boot, confirmation, abort | boot loader, history (flush, migration), debug storage | power cuts and errors between any two flash operations, boot loader fallback, repeated recovery | firmware and assets always belong together, the old pair stays restorable, recovery always decides |
| Compact history (`storage/HistoryCompactWriter.cpp`, `HistoryStore.cpp`, `HistoryRetention.cpp`) | six files of blocks, a write journal, a shrink journal, a header per tier in RAM, the open minute | begin, update, prune, promote, clear, flush, import, migrate | web requests, update | in-place writes, two journals shared by all tiers, RAM headers against files, converted files of any shape | every boot mounts, no acknowledged record is lost before its window ends |
| Legacy history ring (`HistoryStore.cpp`) | file with two alternating headers and a ring of records | append, load, create | migration | torn header, full ring overwrites before the header | the newest complete header wins, order of time |
| Event log (`core/EventLog.cpp`) | the same layout, and a copy in RAM | add, clear, persist on and off | everyone | as above, and RAM against file | what is shown is what a reboot shows |
| Asset partition and debug storage (`storage/DebugStorage.cpp`) | mount state, raw upload state | mount, raw upload, finish | update | half-written image | only verified images are mounted |
| Product safety and runtime (`core/ProductSafety.cpp`, `ProductRuntime.cpp`) | crash counter in RTC memory and NVS | boot, periodic reset | migration, automatic updates | counter never reset, reset too early | repeated early crashes block risky operations, and nothing else does |
| Meter input and commissioning (`meter/MeterManager.cpp`, `MeterAutoCommissioning.cpp`) | serial configuration, protocol lock, last values | parse, auto detection, D0 readout, recovery | IR control, GPIO scan, history | one serial port with several owners | one owner at a time, port restored afterwards |
| IR control and GPIO scan (`meter/IrControl.cpp`, `diagnostics/GpioScanner.cpp`) | pulse job, unlock job, scan job | start, step, finish | meter input | jobs started over each other | output idle when no job runs |
| SML and D0 parsers (`meter/SmlParser.cpp`, `D0Parser.cpp`) | frame buffer, position in the framing, result of the self check | one byte, reset | meter input | lost, added and oversized frames; two decoders that must agree | the telegram after the disturbance is reported, with its own values |
| Wi-Fi (`network/NetworkManager.cpp`) | candidate, timers of attempt, candidate and hotspot, schedule | periodic service | LAN, eco, MQTT | order of loss, schedule, hotspot and LAN | a known network is joined again |
| Ethernet (`network/EthernetManager.cpp`) | link, address, flag of the lease | events on another task, check once a second | driver, MQTT | the check reads, an event comes, the check stores | what the firmware uses becomes what the interface has |
| MQTT (`network/MqttManager.cpp`) | session, retry interval and timer | periodic service | LAN, Wi-Fi, broker | change of route between two steps of a pass | the session comes back on the preferred route |
| Modbus server (`network/ModbusMeterServer.cpp`) | client, request buffer, timer | accept, read, answer, stop | network | requests in pieces, several at once, silence | each request answered once, in order |
| mDNS responder (`network/MinimalMdns.cpp`) | socket, names | packet | network | formatting | out of the scope of this model |
| Eco and CPU power (`core/EcoManager.cpp`) | boost deadline, transmit power | request, periodic service | Wi-Fi | an earlier adaptation outlives the connection | full power while a network is looked for |
| Configuration, accounts, web interface, diagnostics | key-value store, sessions | request handlers | everyone | mostly formatting | out of the scope of this model |

`PROJECT.json` lists the same components with their status, and under `hazards`
every place known to be hard to test with the properties that guard it, or why
none does yet.

## 2. Modules

| Module | What it is |
| --- | --- |
| `UpdatePair` | What an update promises: a pair of firmware and assets is tried, then accepted, or the old pair comes back. |
| `AssetRollback` | The journal engine of `update/AssetRollback.h` with its callers: bundle upload and commit in `OtaManager.cpp`, recovery in `AssetRollbackEsp.cpp`, confirmation and history migration in `main.cpp`, and the boot loader. |
| `AssetRollbackProofs` | Its inductive invariant and theorems. |
| `MCAssetRollback` | Its finite instance. |
| `RecordLog` | What a tier of the history promises: records are added at the end and only forgotten when their window is over. |
| `CompactHistory` | The block files, the write journal and the shrink journal, and begin, update, prune, clear and flush. |
| `CompactHistoryProofs` | The inductive invariant of the minute and the five-minute tier, their theorems, and the theorem that they implement `RecordLog`. |
| `MCCompactHistory` | Its finite instances. |
| `SerialPort` | The UART and everything that takes it over: reception, active readouts, commissioning, GPIO scan, pulse jobs and the unlock sequence. |
| `SerialPortProofs` | Its inductive invariant and theorems. |
| `MCSerialPort` | Its finite instance. |
| `AssetRollbackRefinement` | The theorem that `AssetRollback` implements `UpdatePair`. |
| `HeaderRing` | The layout the legacy history and the event log share: records behind two header copies, the newer valid one counts. |
| `LegacyRing` | One tier of the history in the legacy format: append, load, create, import, clear, query, and the conversion to the compact format. |
| `EventLog` | The event log in RAM and in its file. |
| `RingProofs` | Inductive invariants and theorems of both rings. |
| `SmlParser`, `D0Parser` | The two parsers with a meter and a faulty line in front of them. |
| `ParserProofs` | Inductive invariants and theorems of both parsers. |
| `ModbusServer`, `ModbusServerProofs` | The Modbus server, and the theorems about its answers and its buffer. |
| `EthernetManager` | The LAN interface: events on one task, the check on another. |
| `NetworkManager` | Wi-Fi: candidates, hotspot, schedule and transmit power. |
| `MqttManager` | The MQTT session, its back-off, and the change of route. |
| `ProductSafety` | The early-crash counter, with its instance in `MCProductSafety.cfg`. |
| `MCDevice` | The eight of these up to `MqttManager` in one finite instance, one at a time. |
| `DeviceProofs` | Theorems of the network components, and of the eight together. |

`AssetRollback` implements `UpdatePair`, `CompactHistory` implements `RecordLog`;
both are stated with `INSTANCE ... WITH` and checked as properties. No module
declares a recursive operator. Operators whose comment begins with "Mutant" are
faulty variants of the definition they precede. They take no part in the
specification; put in its place, each breaks a property, which shows that the
property can fail.

### AssetRollback

The variables are the flash (`app`, `assets`, `backup`, `journal`, the boot
selection), what is only in RAM (`status`, the transaction in work) and `pc`,
the durable step that is next. There is one action per flash operation, in the
order of the code: Prepare writes the backup and the *Prepared* entry, Upload
writes firmware and assets and verifies them, Activate writes the image header
and switches the boot slot, Restore brings the backup back, Confirm commits the
pair. `PowerCut` may follow any of them and leaves a journal append torn;
`IoFailure` makes any of them report an error, with or without its effect.

Modelling assumptions:

* Contents are known by their hash: `None` stands for bytes no hash matches, and
  the asset partition mounts exactly when it holds a known image.
* `Update.end()` writes the withheld image header, then switches the boot slot.
* The boot loader falls back only to the other slot, and only from an image that
  `Update.end()` selected and that has not yet been marked valid.
* A torn append leaves an entry open to a few outcomes: as before, some bits
  written, or unreadable by itself. An interrupted journal erase leaves a prefix
  erased (the fault model of `tests/native/asset_rollback.cpp`).
* Damage happens to the assets of a pair that is verified and not confirmed yet.
* Releases that cannot read the compact history are not offered any more once a
  device has converted its history.
* The guard of the migration other than the identity of both images
  (crash counter, mounted history) is a free choice.
* A history flush that fails before or during an update is an abort.
* Counters for updates and faults are bounded (`MaxUpdates`, `MaxFaults`); the
  system may stop when they are used up, so these runs do not check deadlock.

### CompactHistory

`file[t]` is the sequence of blocks of tier `t`; a block is its start and the
set of its timestamps, `Torn` a block whose checksum is wrong. `pending` and
`shrink` are the two journals. `head[t]` is the header and capacity in RAM,
`buffer` the minute bucket that is being filled, `ring[t]` the capacity in the
header of a file that has been cleared. `pc` is the durable step that is next,
`task` the operation it belongs to, `tier` what
`update()` is working on (five-minute, minute and hour tier in this order), `after` where `recoverCompactWrite()` returns
to: begin(), the shrink loop and `commitCompactBlock()` all call it.

| Code | Actions |
| --- | --- |
| `begin()`, `loadHeader()` | `Boot`, `Replay`, `RecoverShrink`, `Load` |
| `commitCompactBlock()`, `recoverCompactWrite()` | `Write` (the rename of the journal), `Place`, `Unlink`, `Acknowledge` |
| `recoverCompactShrink()` | `RecoverShrink`, `Copy`, `Advance`, `Truncate`, `Forget` |
| `update()`, `pruneCompactMinute()`, `pruneCompactHour()` | `Update`, `Prune` |
| `updateTier()`, `promoteRetained()` | `OpenBucket`, `CloseBucket`, `Promote` |
| restart, shutdown and update requests, `flushPending()` | `RequestFlush`, `Restart` |
| `clear()` | `RequestClear` |

Modelling assumptions:

* A record is its timestamp; averages, energy and checksums of values are left
  out. Time counts slots; the clock does not run backwards (`updateTier()`
  ignores samples that do).
* All tiers of an instance share one unit of time. The clock of a tier promoted
  from a finer one stands for the time minus what the finer ones keep.
* Which bucket is promoted next is a free choice among those after the last one,
  but a bucket whose write has failed comes first again: the finer tier still
  holds its samples.
  That the five-minute tier agrees with the minutes to be dropped is assumed;
  that it may not is listed as a hazard.
* Files written under a temporary name and renamed, removed or truncated change
  in one step. The write of a block in place may be cut: the block is then
  unchanged, torn or complete. A short append is a torn last block.
* An operation that clears a file is one step; a power cut between creating the
  empty file and writing its header is listed as a hazard.
* A tier is deleted only while no error has left a journal behind. (By the code,
  the journal would then be replayed over the new ring while RAM still takes the
  file for one.)
* Reads fail at boots only, where begin() leaves the history unmounted.
* The records of a cleared, not yet converted ring, imports and the migration are
  not modelled. `Init` is any file the migration can leave behind, in the sense of
  `Staged`: the checks go through every such file within the bounds. Its blocks
  are disjoint and in order, and only a history without records has an empty block,
  a single one.

### SerialPort

The firmware has one UART, no lock for it, and six users. `port` is what
`meterSerial` listens to, `driven` the pins left as outputs, and each job has a
variable of its own, named as in the code. All of them run in the loop, so an
action is one call of a web handler or of an update function; what can interleave
is any order of such calls. `wired` is the meter in front of the tracker: the line
it can be heard on, its protocol, and whether it speaks only when asked.

| Code | Actions |
| --- | --- |
| `serviceMeterInput()`, `commitMeterCandidate()`, `acceptParserEvent()` | `ReceiveTelegram`, `ReceiveIdentification`, `ReceiveDamaged`, `Age` |
| `beginIrPulseJob()`, `updateIrPulseJob()`, `finishIrPulseJob()` | `HandleIrPin`, `HandlePulseTest`, `HandleIrStop`, `UpdateIrPulseJob` |
| `handleApatorUnlock()`, `updateApatorUnlock()`, `beginIrPulseCount()` | `HandleApatorUnlock`, `UpdateApatorUnlock` |
| `updateActiveD0()`, `updateMeterRecovery()` | `UpdateActiveD0`, `UpdateMeterRecovery` |
| `startGpioScan()`, `updateGpioScan()`, cancel, `handleGpioTxScan()` | `RequestScan`, `UpdateGpioScan`, `CancelScan`, `HandleGpioTxScan` |
| `manageMeterCommissioning()` | `ManageMeterCommissioning` of a start or a step |
| saved settings, `setup()` | `Reboot` |

Modelling assumptions:

* Timers are left out: what waits for one may happen at any later turn. The age
  of the last telegram has three values, for the two limits the code compares
  it with.
* A digit is a number of pulses, `PulsesPerDigit`, and a PIN a number of digits.
  Levels and lengths of pulses are left out; the end of the unlock sequence (power
  received or 90 s over) is a free choice.
* SML is heard on an 8N1 line of the right rate, D0 on either framing, because the
  D0 parser drops the eighth bit. Frames with a wrong checksum can come at any time.
* The meter does not change while the tracker runs. Every finished job makes the
  LED's pin an output again, so it is not counted in `driven`.
* `handleGpioTxScan()` blocks the loop until it has tried its pins: one action,
  with any set of pins tried.
* Settings take effect through a restart, which the handlers request themselves.
* `manageProductRuntime()`, and with it commissioning, is not called by the loop of
  `main.cpp`, only by the native tests. The constant `RunsCommissioning` says
  whether the loop calls it; the run `port` sets it, and the theorems hold for
  both values.
* The loop leaves out `updateGpioScan()` during an upload. The model lets it, like
  all other steps, wait.
* Developer and factory builds, which use the port in more ways, are left out, and
  so is `manageAutoPin()`, whose flag `loadConfig()` always clears.

### HeaderRing, LegacyRing, EventLog

A ring file is two header copies and slots. A record goes to its slot first, then
the next header goes over the older copy; the two are separate durable steps, so
each has an action. Generations are counted modulo `Span` and compared by signed
difference, as the code does with 32 bits.

| Code | Actions |
| --- | --- |
| `writeRecord()` | `Store` (the record), `Seal` (the header) |
| `updateTier()`, `flushPending()`, `importRecord()` | `UpdateTier`, `FlushPending`, `ImportRecord` |
| `forEach()`, the order scan before it | `ForEach`, `FirstScan` |
| `begin()`, `loadHeader()`, `clear()` | `BootRing`, `StartLoop`, `ClearRing` |
| `stageCompactCopy()`, `verifyCompactCopy()`, `migrateCompact()` | `StageCopy`, `ActivateCopy` |
| `EventLog::begin()`, `add()`, `clear()` | `BeginLog`, `AddEvent` and `SealEvent`, `ClearLog` |
| the settings handler, `EventLog::setPersistence()` | `SaveSetting`, `SetPersistence` |
| power | `CutRing`, `CutLog` |

Modelling assumptions:

* Of a record the bucket and one energy counter are kept, which is what the choice
  between two records of one bucket during the conversion looks at. An event is its
  number.
* A write that fails or is cut leaves the old bytes, or bytes that fail their check
  (`Spoiled`). Reads do not fail.
* A tier whose file cannot be created is not used until the next start; the model
  stops there ("failed").
* `RingArchive` is what an older firmware may have left: full rings whose records
  are spoiled, double or out of order. A ring the device writes itself is built
  from nothing. `ArchiveAssumption` asks of an archived ring no more than that its
  headers are as `writeRecord()` leaves them (`Written`).
* `ForEach` returns positions, not records: two equal records are told apart.
* `Spoiled` and `NoFile` are values no header, record or file has (assumptions on
  the constants), and `Span` is even and at least four, as 2^32 is.
* `LegacyRing` ends with a converted tier: what happens to it is `CompactHistory`.

### SmlParser, D0Parser

Both are one state machine fed byte by byte, with the meter and the line around it.
`SendFrame` and `SendTelegram` put a whole telegram on the line, `DeliverByte` and
`DeliverChar` give the parser one byte of it, `LoseByte`, `Noise` and the like
disturb it, `OutsideReset` and `OutsideD0Reset` are the resets by a new
configuration or by `serviceMeterInput()`.

* A token is a byte of the framing, or an item of the payload: in SML an OBIS code,
  a number or a list tag, in D0 a whole line. Escape bytes, start and end of an SML
  frame keep their lengths; `MaxSml` and `MaxD0` are the size of the buffer.
* Checksums and check characters are ideal: they tell every two frames apart.
* SML frames of the model do not end with an escape byte. In the code one that does
  shifts the search of the next start, so that its loss costs the next frame too.
* `Legacy` is the decoder that searches the frame for each code, `OnePass` the one
  that replaces it after `SmlQualify` equal results and is compared again every
  `SmlSentinel` frames. `SmlAll` are the frames on which they are compared: every
  order of up to four items that begins with a code.
* The meter's telegrams consist of items and fit into the parser's frame
  (`TelegramAssumption`, and `D0Assumption` for D0): nothing that begins or ends a
  frame stands inside one.

### ModbusServer

The client's bytes stand in `modbusSocket`, each known by the request it belongs to
and its place in it, so that a mixture of two requests is visible. One turn of the
loop is up to three steps: accepting or going on, two stages of reading, and the
timeout at its end; anything may happen between them. `ReadStage` takes any number
of the bytes that are there, which is what `WiFiClient::read()` may do. What
`buildModbusMeterRegisters()` puts into an answer is left out, the exceptions are
not. A client asks whole requests, or cuts the last one short and closes.

### EthernetManager, NetworkManager, MqttManager

Timers have three values: not running, running, due. What waits for one can happen
at any turn after it is due.

* `EthernetManager`: events are queued by the driver and handled on the event task
  (`HandleEvent`); `loop()` reads the address (`ReadAddress`) and stores
  it in two steps (`StoreGot`, `StoreAddress`), so that an event may fall before,
  between and after them. The driver reports a lost address only after a timer of
  its own (`ReportLost`).
* `NetworkManager`: `WifiPass` is one call of `manageWifi()`, with its early returns
  as disjuncts in the order of the code: schedule, resume, connected, hotspot, lost.
  `AdaptPower` is `manageAdaptiveWifiPower()`. Signals are a few levels on both sides of each
  threshold. Which network is in range changes freely (`Around`).
* `MqttManager`: a pass has two steps, the route in `manageWifi()` and
  `manageMqtt()`; the interfaces may change between them. The retry interval is
  counted in units of 10 s: 1, 2, 4, 6.
* The broker accepts whenever it is there. What is published is not modelled.

### ProductSafety

`kept` is the RTC memory. Whether it survives a reset depends on the reset, so
`found` is what was kept or garbage, which the magic number tells apart.

### MCDevice

Those components share no variable and meet only through inputs that each module
leaves free (LAN up or down, the schedule, a setting), so their product would show
nothing that one of them does not. `focus` chooses the one that runs, the others
stand still in their initial states.

## 3. Runs

| Run | Question | Bounds |
| --- | --- | --- |
| `asset_rollback` | Do firmware and assets stay together whatever is interrupted, half-erased journals included? | three updates, three faults, a journal of four entries |
| `asset_rollback_live` | Does recovery always decide, does every transaction end, and is it one of `UpdatePair`? | three updates, three power cuts |
| `asset_rollback_stranded` | Finding: recovery is stuck after a torn erase. | one torn erase |
| `compact_minute` | Do writing, shrinking and recovering the minute tier keep every record, mount at every boot, and record what they are given? | blocks of two records, a ring of two blocks, every conversion of one to four blocks, eleven slots of time, two faults, restarts |
| `compact_tiers` | Do three tiers share the journals safely while minute and hour tier shrink and tiers are deleted? | minute and hour files of four blocks, nine slots of time, one fault |
| `port` | Do the guards of six jobs keep them apart, is what is detected the meter's, and does reception always come back? | three pins, two configurations, four meters (on the configured line, on another pin, with D0 push, asked), three requests or restarts, a PIN of two digits |
| `port_scan` | Finding, see section 6. | as above |
| `compact_clear`, `compact_hour_reboot`, `compact_stuck` | Findings, see section 6. | at most one fault |
| `device` | Do the smaller components keep what they promise in every order of events, failures and disturbances? | see below |
| `early_crash` | Finding, see section 6. | the limits of the code |

The bounds of `device`: rings of four records and of three events, generations
modulo 4, three buckets of time (two while the device runs), one failed or torn
write of the history and two of the event log, a conversion that sorts three records
at a time, 125 archived rings; five events; SML telegrams of up to four
items, frames of up to 22 tokens; D0 telegrams with two values for each line, 12
tokens; two disturbances of either line; two Modbus requests on a connection out of
five kinds (good, wrong function, wrong length, too short, too long); three Ethernet
events at a time, two addresses; two known networks and five signals.

Why the bounds are enough. A fault matters through the durable state it leaves;
two faults let the recovery from one be interrupted by another, three let that be
interrupted again. Blocks of two records have a first, a last and a missing
record. A ring of two blocks rotates after four records, and the clock bound lets
it rotate fully. A surplus of two blocks makes shrinking copy over positions that
were sources before. `compact_tiers` allows one fault: with two errors in a row a
record that was never acknowledged can be shrunk away before it is promoted again,
which the log specification does not distinguish from a loss. The proof that a journal of four entries suffices holds for
every size (`JournalHasRoom`), so four is the hardest case and not a convenient
one. In `SerialPort` a request starts a job or interrupts one; three of them let a
job interrupt one that has interrupted another, and every job is short enough to
end and start again within the bounds. The theorems of `SerialPortProofs` have no
bound on requests.

For `device`: a ring of four is written round more than once, and with generations
modulo 4 the counter wraps on the way. A window of three records meets groups of
equal buckets that end inside it, at its end and beyond it. One disturbance brings a
parser out of step, the second meets it while it is out of step. Two requests are
enough for the bytes of one to follow those of another into the buffer; the theorem
`AnswersInOrder` has no such bound. Two networks have a next one and a last one;
`SearchIsStrong` holds for any number.

What the properties say:

* `PairAtomic`: the firmware that runs is the one its assets were built for.
  `OldPairKept`: until a pair is confirmed, the old one can be restored.
  `OnePending`: never a transaction in both slots. `RecoveryDecides`: `recover()`
  never answers with an error. `JournalRoom`: an entry is always free.
  `SettledPair`: a settled status means a whole pair. `MigrationSafe`: after the
  migration no image can start that does not read the new format.
  `BootableAlways`: there is always an image to start. `CommittedStays`: a
  committed entry goes only with its journal.
* `BootMounts`: no sequence of writes, shrinks, faults and reboots leaves files
  that begin() refuses. `HeadAgrees`: between operations the header in RAM is the
  one a reboot would compute. `ImplementsRecordLog`: with both journals replayed
  in thought, a tier is a log that forgets only what left its window.
  `MountsUnlessCleared`: the same as the first as long as no tier has been deleted,
  for the instance where deletions make it fail (finding `compact_clear`).
  `RecordedEventually`: the open minute is written or lost to a power cut.
  `RecordedUnlessBlocked`: the same unless an error has left the write journal
  behind, which is how far the code keeps the promise.

* `PortGivenBack`: whatever has interrupted whatever, the UART is on the configured
  line when no job has it. `PulseOwnsPort`: a pulse job has the port closed and its
  pin driven, with nothing beside it. `OneReader`: scan, readout and commissioning
  never reopen the port under each other. `CommissioningRight` and `ScanConfirms`:
  what is detected is the wired meter's protocol, rate and pin, although telegrams
  arrive on the way through the candidates. `PortReturns`: all jobs end.
  An unlock sequence is excepted in `PulseOwnsPort` and `ScanConfirms`, see
  section 6.

* `QueryExact`: a query returns what a full scan would, though binary search and
  early exit rely on a cached order that failed writes, imports and old files upset.
  `RingKeepsRecords`: a torn write costs at most the slot it had taken, and the tier
  can be read again. `MigrationKeepsRecords`: the conversion keeps one record of each
  bucket and adds none, also when the copy was staged before a restart.
* `EventsSurvive`: the same for the event log, whose newest event may stand in the
  place of the oldest after a cut. `ClearedStaysCleared`: cleared events are not
  shown again after a restart or a change of the setting.
* `SmlResync`, `D0Resync`: a whole telegram (SML: the second in a row; D0 without
  check character: a few, since a stray STX hides the end) is reported whatever came
  before. `SelfCheckAgrees`: the one-pass decoder finds what the search finds.
* `ModbusAnswers`: the answers on a connection are those to its requests, in order.
* `LanFollows`: once the interface stays as it is, address and flag become its own.
  `WifiComesBack`: a known network in range is joined again and again.
  `MqttReturns`: with interfaces and broker at rest the session comes back and its
  retry interval is the shortest again. `SearchesWithFullPower`: no reduced power
  outlives the connection it was adapted to.

Fairness. The loop calls the network functions in every turn, the event task handles
its queue, timers run out: `LanFairness`, `WifiFairness` and `MqttFairness` assume
weak fairness of those steps and nothing of cables, networks and brokers. A network
in range is joined if it is tried again and again (strong fairness of `Join`): each
try has a fresh chance, and the property is about the device not ceasing to try.
`MCDevice` states the same for the component that runs. `SerialPort` assumes weak fairness of each function the loop calls in
every turn: a job whose timer runs out takes its next step. Nothing is assumed of
telegrams or users. `AssetRollback` assumes weak fairness of the firmware's own steps: the
loop runs on one core under a watchdog, and a download ends on its timeout.
`CompactHistory` assumes the same of `Firmware` and of `Update`, which the loop
calls every second. Time passes while operations run; the model lets it pass
between them, so it asks for strong fairness of `Tick`. Nothing is assumed of
users, faults or the power supply: faults are bounded in number instead, since a
device whose power fails for ever promises nothing.

## 4. Proofs

`AssetRollbackProofs` proves, for any number of updates and faults, any journal
size of at least four entries and any releases:

| Theorem | Says |
| --- | --- |
| `TypeCorrect` | `TypeOK` is an invariant |
| `PairIsAtomic`, `OldPairIsKept`, `SettledIsPaired`, `AlwaysBootable` | the safety of the pair |
| `OneIsPending`, `CommittedEntriesStay`, `JournalHasRoom` | the discipline of the journals |
| `RecoveryAlwaysDecides` | recovery never fails, whatever else does, if no journal erase is interrupted (`"torn_erase" \notin FaultKind`) |
| `MigrationIsSafe` | no image that cannot read the compact history can start after the migration |

The argument is one inductive invariant, `IInv == TypeOK /\ FlashInv /\ StepInv`.
The properties alone are not inductive. That the old pair can be restored at an
instant says nothing of the step after next unless it is known what the journal
holds and what the running operation is about to write. `FlashInv` describes what
flash can look like between operations: the entries of a transaction follow one
another, at most one slot has an open transaction, and each state of it fixes
which application, assets and backup must be whole. `StepInv` describes, for each
`pc`, how far the operation in work has come. The proof shows that `Init` implies
`IInv`, that each action preserves each of its parts (`TypeStep`, `FlashStep`,
`StepStep`, one case per action), and that `IInv` implies the properties;
`ReaderStep` carries the part about the migration. The assumptions are those the
module states on its constants (`JournalAssumption` and the others).

`SerialPortProofs` proves, for any pins, rates, meters, configurations and number
of requests, with commissioning or without:

| Theorem | Says |
| --- | --- |
| `TypeCorrect` | `TypeOK` is an invariant |
| `JobsKeepShape` | every job stays within its own bounds |
| `PortIsGivenBack`, `PulseIsAlone`, `ReadersAreApart` | the port has at most one owner, and is given back |
| `CommissioningIsRight`, `ScanReportIsRight` | what is detected is what was heard on that line |

Its invariant `IInv` adds three facts to the properties. `ReadoutInv`: in the
explicit mode a readout ends without restoring anything, which is right only
because its line is the configured one. `HeardInv`: what has been counted for a
candidate was heard on its line by its parser, since the counter starts again with
each candidate. `ScanInv`: a scan listens on its candidate unless an unlock
sequence runs, and that cannot get beyond its third phase, because the next job it
needs is refused during a scan. Each action is one lemma; `StepHolds` joins them.
`TypeCorrect` needs a second invariant, `PortInv`: a running scan is within its
candidates, whose number can change only with the configured rate, and that does not
change during a scan. That the candidates are well formed at all takes an ascending
order of the other pins and rates; `SortExists` gives one for every finite set of
numbers, by a least counterexample instead of an induction, since a well-founded
order is a set to the provers where an induction hypothesis would be an operator.

`AssetRollbackRefinement` proves `UpdateIsTransactional`, that every behaviour of
`AssetRollback` is one of `UpdatePair` as far as safety goes. `View` computes the
abstract state in the two cases that `OnePending` leaves: nothing pending, then the
installed release is the one that starts; one transaction pending, then it is the old
one of its record, and the new one is on trial once the boot slot is its own. Each
step then is a stutter but for the switch of the boot slot (`SwitchSeen`: a trial or
its rejection) and the marker of *Complete* (`MarkerSeen`: acceptance), by whatever
action, interrupted or not, they come about.

`DeviceProofs` proves `WifiTypes` and `SearchIsStrong` for any number of
places, any known networks and any signals. The property is not inductive: the
power is reduced only after the signal was steady for a time, and raised by the pass
that notices the loss. `SteadyInv` adds that this time runs only while the loop has
seen a connection, so that no adaptation reduces the power of a search. The choice of
the next network is a least element (`LeastExists`), for which the types need the
well-ordering of the naturals. `DeviceKeepsTypes` is `DeviceTypeOK` for any instance
of the eight components: by `DeviceRunsAll` the device behaves, but for fairness, as
each of them, so their own theorems hold of it, and `DeviceKeepsPromises` restates
those of the invariants. The types of the LAN interface need `LanInv`, the addresses of
the events still under way; those of MQTT need no more than themselves.

`ModbusServerProofs` proves `AnswersInOrder` for any requests, any number of them
and any cutting. `StreamInv` is the invariant: what is unread, buffer and socket
together, is the sequence of the requests not yet answered, each at its place
(`Places`), and complete while the client may still ask. `ExtendStream` and
`TakeStream` say how it grows with a request and shrinks with an answer,
`WholeRequest` that a buffer as long as its header says is exactly the first request,
`Split` that reading moves bytes without changing the stream. `ModbusTypes` adds that
the buffer never holds more than 260 bytes: a stage reads no more than the header
announces, and `Misfit` drops a client that announces more.

`RingProofs` proves, for rings of any size, generations modulo any even `Span` from
four on, any archive and any number of events, failures and cuts:

| Theorem | Says |
| --- | --- |
| `EventsAreKept`, `ClearedStays` | what was stored before a cut is still there after it, what was cleared is not |
| `RecordsAreKept` | the same for the history ring: at most the slot of a torn write is lost |
| `QueriesAreExact` | binary search and early exit report exactly the records in the range |
| `EventTypes`, `RingTypes` | the types |

Both rings share a part, `Holds`: the newest readable header is the one the writer
goes on from, its copy lies where its generation puts it, and the slots it covers
hold what was stored, up to one. It is preserved by a slot written
(`PutSlot`), a header written and a header spoiled, each a lemma; that the newer of
two copies is found although generations wrap is the only arithmetic in it. `EventInv`
adds that an event whose header is due stands in its slot (`EventSealOK`) and that no
cleared event is in any slot of a file that counts. `RingInv` adds what the cached
order is worth (`RingOrderOK`): while it says "ordered", the records behind the one
being overwritten are settled and in order of time, and the cached last time bounds
them; `FirstScan`, appends, imports, failures and a full ring each keep or drop it.
That the binary search finds the border of a range is proved as the least interval
on which it would not (`LeastExists`), which stands for the induction.

`ParserProofs` proves, for any telegrams of items that fit the frame, any number of
faults and any size of the frame:

| Theorem | Says |
| --- | --- |
| `OnePassIsLegacy` | on every frame, whatever its tokens, the one-pass decoder finds what the search for each code finds |
| `SelfCheckHolds` | so the comparison never switches it off |
| `ResyncHolds` | the second whole SML telegram in a row is reported with its values, whatever came before |
| `D0ResyncHolds` | after `D0Patience` whole D0 telegrams each one is reported with its values |
| `SmlTypes`, `D0Types` | the types |

The two properties about resynchronisation speak of the end of a telegram only. The
invariants (`LineOK`, `D0LineOK`) say where the parser can be after `n` characters of a whole one.
SML: capturing or seeking, with a trailer and a match that cannot outlast the start
of the frame, and at the same place as the meter if the telegram before was whole.
D0: in step with the meter; or in a frame a stray STX keeps open, which then has
grown by eight characters with each whole telegram; or idle, after that frame has been
dropped; or in a frame that ends with this telegram. `PatienceIs` shows that the second
and third are over when `D0Patience` telegrams have passed: the frame would be longer
than `MaxD0`. `OnePassIsLegacy` compares two folds over a frame; the least position
at which they differ stands for the induction.

`CompactHistoryProofs` proves, for the minute and the five-minute tier, with blocks,
rings, converted files and clocks of any size and any number of faults:

| Theorem | Says |
| --- | --- |
| `UnclearedMounts` | every boot can read and recover the files, unless a tier was deleted |
| `BootAlwaysMounts` | the same as an invariant of a history whose tiers are not deleted |
| `RecordLogImplemented` | such a history implements `RecordLog`: records are added at the end, and forgotten only after the tier's capacity of slots |
| `HeaderIsLoaded` | between operations the header in RAM is the one a reboot would load |
| `CompactTypes` | the types |

`UnclearedMounts` holds whatever users ask for; the others assume that nobody deletes
a tier, because that is the finding `compact_clear`. All are about an instance of
these two tiers (`MinuteAndFive`), with both journals shared between them and
promotion from minutes to five minutes. They need what the code gives these two:

* Shrinking leaves as many blocks of the minute ring as its limit: 24 are kept, and
  1440 records need (1440 + 63) div 64 + 1 = 24. The hour tier keeps 139, one more
  than its limit, and the finding `compact_hour_reboot` is what comes of it; so the
  properties cannot be proved for it, although `compact_tiers` finds no violation in
  the steps it has.
* A converted five-minute file is within its limit, for it has nothing in it: the
  branch of `update()` for rings that are not converted writes the minute, quarter-hour,
  hour and day tier only, and imports into converted tiers are not modelled.

The instances of `compact_minute` and `compact_clear` satisfy the hypotheses.

The invariant, `CompactInv`, has one idea: what is true of a file at every
instant is said of `Whole(t)`, the file as it would be with the journals that name its
tier replayed (`WriteOf`, `ShrinkOf`, `Replays`). `FlashInv`: `Whole(t)` is always
`Ordered`, a ring of disjoint blocks that is rotated only when it is full, and no
record is later than the clock. Every durable step then leaves it alone
(`FlashPlaced`, `FlashUnlinked`, `FlashCopied`, `FlashAdvanced`, `FlashTruncated`,
`FlashForgotten`: a block may be written twice or half, and a copy never falls on a
block that is still a source), but for two that commit something: the rename of the
write journal adds a record (`WriteKeeps`, with a case for writing into the newest
block, a first, an appended and a reused one), and the shrink journal drops blocks
(`FlashShrunk`). The cuts and errors therefore need no cases of their own, only that
a boot starts from `Whole(t)` again. `StepInv` and `PlaceInv` say what the firmware
knows at each step, `BufferInv` that a minute is only collected for a ring within its
limit, and `HeadInv` what the header in RAM is worth while journals are pending.
`WrapsAt` and `OrderedLoads` connect order to what loading finds: the starts stop
increasing at one place only, where the oldest block is. Without `FlashInv` the
properties are not inductive: a header that agrees with the file says nothing of the
boot after a half-done copy.

The tiers meet in one place. While the write journal of a failed promotion is there,
the minute tier must leave its file alone: a shrink begun now would find a journal that
is not its own. `OwedInv` says why `update()` never comes to that: the record in
the journal is newer than the five-minute header in RAM, so the same promotion is owed
first, is refused because of the journal, and ends the update before the minute.

Deleting a tier breaks `CompactInv` for good, as `compact_clear` shows, but not the
step machine. `Reachable` is therefore `CompactInv` or `Cleared`, together with
`ClearInv`, what remains true afterwards: each step still finds the tier, the block and
the journal it is about, which is enough that a history once cleared stays `Cleared`
(`ClearHolds`), and a boot that fails to mount it is one of a cleared history.

`LogStep` sorts the steps by what they do to `Whole`: nothing, a tier that forgets
(`Forgets`), or a tier that a record is added to (`Adding`). `CompactInv` and
`ClearInv` were checked with TLC on two tiers and two faults before they were proved.

Only model-checked: liveness (`TransactionEnds`, `RecordedEventually`,
`RecordedUnlessBlocked`, `PortReturns`, `LanFollows`, `WifiComesBack`, `MqttReturns`)
and `ENABLED`, which are out of the prover's reach; `MigrationKeepsRecords`, whose
conversion groups windows of sorted records by recursion over the data; and of
`CompactHistory` the hour tier next to the other two, and the record log of a history
whose tiers are deleted (`compact_tiers`).

## 5. Plan

1. `AssetRollback`, `UpdatePair`: done, with the refinement as a theorem.
2. `CompactHistory`, `RecordLog`: done as far as described above. Open: imports into
   converted tiers. The theorems of two tiers that share the journals are done; those of
   the hour tier would need a ring limit the code does not keep.
3. The legacy ring, the conversion and the event log: done.
4. Retention: promotion between the six tiers, the abstract promise being that no
   record is overwritten before a coarser one stands for it. Open; three hazards wait
   for it and for reads that fail.
5. The owners of the serial port: done.
6. Product safety: done.
7. Network: done but for mDNS; eco mode as far as the radio.
8. Parsers and Modbus: done, as state machines with the line in front of them.

The order was that of the damage: firmware that does not start, then lost history,
then a meter that is not read, then connections.

## 6. Findings

Each is a run that TLC ends with a counterexample; `PROJECT.json` quotes the line
of the repository it contradicts.

* `asset_rollback_stranded`: an interrupted erase of a journal that holds the
  finished entries of an earlier transaction leaves a commit marker over damaged
  bytes. `recover()` then answers with an error at every boot, although no
  transaction is pending.
* `compact_clear`: deleting a converted tier, or starting an import into it,
  creates a ring with the compact capacity. The next boot expects the legacy
  capacity and leaves the whole history unmounted.
* `compact_hour_reboot`: shrinking keeps one block more of the hour tier than its
  limit. A restart takes the samples in it for the capacity, the ring grows, and
  the next block is appended to a rotated file, which the boot after that refuses.
* `compact_stuck`: after one failed write in place the journal stays. Only a boot
  replays it, and each request for a restart is refused because the flush before
  it needs the journal to be gone.

* `port_scan`: starting a GPIO scan while a pin is being pulsed marks the pulse job
  as over and leaves its pin an output. A scan that is cancelled, or finds the
  meter before it comes to that pin, ends without making it an input again.

* `early_crash`: nothing calls `manageProductRuntime()`, so the counter of early
  crashes is never cleared by a minute of stable runtime. Crash-like resets add up
  over any time until a reset of another kind, or a loss of the RTC memory.

Deleting the five-minute tier has a similar effect on others: `update()` then
raises the capacity of converted minute and hour tiers to the legacy one, and a
rotated file grows.

An unlock sequence looks neither at a running scan nor at a running readout. It
closes the port under them and its pulse job then reopens the configured line, on
which a telegram confirms whatever candidate the scan has reached: without its
exception for unlock sequences `ScanConfirms` does not hold. With the same number
for both pins, which the settings accept, an unlock sequence waits in its third
phase for ever and keeps readouts and recovery from running.

Noted while reading, without a run: a failed read while a shrunk file is loaded
again (`HistoryStore.cpp:46`) leaves an empty header in RAM, and the next record
replaces the last block. A shrink names the number of blocks before it replays a
left-over write journal (`HistoryCompactWriter.cpp:63`); if that journal appends a
block, the shrink can never be finished. The check character of D0 is computed from
STX on (`D0Parser.cpp`), while IEC 62056-21 begins after it, and text before STX is
parsed though the check character does not cover it. The first attempt after the end
of a Wi-Fi schedule may still send with reduced power, until the next pass.

## 7. Not modelled

Formatting, parsing of requests, authentication and sessions, the contents of
records and telegrams, signatures and manifests of update bundles, the factory
test and developer builds.

| Left out | Why |
| --- | --- |
| `storage/DebugStorage.cpp` | Its mount and manifest logic decides whether an image is whole; `AssetRollback` has that decision as `Mounted`. The raw upload belongs to developer builds. |
| `network/MinimalMdns.cpp` | Builds and parses packets, with no state that outlives one. |
| `core/ConfigManager.cpp`, `SecurityManager.cpp` | Key-value storage and access control. |
| `web/` | Handlers that format state kept elsewhere. The requests that start jobs, clear, import, switch the event log or restart are actions of the components they change. |
| `diagnostics/` but the scanner | Reports, and a production test that is disabled at build time. |
| the CPU clock and modem sleep in `core/EcoManager.cpp` | Nothing waits for them. |
| what MQTT publishes, and when | Values, at intervals, without a promise of order. |
| units, scalers and phases of readings, identification of the meter | Properties of single values that native tests reach. |
