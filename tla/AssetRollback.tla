--------------------------- MODULE AssetRollback ---------------------------
(***************************************************************************)
(* The crash-safe update of a firmware image together with its web assets: *)
(* the journal engine of src/app/update/AssetRollback.h, the callers in    *)
(* OtaManager.cpp and AssetRollbackEsp.cpp, and the part of setup() that   *)
(* recovers, confirms and allows the history migration.                    *)
(*                                                                         *)
(* Two application slots share one asset partition.  An update writes the  *)
(* new application to the inactive slot, backs the assets up behind it,    *)
(* journals the transaction there, replaces the assets, and switches the   *)
(* boot slot.  Every flash operation is a step; between any two of them    *)
(* the power may fail, and any of them may report an error.                *)
(*                                                                         *)
(* Images are abstracted to the version they belong to; None stands for    *)
(* contents that match no hash (erased, half written, damaged).            *)
(***************************************************************************)
EXTENDS Integers, FiniteSets

CONSTANTS
  Version,      \* the signed releases that can be installed
  AssetsOf,     \* AssetsOf[v]: the asset image bundled with release v
  Reader,       \* the releases that can read the compact history format
  None,         \* flash contents that match no recorded hash
  JournalSize,  \* journal entries of a slot (16 in the code)
  FaultKind,    \* the kinds of fault this instance allows
  MaxFaults,    \* bound on the number of faults
  MaxUpdates    \* bound on the number of update attempts

Slot == {0, 1}
Other(s) == 1 - s

State == {"Ready", "Verified", "Complete", "Restored"}
Terminal == {"Complete", "Restored"}

AssetImage == {AssetsOf[v] : v \in Version}
Entries == 1..JournalSize

Record == [state : State, target : Slot,
           oldApp : Version, newApp : Version,
           oldAssets : AssetImage, newAssets : AssetImage]

ASSUME ImageAssumption ==
  /\ DOMAIN AssetsOf = Version
  /\ None \notin Version \union AssetImage \union Record
  /\ Reader \subseteq Version

\* A transaction writes at most four entries, two of them torn (see the
\* README): the 16 of the code are more than enough.
ASSUME JournalAssumption == JournalSize \in Nat /\ JournalSize >= 4

ASSUME FaultAssumption ==
  /\ FaultKind \subseteq {"cut", "io", "damage", "torn_erase"}
  /\ MaxFaults \in Nat
  /\ MaxUpdates \in Nat

(***************************************************************************)
(* A 256-byte journal entry.  done: its commit marker is programmed; rec:  *)
(* what it records then (None: the marker outlived the bytes before it);   *)
(* open: the states whose record can still be programmed over its bytes    *)
(* without erasing them.                                                   *)
(***************************************************************************)
JournalEntry == [done : BOOLEAN, rec : Record \union {None}, open : SUBSET State]

BlankEntry == [done |-> FALSE, rec |-> None, open |-> State]
OpenEntry(states) == [done |-> FALSE, rec |-> None, open |-> states]
DoneEntry(r) == [done |-> TRUE, rec |-> r, open |-> {}]
CorruptEntry == [done |-> TRUE, rec |-> None, open |-> {}]

Status == {"not_checked", "clean", "restored", "new_ready", "reboot_old_app",
           "recovery_failed", "backup_ready", "assets_verified", "ready",
           "confirmation_failed"}

\* Where the firmware is: recovery, setup(), the update, the restart.
RecoverPc == {"recover", "eraseAssets", "restoreAssets", "selectSource"}
UpdatePc == {"begun", "download", "eraseJournal", "eraseBackup", "copyBackup",
             "eraseOldAssets", "writeAssets", "verify", "flush", "activate",
             "selectTarget"}
AppendPc == {"append", "commit"}
Caller == {"boot", "begin", "abort", "finish"}
Pc == {"off", "setup", "migrate", "idle", "restart"}
        \union RecoverPc \union UpdatePc \union AppendPc

VARIABLES
  app,       \* app[s]: the image in slot s
  boot,      \* the slot the boot loader starts next
  fresh,     \* boot was selected by an update and never started successfully
  assets,    \* the asset partition
  backup,    \* backup[s]: the asset backup behind the image of slot s
  journal,   \* journal[s]: the transaction journal of slot s
  compact,   \* the history has been migrated to the compact format
  running,   \* the slot whose firmware executes
  pc,        \* what that firmware is doing
  caller,    \* who called recoverAssetTransaction
  status,    \* assetRollbackStatus
  plan,      \* combinedUpdate: the release being installed
  record,    \* the journal record the engine is working on
  at,        \* the journal entry append() is writing
  faults,    \* number of faults so far
  updates    \* number of update attempts so far

flash == <<app, boot, fresh, assets, backup, journal, compact>>
ram == <<running, pc, caller, status, plan, record, at>>
vars == <<app, boot, fresh, assets, backup, journal, compact,
          running, pc, caller, status, plan, record, at, faults, updates>>
-----------------------------------------------------------------------------
(***************************************************************************)
(* Reading the journal: Engine::latest and Engine::idle.                   *)
(***************************************************************************)
Committed(s) == {i \in Entries : journal[s][i].done}

SameTransaction(r, q) ==
  /\ r.oldApp = q.oldApp
  /\ r.newApp = q.newApp
  /\ r.oldAssets = q.oldAssets
  /\ r.newAssets = q.newAssets

\* latest() succeeds: every committed entry is sound and of one transaction.
Readable(s) ==
  /\ \A i \in Committed(s) :
       journal[s][i].rec # None /\ journal[s][i].rec.target = s
  /\ \A i, j \in Committed(s) :
       SameTransaction(journal[s][i].rec, journal[s][j].rec)

LastCommitted(s) ==
  CHOOSE i \in Committed(s) : \A j \in Committed(s) : j <= i

Latest(s) == journal[s][LastCommitted(s)].rec

Found(s) == Committed(s) # {}

Pending(s) ==
  /\ Readable(s)
  /\ Found(s)
  /\ Latest(s).state \notin Terminal

\* Mutant: one idle slot is enough.
OneSlotIdle == \E s \in Slot : Readable(s) /\ ~Pending(s)

Idle == \A s \in Slot : Readable(s) /\ ~Pending(s)

\* assetRollbackBlocked
Blocked == status \in {"recovery_failed", "confirmation_failed"}

\* Mutant: the two images are not compared.
AnyIdlePair == Idle

\* sameVerifiedAppPair(running)
SameVerifiedAppPair ==
  Idle /\ app[0] # None /\ app[0] = app[1]
-----------------------------------------------------------------------------
(***************************************************************************)
(* Control flow shared by the operations.                                  *)
(***************************************************************************)
Goto(where) ==
  /\ pc' = where
  /\ UNCHANGED <<running, caller, status, plan, record, at, faults, updates>>

\* abortCombinedUpdate: recover only when the journal holds a transaction.
AbortUpdate ==
  /\ IF Idle' THEN pc' = "idle" /\ UNCHANGED caller
              ELSE pc' = "recover" /\ caller' = "abort"
  /\ UNCHANGED <<running, status, plan, record, at>>

\* recoverAssetTransaction maps the engine's result and returns to its caller.
RecoverReturns(result) ==
  /\ status' = result
  /\ pc' = CASE caller = "boot" -> "setup"
             [] caller = "begin" -> "begun"
             [] caller \in {"abort", "finish"} -> "idle"
  /\ UNCHANGED <<running, caller, plan, record, at>>

\* setup() after a failed confirm().
ConfirmFails ==
  /\ status' = "confirmation_failed"
  /\ pc' = "migrate"
  /\ UNCHANGED <<running, caller, plan, record, at>>

\* What follows a flash operation that reported an error.
OperationFails ==
  CASE pc \in RecoverPc -> RecoverReturns("recovery_failed")
    [] pc \in AppendPc /\ record.state = "Restored" -> RecoverReturns("recovery_failed")
    [] pc \in AppendPc /\ record.state = "Complete" -> ConfirmFails
    [] OTHER -> AbortUpdate
-----------------------------------------------------------------------------
(***************************************************************************)
(* Engine::append.  The first uncommitted entry whose programmed bits are  *)
(* compatible with the record takes it; the marker is written last.        *)
(***************************************************************************)
\* Mutant: an interrupted write is never retried in place.
BlankFits(s, state) ==
  {i \in Entries : ~journal[s][i].done /\ journal[s][i].open = State}

Fits(s, state) ==
  {i \in Entries : ~journal[s][i].done /\ state \in journal[s][i].open}

FirstFit(s, state) ==
  CHOOSE i \in Fits(s, state) : \A j \in Fits(s, state) : i <= j

\* State codes 1..4: the codes whose set bits are all set in that of state.
BitSubset(state) ==
  IF state = "Complete" THEN {"Ready", "Verified", "Complete"} ELSE {state}

\* An interrupted write leaves the entry open for the states that agree with
\* the bytes it managed to program.
TornOpen(state, open) == {open, open \intersect BitSubset(state), {state}}

StartAppend(r) ==
  /\ record' = r
  /\ pc' = "append"
  /\ UNCHANGED <<running, caller, status, plan, at, faults, updates>>

\* With all entries used, append() returns false.
AppendRecord ==
  LET s == record.target
      i == FirstFit(s, record.state) IN
  /\ pc = "append"
  /\ UNCHANGED <<app, boot, fresh, assets, backup, compact, faults, updates>>
  /\ IF Fits(s, record.state) = {}
       THEN UNCHANGED journal /\ OperationFails
       ELSE /\ at' = i
            /\ journal' = [journal EXCEPT ![s][i] = OpenEntry({record.state})]
            /\ pc' = "commit"
            /\ UNCHANGED <<running, caller, status, plan, record>>

\* The marker makes the record authoritative; append()'s caller goes on.
AppendCommit ==
  /\ pc = "commit"
  /\ journal' = [journal EXCEPT ![record.target][at] = DoneEntry(record)]
  /\ CASE record.state = "Ready" ->
            /\ status' = "backup_ready"
            /\ pc' = "eraseOldAssets"
            /\ UNCHANGED <<running, caller, plan, record, at>>
       [] record.state = "Verified" ->
            /\ status' = "assets_verified"
            /\ pc' = "flush"
            /\ UNCHANGED <<running, caller, plan, record, at>>
       [] record.state = "Complete" ->
            /\ status' = "ready"
            /\ pc' = "migrate"
            /\ UNCHANGED <<running, caller, plan, record, at>>
       [] record.state = "Restored" -> RecoverReturns("restored")
  /\ UNCHANGED <<app, boot, fresh, assets, backup, compact, faults, updates>>
-----------------------------------------------------------------------------
(***************************************************************************)
(* Engine::recover, called at boot, before an update and after a failed    *)
(* one.  Verdict is its decision; restoring goes through the four steps    *)
(* erase assets, copy the backup, select the source slot, append Restored. *)
(***************************************************************************)
PendingSlot == CHOOSE s \in Slot : Pending(s)

NewPairIntact(r) ==
  /\ running = r.target
  /\ r.state = "Verified"
  /\ app[running] = r.newApp
  /\ assets = r.newAssets

\* Mutant: the identity of the wrong slot is compared.
WrongSlotIntact(r) ==
  /\ app[r.target] = r.oldApp
  /\ backup[r.target] = r.oldAssets

OldPairIntact(r) ==
  /\ app[Other(r.target)] = r.oldApp
  /\ backup[r.target] = r.oldAssets

Verdict ==
  IF \E s \in Slot : ~Readable(s) THEN "recovery_failed"
  ELSE IF \A s \in Slot : Pending(s) THEN "recovery_failed"
  ELSE IF \A s \in Slot : ~Pending(s) THEN "clean"
  ELSE LET r == Latest(PendingSlot) IN
       IF NewPairIntact(r) THEN "new_ready"
       ELSE IF OldPairIntact(r) THEN "restored" ELSE "recovery_failed"

Recover ==
  /\ pc = "recover"
  /\ UNCHANGED <<flash, faults, updates>>
  /\ IF Verdict = "restored"
       THEN LET r == Latest(PendingSlot) IN
            /\ record' = [r EXCEPT !.state = "Restored"]
            /\ pc' = IF assets = r.oldAssets THEN "selectSource" ELSE "eraseAssets"
            /\ UNCHANGED <<running, caller, status, plan, at>>
       ELSE RecoverReturns(Verdict)

EraseAssets ==
  /\ pc = "eraseAssets"
  /\ assets' = None
  /\ Goto("restoreAssets")
  /\ UNCHANGED <<app, boot, fresh, backup, journal, compact>>

\* Mutant: the backup area of the other slot is copied.
RestoreForeignBackup ==
  /\ pc = "restoreAssets"
  /\ assets' = backup[Other(record.target)]
  /\ Goto("selectSource")
  /\ UNCHANGED <<app, boot, fresh, backup, journal, compact>>

RestoreAssets ==
  /\ pc = "restoreAssets"
  /\ assets' = backup[record.target]
  /\ Goto("selectSource")
  /\ UNCHANGED <<app, boot, fresh, backup, journal, compact>>

\* Mutant: a running source is not selected again.
SelectSourceUnlessRunning ==
  /\ pc = "selectSource"
  /\ IF running = Other(record.target)
       THEN StartAppend(record) /\ UNCHANGED <<boot, fresh>>
       ELSE /\ boot' = Other(record.target) /\ fresh' = FALSE
            /\ pc' = "restart" /\ status' = "reboot_old_app"
            /\ UNCHANGED <<running, caller, plan, record, at, faults, updates>>
  /\ UNCHANGED <<app, assets, backup, journal, compact>>

\* The transaction stays pending until the source image itself is running.
SelectSource ==
  /\ pc = "selectSource"
  /\ boot' = Other(record.target)
  /\ fresh' = FALSE
  /\ IF running = Other(record.target)
       THEN StartAppend(record)
       ELSE /\ pc' = "restart"
            /\ status' = "reboot_old_app"
            /\ UNCHANGED <<running, caller, plan, record, at, faults, updates>>
  /\ UNCHANGED <<app, assets, backup, journal, compact>>
-----------------------------------------------------------------------------
(***************************************************************************)
(* Power, the boot loader (external) and setup().                          *)
(***************************************************************************)
PowerOff ==
  /\ running' = boot /\ pc' = "off" /\ caller' = "boot"
  /\ status' = "not_checked"
  /\ UNCHANGED <<plan, record, at>>

\* The boot loader starts the selected slot; a slot it selected for the first
\* time it may also give up, returning to the other one.
Boot ==
  /\ pc = "off"
  /\ \/ running' = boot /\ UNCHANGED boot
     \/ fresh /\ running' = Other(boot) /\ boot' = Other(boot)
  /\ fresh' = (fresh /\ boot' = boot)
  /\ pc' = "recover"
  /\ caller' = "boot"
  /\ UNCHANGED <<app, assets, backup, journal, compact, status, plan, record,
                 at, faults, updates>>

Restart ==
  /\ pc = "restart"
  /\ PowerOff
  /\ UNCHANGED <<flash, faults, updates>>

\* Mutant: a transaction is confirmed as soon as its backup is ready.
ConfirmableReady ==
  /\ Readable(running) /\ Found(running)
  /\ Latest(running).state = "Ready"

\* confirm(running): its guard.
Confirmable ==
  /\ Readable(running) /\ Found(running)
  /\ Latest(running).state = "Verified"
  /\ NewPairIntact(Latest(running))

\* Mutant: setup() goes on without marking the image valid.
NeverMarkValid == UNCHANGED fresh

\* esp_ota_mark_app_valid_cancel_rollback()
MarkValid == fresh' = FALSE

\* assetRecoveryReady && debugStorageReady: the image of a release mounts.
Mounted == status # "recovery_failed" /\ assets # None

\* setup() after recovery: mark the image valid, and confirm a new pair.
Setup ==
  /\ pc = "setup"
  /\ IF ~Mounted
       THEN Goto("migrate") /\ UNCHANGED fresh
       ELSE /\ MarkValid
            /\ \/ status # "new_ready" /\ status' = "ready" /\ pc' = "migrate"
                  /\ UNCHANGED <<running, caller, plan, record, at>>
               \/ status = "new_ready" /\ Confirmable
                  /\ record' = [Latest(running) EXCEPT !.state = "Complete"]
                  /\ pc' = "append"
                  /\ UNCHANGED <<running, caller, status, plan, at>>
               \/ status = "new_ready" /\ ~Confirmable /\ ConfirmFails
            /\ UNCHANGED <<faults, updates>>
  /\ UNCHANGED <<app, boot, assets, backup, journal, compact>>

\* The one-way history migration at the end of setup(); its own steps are
\* crash safe by themselves and are modelled elsewhere.
Migrate ==
  /\ pc = "migrate"
  /\ IF /\ ~Blocked
        /\ status = "ready"
        /\ ~compact
        /\ app[running] \in Reader
        /\ SameVerifiedAppPair
       THEN compact' \in BOOLEAN
       ELSE UNCHANGED compact
  /\ Goto("idle")
  /\ UNCHANGED <<app, boot, fresh, assets, backup, journal>>
-----------------------------------------------------------------------------
(***************************************************************************)
(* The update: consumeCombinedBundle, prepare, verifyAssets and            *)
(* commitVerifiedOta, in flash order.                                      *)
(***************************************************************************)
\* A signed bundle is offered.  Releases that cannot read the compact history
\* are not offered to a device that has migrated to it (external).
BeginUpdate(v) ==
  /\ pc = "idle"
  /\ updates < MaxUpdates
  /\ compact => v \in Reader
  /\ plan' = v
  /\ caller' = "begin"
  /\ pc' = "recover"
  /\ updates' = updates + 1
  /\ UNCHANGED <<flash, running, status, record, at, faults>>

\* Mutant: the update starts whatever recovery said.
BeginPayloadUnchecked ==
  /\ pc = "begun"
  /\ UNCHANGED <<boot, fresh, assets, backup, journal, compact, faults, updates>>
  /\ app' = [app EXCEPT ![Other(running)] = None]
  /\ pc' = "download"
  /\ UNCHANGED <<running, caller, status, plan, record, at>>

\* beginCombinedBundlePayload after recovery; the first firmware write erases
\* the image in the inactive slot.
BeginPayload ==
  /\ pc = "begun"
  /\ UNCHANGED <<boot, fresh, assets, backup, journal, compact, faults, updates>>
  /\ IF ~Blocked /\ Idle
       THEN /\ app' = [app EXCEPT ![Other(running)] = None]
            /\ pc' = "download"
            /\ UNCHANGED <<running, caller, status, plan, record, at>>
       ELSE UNCHANGED app /\ AbortUpdate

\* Mutant: the backup area is hashed instead of the asset partition.
FinishFirmwareHashesBackup ==
  /\ pc = "download"
  /\ Idle
  /\ record' = [state |-> "Ready", target |-> Other(running),
                oldApp |-> app[running], newApp |-> plan,
                oldAssets |-> backup[Other(running)], newAssets |-> AssetsOf[plan]]
  /\ pc' = "eraseJournal"
  /\ UNCHANGED <<flash, running, caller, status, plan, at, faults, updates>>

\* The whole image has arrived and its hash matches: prepare() starts.
FinishFirmware ==
  /\ pc = "download"
  /\ Idle
  /\ record' = [state |-> "Ready", target |-> Other(running),
                oldApp |-> app[running], newApp |-> plan,
                oldAssets |-> assets, newAssets |-> AssetsOf[plan]]
  /\ pc' = "eraseJournal"
  /\ UNCHANGED <<flash, running, caller, status, plan, at, faults, updates>>

EraseJournal ==
  /\ pc = "eraseJournal"
  /\ journal' = [journal EXCEPT ![record.target] = [i \in Entries |-> BlankEntry]]
  /\ Goto("eraseBackup")
  /\ UNCHANGED <<app, boot, fresh, assets, backup, compact>>

\* Mutant: Ready is recorded before the backup has been copied.
EraseBackupThenReady ==
  /\ pc = "eraseBackup"
  /\ backup' = [backup EXCEPT ![record.target] = None]
  /\ StartAppend(record)
  /\ UNCHANGED <<app, boot, fresh, assets, journal, compact>>

EraseBackup ==
  /\ pc = "eraseBackup"
  /\ backup' = [backup EXCEPT ![record.target] = None]
  /\ Goto("copyBackup")
  /\ UNCHANGED <<app, boot, fresh, assets, journal, compact>>

\* Copied in 512-byte blocks and compared with the hash taken before.
CopyBackup ==
  /\ pc = "copyBackup"
  /\ backup' = [backup EXCEPT ![record.target] = assets]
  /\ StartAppend(record)
  /\ UNCHANGED <<app, boot, fresh, assets, journal, compact>>

EraseOldAssets ==
  /\ pc = "eraseOldAssets"
  /\ assets' = None
  /\ Goto("writeAssets")
  /\ UNCHANGED <<app, boot, fresh, backup, journal, compact>>

WriteAssets ==
  /\ pc = "writeAssets"
  /\ assets' = AssetsOf[plan]
  /\ Goto("verify")
  /\ UNCHANGED <<app, boot, fresh, backup, journal, compact>>

\* verifyAssets(target)
Verify ==
  LET target == Other(running) IN
  /\ pc = "verify"
  /\ UNCHANGED flash
  /\ IF /\ Readable(target) /\ Found(target)
        /\ Latest(target).state = "Ready"
        /\ assets = Latest(target).newAssets
       THEN StartAppend([Latest(target) EXCEPT !.state = "Verified"])
       ELSE AbortUpdate /\ UNCHANGED <<faults, updates>>

FlushHistory ==
  /\ pc = "flush"
  /\ Goto("activate")
  /\ UNCHANGED flash

\* Update.end(): the withheld image header makes the new image bootable, then
\* the boot slot is switched.
ActivateImage ==
  /\ pc = "activate"
  /\ app' = [app EXCEPT ![Other(running)] = plan]
  /\ Goto("selectTarget")
  /\ UNCHANGED <<boot, fresh, assets, backup, journal, compact>>

SelectTarget ==
  /\ pc = "selectTarget"
  /\ boot' = Other(running)
  /\ fresh' = TRUE
  /\ Goto("restart")
  /\ UNCHANGED <<app, assets, backup, journal, compact>>

\* handleCombinedBundleFinished aborts once more when the abort in the upload
\* callback left the transaction pending.
AbortAgain ==
  /\ pc = "idle" /\ caller = "abort" /\ ~Idle
  /\ pc' = "recover"
  /\ caller' = "finish"
  /\ UNCHANGED <<flash, running, status, plan, record, at, faults, updates>>

\* The client stops sending, a hash differs, or the minute buffer cannot be
\* saved: the update is abandoned at run time.
Abandon ==
  /\ pc \in {"begun", "download", "writeAssets", "flush", "activate"}
  /\ UNCHANGED flash
  /\ AbortUpdate
  /\ UNCHANGED <<faults, updates>>
-----------------------------------------------------------------------------
(***************************************************************************)
(* Faults.                                                                 *)
(***************************************************************************)
Fault(kind) ==
  /\ kind \in FaultKind
  /\ faults < MaxFaults
  /\ faults' = faults + 1
  /\ UNCHANGED updates

\* A journal erase that stops after a prefix: earlier entries are blank, and
\* entry k may have lost bytes before its marker.
PrefixErased(entries, k) ==
  [i \in Entries |->
     IF i < k THEN BlankEntry
     ELSE IF i = k /\ entries[i].done THEN CorruptEntry
     ELSE entries[i]]

\* What an interrupted operation may leave in flash; anything not listed here
\* looks the same as an interruption before or after it.
PartialEffect ==
  /\ \/ UNCHANGED journal
     \/ /\ pc = "eraseJournal"
        /\ "torn_erase" \in FaultKind
        /\ \E k \in Entries :
             journal' = [journal EXCEPT ![record.target] = PrefixErased(@, k)]
     \/ /\ pc = "append"
        /\ Fits(record.target, record.state) # {}
        /\ LET i == FirstFit(record.target, record.state) IN
           \E states \in TornOpen(record.state, journal[record.target][i].open) :
             journal' = [journal EXCEPT ![record.target][i] = OpenEntry(states)]
     \/ /\ pc = "commit"
        /\ journal' = [journal EXCEPT ![record.target][at] = DoneEntry(record)]
  /\ UNCHANGED <<app, boot, fresh, assets, backup, compact>>

PowerCut ==
  /\ Fault("cut")
  /\ pc # "off"
  /\ PartialEffect
  /\ PowerOff

\* A read, erase, write or boot-slot selection reports an error.
IoFailure ==
  /\ Fault("io")
  /\ pc \in RecoverPc \union AppendPc \union (UpdatePc \ {"begun"})
  /\ \/ PartialEffect
     \/ /\ pc = "selectTarget"
        /\ boot' = Other(running) /\ fresh' = TRUE
        /\ UNCHANGED <<app, assets, backup, journal, compact>>
  /\ OperationFails

\* Marking the image valid reports an error.
MarkValidFails ==
  /\ Fault("io")
  /\ pc = "setup" /\ Mounted
  /\ UNCHANGED flash
  /\ ConfirmFails

\* The new assets turn out damaged before they are confirmed.
Damage ==
  /\ Fault("damage")
  /\ pc \in {"off", "setup"}
  /\ \E s \in Slot : Pending(s) /\ Latest(s).state = "Verified"
  /\ assets' = None
  /\ UNCHANGED <<app, boot, fresh, backup, journal, compact, ram>>
-----------------------------------------------------------------------------
\* A working device that has never been updated.
Init ==
  /\ \E v \in Version :
       /\ app = [s \in Slot |-> IF s = 0 THEN v ELSE None]
       /\ assets = AssetsOf[v]
       /\ plan = v
       /\ record = [state |-> "Complete", target |-> 0, oldApp |-> v, newApp |-> v,
                    oldAssets |-> AssetsOf[v], newAssets |-> AssetsOf[v]]
  /\ boot = 0 /\ fresh = FALSE
  /\ backup = [s \in Slot |-> None]
  /\ journal = [s \in Slot |-> [i \in Entries |-> BlankEntry]]
  /\ compact = FALSE
  /\ running = 0 /\ pc = "off" /\ caller = "boot" /\ status = "not_checked"
  /\ at = 1 /\ faults = 0 /\ updates = 0

Firmware ==
  \/ Recover \/ EraseAssets \/ RestoreAssets \/ SelectSource
  \/ AppendRecord \/ AppendCommit
  \/ Boot \/ Setup \/ Migrate \/ Restart
  \/ BeginPayload \/ FinishFirmware \/ EraseJournal \/ EraseBackup \/ CopyBackup
  \/ EraseOldAssets \/ WriteAssets \/ Verify \/ FlushHistory
  \/ ActivateImage \/ SelectTarget \/ Abandon

Next ==
  \/ Firmware
  \/ \E v \in Version : BeginUpdate(v)
  \/ AbortAgain
  \/ PowerCut \/ IoFailure \/ MarkValidFails \/ Damage

Spec == Init /\ [][Next]_vars

\* The firmware is one loop on one core under a watchdog: it keeps executing
\* while it is powered, and a client that stops sending runs into the timeout
\* that abandons the update.
FairSpec == Spec /\ WF_vars(Firmware)
-----------------------------------------------------------------------------
(***************************************************************************)
(* Properties.                                                             *)
(***************************************************************************)
TypeOK ==
  /\ app \in [Slot -> Version \union {None}]
  /\ boot \in Slot /\ running \in Slot
  /\ fresh \in BOOLEAN /\ compact \in BOOLEAN
  /\ assets \in AssetImage \union {None}
  /\ backup \in [Slot -> AssetImage \union {None}]
  /\ journal \in [Slot -> [Entries -> JournalEntry]]
  /\ pc \in Pc /\ caller \in Caller /\ status \in Status
  /\ plan \in Version /\ record \in Record /\ at \in Entries
  /\ faults \in 0..MaxFaults /\ updates \in 0..MaxUpdates

\* Unless a transaction is pending, the assets are those of the image the boot
\* loader starts next: at every flash operation of an update or a recovery,
\* interrupted or not, the pair is either whole or journalled for repair.
PairAtomic ==
  (\A s \in Slot : ~Pending(s)) => app[boot] # None /\ assets = AssetsOf[app[boot]]

\* While a transaction is pending the old pair can be restored in full: the
\* source image is untouched and the backup is complete (Engine::recover
\* depends on both, and prepare() must have finished before Ready commits).
OldPairKept ==
  \A s \in Slot : Pending(s) => OldPairIntact(Latest(s))

\* recover() is never asked to choose between two pending transactions.
OnePending == ~(\A s \in Slot : Pending(s))

\* A power cut alone never makes recover() give up.
\* (tests/native/asset_rollback.cpp:110 asserts this after every cut.)
RecoveryDecides == pc = "recover" => Verdict # "recovery_failed"

\* append() always finds an entry: interrupted writes never use up the journal.
JournalRoom == pc = "append" => Fits(record.target, record.state) # {}

\* A device that reports a settled status runs an image with its own assets.
SettledPair ==
  pc \in {"migrate", "idle"} /\ status \in {"clean", "restored", "ready"}
    => assets = AssetsOf[app[running]]

\* Once the history is in the compact format, whatever image the boot loader
\* or a rollback may start can read it (main.cpp:529-531).
MigrationSafe ==
  compact => \A s \in Slot : app[s] \in Reader \union {None}

\* The image the boot loader starts is complete, and so is the source of a
\* pending transaction it may fall back to.
BootableAlways ==
  /\ app[boot] # None
  /\ fresh => app[Other(boot)] # None

\* A committed journal entry is only ever removed by the erase that starts
\* the next transaction in the same slot, and only when nothing is pending.
CommittedStays ==
  [][\A s \in Slot : \A i \in Committed(s) :
       journal'[s][i] # journal[s][i] =>
         /\ pc = "eraseJournal" /\ s = record.target
         /\ \A t \in Slot : ~Pending(t)]_vars

\* Whatever the power does, every transaction is eventually completed or undone.
TransactionEnds ==
  (\E s \in Slot : Pending(s)) ~> (\A s \in Slot : ~Pending(s))

(***************************************************************************)
(* The release UpdatePair sees: the old one until the transaction is       *)
(* Complete, and the new one on trial once the boot slot has been switched *)
(* to it with verified assets.                                             *)
(***************************************************************************)
Installed ==
  IF \E s \in Slot : Pending(s) THEN Latest(PendingSlot).oldApp ELSE app[boot]

Trial ==
  IF \E s \in Slot : Pending(s) /\ Latest(s).state = "Verified" /\ boot = s
    THEN Latest(PendingSlot).newApp ELSE None

Pair == INSTANCE UpdatePair WITH installed <- Installed, trial <- Trial

\* The journalled update implements the trial of a whole release.
ImplementsUpdatePair == Pair!Spec
=============================================================================
