----------------------- MODULE AssetRollbackRefinement -----------------------
(***************************************************************************)
(* The journalled update implements UpdatePair, for every set of releases, *)
(* every journal and every number of faults: whatever is interrupted, the  *)
(* device has one installed release, a new one is first on trial, and it   *)
(* is accepted or rejected as a whole.                                     *)
(***************************************************************************)
EXTENDS AssetRollbackProofs

OnTrial(t) == Latest(t).state = "Verified" /\ boot = t

ViewFacts ==
  OnePending =>
    /\ Quiet => Installed = app[boot] /\ Trial = None
    /\ \A t \in Slot : Pending(t) =>
         /\ Installed = Latest(t).oldApp
         /\ OnTrial(t) => Trial = Latest(t).newApp
         /\ ~OnTrial(t) => Trial = None

\* UpdatePair's state in each of the two cases: with nothing pending the
\* installed release is the one that starts; otherwise the one backed up.
LEMMA View == ViewFacts
<1> SUFFICES ASSUME OnePending
    PROVE  /\ Quiet => Installed = app[boot] /\ Trial = None
           /\ \A t \in Slot : Pending(t) =>
                /\ Installed = Latest(t).oldApp
                /\ OnTrial(t) => Trial = Latest(t).newApp
                /\ ~OnTrial(t) => Trial = None
  BY DEF ViewFacts
<1>1. ASSUME Quiet PROVE Installed = app[boot] /\ Trial = None
  BY <1>1 DEF Quiet, Installed, Trial
<1>2. ASSUME NEW t \in Slot, Pending(t)
      PROVE  /\ Installed = Latest(t).oldApp
             /\ OnTrial(t) => Trial = Latest(t).newApp
             /\ ~OnTrial(t) => Trial = None
  <2>1. \A s \in Slot : Pending(s) => s = t
    BY <1>2, SlotsDiffer DEF OnePending
  <2>2. PendingSlot = t
    BY <1>2, <2>1, PendingSlotPends
  <2> QED BY <1>2, <2>1, <2>2 DEF Installed, Trial, OnTrial
<1> QED BY <1>1, <1>2

LEMMA ViewAfter == ViewFacts'
BY View, PTL

LEMMA ReadShapeAfter == ShapeFacts'
BY ReadShape, PTL

Stutters == Installed' = Installed /\ Trial' = Trial

\* A step that leaves the journals alone, and the boot slot as far as it
\* matters, is not seen.
LEMMA Unseen ==
  ASSUME IInv, FlashInv', SameJournal,
         Quiet => app'[boot'] = app[boot],
         \A s \in Slot : Pending(s) => (boot' = s <=> boot = s)
  PROVE  Stutters
<1>1. OnePending /\ OnePending'
  BY DEF IInv, FlashInv
<1>2. CASE Quiet
  <2>1. Quiet'
    BY <1>2 DEF SameJournal
  <2> QED BY <1>1, <1>2, <2>1, View, ViewAfter DEF ViewFacts, Stutters
<1>3. ASSUME NEW s \in Slot, Pending(s) PROVE Stutters
  <2>1. Pending(s)' /\ Latest(s)' = Latest(s)
    BY <1>3 DEF SameJournal, Pending
  <2>2. OnTrial(s)' = OnTrial(s)
    BY <1>3, <2>1 DEF OnTrial
  <2> QED BY <1>1, <1>3, <2>1, <2>2, View, ViewAfter DEF ViewFacts, Stutters
<1> QED BY <1>2, <1>3 DEF Quiet

\* append() up to the marker.
LEMMA OpenUnseen ==
  ASSUME IInv, pc = "append", NEW states \in SUBSET State, record.state \in states,
         journal' = [journal EXCEPT
           ![record.target][FirstFit(record.target, record.state)] = OpenEntry(states)],
         UNCHANGED <<app, boot, fresh, assets, backup>>
  PROVE  Stutters
<1>1. FlashInv' /\ \A s \in Slot :
        Pending(s)' = Pending(s) /\ (Found(s) => Latest(s)' = Latest(s))
  BY OpenWritten
<1>2. OnePending /\ OnePending'
  BY <1>1 DEF IInv, FlashInv
<1>3. CASE Quiet
  <2>1. Quiet'
    BY <1>1, <1>3 DEF Quiet
  <2> QED BY <1>2, <1>3, <2>1, View, ViewAfter DEF ViewFacts, Stutters
<1>4. ASSUME NEW s \in Slot, Pending(s) PROVE Stutters
  <2>1. Pending(s)' /\ Latest(s)' = Latest(s)
    BY <1>1, <1>4 DEF Pending
  <2>2. OnTrial(s)' = OnTrial(s)
    BY <2>1 DEF OnTrial
  <2> QED BY <1>2, <1>4, <2>1, <2>2, View, ViewAfter DEF ViewFacts, Stutters
<1> QED BY <1>3, <1>4 DEF Quiet

\* The marker: Ready and Verified are not seen, Complete is the acceptance, and
\* Restored comes after the rejection.
LEMMA MarkerSeen ==
  ASSUME IInv, pc = "commit", NEW t \in Slot, t = record.target,
         journal' = [journal EXCEPT ![t][at] = DoneEntry(record)],
         UNCHANGED <<app, boot, fresh, assets, backup>>
  PROVE  Stutters \/ Pair!Accept
<1> DEFINE o == Other(t)
<1>1. /\ o \in Slot /\ t # o /\ Slot = {t, o} /\ pc \in AppendPc
      /\ record.state \in State /\ record \in Record /\ running \in Slot
  BY RecordTyped, SlotsDiffer DEF AppendPc
<1>2. /\ FlashInv'
      /\ record.state = "Ready" => ReadyShape(t)' /\ Latest(t)' = record
      /\ record.state = "Verified" => VerifiedShape(t)' /\ Latest(t)' = record
      /\ record.state \in Terminal => Quiet'
  BY RecordCommitted
<1>3. OnePending /\ OnePending'
  BY <1>2 DEF IInv, FlashInv
<1>4. (ReadyShape(t)' \/ VerifiedShape(t)') => Pending(t)'
  BY ReadShapeAfter DEF ShapeFacts
<1>5. Quiet' => Installed' = app[boot] /\ Trial' = None
  BY <1>3, ViewAfter DEF ViewFacts
<1>6. ASSUME NEW r \in Record, Pending(t)', Latest(t)' = r, ~(r.state = "Verified" /\ boot = t)
      PROVE  Installed' = r.oldApp /\ Trial' = None
  <2>1. ~OnTrial(t)'
    BY <1>6 DEF OnTrial
  <2> QED BY <1>3, <1>6, <2>1, ViewAfter DEF ViewFacts
<1>7. CASE record.state = "Ready"
  <2>1. Quiet /\ record.oldApp = app[running] /\ running = boot
    BY <1>1, <1>7 DEF IInv, StepInv, PrepareInv, PreparePc, RunningInv, AppendPc
  <2>2. Installed = app[boot] /\ Trial = None
    BY <1>3, <2>1, View DEF ViewFacts
  <2>3. Installed' = record.oldApp /\ Trial' = None
    BY <1>1, <1>2, <1>4, <1>6, <1>7
  <2> QED BY <2>1, <2>2, <2>3 DEF Stutters
<1>8. CASE record.state = "Verified"
  <2>1. /\ t = Other(running) /\ boot = running /\ ReadyShape(t)
        /\ record = [Latest(t) EXCEPT !.state = "Verified"]
    BY <1>1, <1>8 DEF IInv, StepInv, UploadInv
  <2>2. Pending(t) /\ Latest(t) = journal[t][1].rec /\ Latest(t) \in Record /\ ~OnTrial(t)
    BY <2>1, ReadShape DEF ShapeFacts, ReadyShape, OnTrial
  <2>3. record.oldApp = Latest(t).oldApp
    BY <2>1, <2>2 DEF Record
  <2>4. Installed = Latest(t).oldApp /\ Trial = None
    BY <1>3, <2>2, View DEF ViewFacts
  <2>5. boot # t
    BY <1>1, <2>1, SlotsDiffer
  <2>6. Installed' = record.oldApp /\ Trial' = None
    BY <1>1, <1>2, <1>4, <1>6, <1>8, <2>5
  <2> QED BY <2>3, <2>4, <2>6 DEF Stutters
<1>9. CASE record.state = "Complete"
  <2>1. /\ t = running /\ boot = t /\ VerifiedShape(t)
    BY <1>1, <1>9 DEF IInv, StepInv, ConfirmInv
  <2>2. Pending(t) /\ Latest(t) \in Record /\ Latest(t).state = "Verified"
    BY <2>1, ReadShape DEF ShapeFacts, VerifiedShape
  <2>3. Trial = Latest(t).newApp
    BY <1>3, <2>1, <2>2, View DEF ViewFacts, OnTrial
  <2>4. app[boot] = Latest(t).newApp
    BY <2>1, <2>2 DEF IInv, FlashInv, SlotInv
  <2>5. Trial # None
    BY <2>2, <2>3, ImageAssumption DEF Record
  <2>6. Installed' = Trial /\ Trial' = None
    BY <1>2, <1>5, <1>9, <2>3, <2>4 DEF Terminal
  <2> QED BY <2>5, <2>6 DEF Pair!Accept
<1>10. CASE record.state = "Restored"
  <2>1. Pending(t) /\ boot = Other(t)
    BY <1>1, <1>10 DEF IInv, StepInv, RestoreInv, RestorePc
  <2>2. app[boot] = Latest(t).oldApp
    BY <2>1, LatestTyped DEF IInv, FlashInv, OldPairInv, OldPairIntact
  <2>3. ~OnTrial(t)
    BY <1>1, <2>1 DEF OnTrial
  <2>4. Installed = app[boot] /\ Trial = None
    BY <1>3, <2>1, <2>2, <2>3, View DEF ViewFacts
  <2>5. Installed' = app[boot] /\ Trial' = None
    BY <1>2, <1>5, <1>10 DEF Terminal
  <2> QED BY <2>4, <2>5 DEF Stutters
<1> QED BY <1>1, <1>7, <1>8, <1>9, <1>10 DEF State

\* prepare() erases the journal, in whole or in part, with nothing pending.
LEMMA EraseUnseen ==
  ASSUME IInv, pc = "eraseJournal",
         \/ journal' = [journal EXCEPT ![record.target] = [i \in Entries |-> BlankEntry]]
         \/ "torn_erase" \in FaultKind /\ \E k \in Entries :
              journal' = [journal EXCEPT ![record.target] = PrefixErased(@, k)],
         UNCHANGED <<app, boot, fresh, assets, backup>>
  PROVE  Stutters
<1>1. Quiet
  BY DEF IInv, StepInv, PrepareInv, PreparePc
<1>2. FlashInv' /\ Quiet'
  BY JournalErased, RecordTyped
<1>3. OnePending /\ OnePending'
  BY <1>2 DEF IInv, FlashInv
<1> QED BY <1>1, <1>2, <1>3, View, ViewAfter DEF ViewFacts, Stutters

LEMMA PartialSeen ==
  ASSUME IInv, PartialEffect
  PROVE  Stutters \/ Pair!Accept
<1>0. UNCHANGED <<app, boot, fresh, assets, backup>>
  BY DEF PartialEffect
<1>1. CASE UNCHANGED journal
  BY <1>0, <1>1, FlashSame, Unseen
<1>2. ASSUME NEW k \in Entries, pc = "eraseJournal", "torn_erase" \in FaultKind,
             journal' = [journal EXCEPT ![record.target] = PrefixErased(@, k)]
      PROVE  Stutters
  BY <1>0, <1>2, EraseUnseen
<1>3. ASSUME pc = "append", NEW states \in
               TornOpen(record.state, journal[record.target][FirstFit(record.target, record.state)].open),
             journal' = [journal EXCEPT ![record.target][FirstFit(record.target, record.state)]
                                           = OpenEntry(states)]
      PROVE  Stutters
  <2> DEFINE open == journal[record.target][FirstFit(record.target, record.state)].open
  <2>1. record.state \in open /\ open \in SUBSET State
    BY <1>3, RecordTyped, AppendPlace DEF Fits, JournalEntry
  <2>2. states \in SUBSET State /\ record.state \in states
    BY <1>3, <2>1 DEF TornOpen, BitSubset
  <2> QED BY <1>0, <1>3, <2>2, OpenUnseen
<1>4. ASSUME pc = "commit",
             journal' = [journal EXCEPT ![record.target][at] = DoneEntry(record)]
      PROVE  Stutters \/ Pair!Accept
  BY <1>0, <1>4, MarkerSeen, RecordTyped
<1> QED BY <1>1, <1>2, <1>3, <1>4 DEF PartialEffect

\* The boot slot moves to the new image, which is tried, or back from it.
LEMMA SwitchSeen ==
  ASSUME IInv, FlashInv', SameJournal, NEW t \in Slot, Pending(t)
  PROVE  /\ boot' = t => Stutters \/ \E v \in Version : Pair!Try(v)
         /\ boot' # t => Stutters \/ Pair!Reject
<1>1. OnePending /\ OnePending'
  BY DEF IInv, FlashInv
<1>2. Pending(t)' /\ Latest(t)' = Latest(t)
  BY DEF SameJournal, Pending
<1>3. Latest(t).newApp \in Version
  BY LatestTyped DEF Record
<1>4. /\ Installed = Latest(t).oldApp
      /\ OnTrial(t) => Trial = Latest(t).newApp
      /\ ~OnTrial(t) => Trial = None
  BY <1>1, View DEF ViewFacts
<1>5. /\ Installed' = Latest(t).oldApp
      /\ OnTrial(t)' => Trial' = Latest(t).newApp
      /\ ~OnTrial(t)' => Trial' = None
  BY <1>1, <1>2, ViewAfter DEF ViewFacts
<1>6. /\ boot' # t => ~OnTrial(t)'
      /\ boot' = t => (OnTrial(t)' <=> Latest(t).state = "Verified")
  BY <1>2 DEF OnTrial
<1>7. ASSUME boot' = t PROVE Stutters \/ \E v \in Version : Pair!Try(v)
  <2>1. CASE OnTrial(t) \/ Latest(t).state # "Verified"
    BY <1>4, <1>5, <1>6, <1>7, <2>1 DEF Stutters, OnTrial
  <2>2. CASE ~OnTrial(t) /\ Latest(t).state = "Verified"
    <3>1. Pair!Try(Latest(t).newApp)
      BY <1>4, <1>5, <1>6, <1>7, <2>2 DEF Pair!Try
    <3> QED BY <1>3, <3>1
  <2> QED BY <2>1, <2>2
<1>8. ASSUME boot' # t PROVE Stutters \/ Pair!Reject
  <2>1. CASE OnTrial(t)
    BY <1>3, <1>4, <1>5, <1>6, <1>8, <2>1, ImageAssumption DEF Pair!Reject
  <2>2. CASE ~OnTrial(t)
    BY <1>4, <1>5, <1>6, <1>8, <2>2 DEF Stutters
  <2> QED BY <2>1, <2>2
<1> QED BY <1>7, <1>8
-----------------------------------------------------------------------------
LEMMA RefinementStep ==
  ASSUME IInv, [Next]_vars PROVE [Pair!Next]_(Pair!vars)
<1> SUFFICES Stutters \/ Pair!Next
  BY DEF Stutters, Pair!vars
<1>0. FlashInv'
  BY FlashStep
<1>1. CASE \/ UNCHANGED vars
           \/ Recover \/ Restart \/ Migrate \/ FinishFirmware \/ Verify \/ FlushHistory
           \/ Abandon \/ AbortAgain \/ MarkValidFails \/ Damage
           \/ EraseAssets \/ RestoreAssets \/ EraseOldAssets \/ WriteAssets
           \/ Setup \/ EraseBackup \/ CopyBackup
           \/ \E v \in Version : BeginUpdate(v)
  <2>1. UNCHANGED <<app, boot, journal>>
    BY <1>1
    DEF vars, Recover, Restart, Migrate, FinishFirmware, Verify, FlushHistory, Abandon,
        AbortAgain, MarkValidFails, Damage, EraseAssets, RestoreAssets, EraseOldAssets,
        WriteAssets, Setup, Goto, EraseBackup, CopyBackup, BeginUpdate, flash
  <2> QED BY <1>0, <2>1, JournalStays, Unseen
<1>2. CASE AppendRecord
  <2>1. journal' = [journal EXCEPT
          ![record.target][FirstFit(record.target, record.state)] = OpenEntry({record.state})]
        /\ UNCHANGED <<app, boot, fresh, assets, backup>> /\ pc = "append"
    BY <1>2, AppendPlace DEF AppendRecord
  <2>2. {record.state} \in SUBSET State
    BY RecordTyped
  <2> QED BY <2>1, <2>2, OpenUnseen
<1>3. CASE AppendCommit
  BY <1>3, MarkerSeen, RecordTyped DEF AppendCommit, Pair!Next
<1>4. CASE EraseJournal
  BY <1>4, EraseUnseen DEF EraseJournal
<1>5. CASE BeginPayload
  <2>1. UNCHANGED <<boot, journal>>
    BY <1>5 DEF BeginPayload
  <2>2. CASE ~Blocked /\ Idle
    <3>1. Quiet /\ running = boot
      BY <1>5, <2>2 DEF BeginPayload, Idle, Quiet, IInv, StepInv, RunningInv
    <3>2. app'[boot] = app[boot]
      BY <1>5, <2>2, <3>1, RecordTyped, SlotsDiffer DEF BeginPayload, IInv, TypeOK
    <3> QED BY <1>0, <2>1, <3>2, JournalStays, Unseen
  <2>3. CASE ~(~Blocked /\ Idle)
    BY <1>0, <1>5, <2>1, <2>3, JournalStays, Unseen DEF BeginPayload
  <2> QED BY <2>2, <2>3
<1>6. CASE ActivateImage
  <2>1. Pending(Other(running)) /\ ~Quiet /\ UNCHANGED <<boot, journal>>
    BY <1>6, ReadShape, RecordTyped, SlotsDiffer
    DEF ActivateImage, IInv, StepInv, UploadInv, ShapeFacts, Quiet
  <2> QED BY <1>0, <2>1, JournalStays, Unseen
<1>7. CASE Boot
  <2>1. UNCHANGED <<app, journal>>
    BY <1>7 DEF Boot
  <2>2. CASE boot' = boot
    BY <1>0, <2>1, <2>2, JournalStays, Unseen
  <2>3. CASE fresh /\ boot' = Other(boot)
    <3>1. Pending(boot) /\ boot' # boot /\ boot \in Slot
      BY <2>3, RecordTyped, SlotsDiffer DEF IInv, FlashInv, SlotInv
    <3> QED BY <1>0, <2>1, <3>1, JournalStays, SwitchSeen DEF Pair!Next
  <2> QED BY <1>7, <2>2, <2>3 DEF Boot
<1>8. CASE SelectSource
  <2>1. Pending(record.target) /\ record.target \in Slot
    BY <1>8, RecordTyped DEF SelectSource, IInv, StepInv, RestoreInv, RestorePc
  <2>2. UNCHANGED <<app, journal>> /\ boot' = Other(record.target)
    BY <1>8 DEF SelectSource
  <2> QED BY <1>0, <2>1, <2>2, JournalStays, SwitchSeen, SlotsDiffer DEF Pair!Next
<1>9. ASSUME pc = "selectTarget", boot' = Other(running), UNCHANGED <<app, journal>>
      PROVE  Stutters \/ Pair!Next
  <2>1. Pending(Other(running)) /\ Other(running) \in Slot
    BY <1>9, ReadShape, RecordTyped, SlotsDiffer DEF IInv, StepInv, UploadInv, ShapeFacts
  <2> QED BY <1>0, <1>9, <2>1, JournalStays, SwitchSeen DEF Pair!Next
<1>10. CASE SelectTarget
  BY <1>9, <1>10 DEF SelectTarget
<1>11. CASE PowerCut
  BY <1>11, PartialSeen DEF PowerCut, Pair!Next
<1>12. CASE IoFailure
  BY <1>9, <1>12, PartialSeen DEF IoFailure, Pair!Next
<1> QED
  BY <1>1, <1>2, <1>3, <1>4, <1>5, <1>6, <1>7, <1>8, <1>10, <1>11, <1>12
  DEF Next, Firmware

\* Every behaviour of the journalled update, faults included, is one of
\* UpdatePair as far as safety goes: Engine::prepare(), activation and confirm()
\* together accept a release or leave the installed one, never a mixture.
THEOREM UpdateIsTransactional == Spec => Pair!Init /\ [][Pair!Next]_(Pair!vars)
<1>1. Init => Pair!Init
  <2> SUFFICES ASSUME Init PROVE Pair!Init
    OBVIOUS
  <2>1. IInv /\ Quiet
    BY InitIInv
    DEF Init, Quiet, Committed, Pending, Found, BlankEntry
  <2>2. Installed = app[boot] /\ Trial = None
    BY <2>1, View DEF ViewFacts, IInv, FlashInv
  <2>3. app[boot] \in Version
    BY DEF Init, Slot
  <2> QED BY <2>2, <2>3 DEF Pair!Init
<1>2. IInv /\ [Next]_vars => [Pair!Next]_(Pair!vars)
  BY RefinementStep
<1> QED BY Invariance, <1>1, <1>2, PTL DEF Spec
=============================================================================
