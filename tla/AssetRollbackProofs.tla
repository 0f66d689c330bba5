------------------------ MODULE AssetRollbackProofs ------------------------
(***************************************************************************)
(* AssetRollback for every set of releases, every journal of at least four *)
(* entries and every number of faults and updates: the inductive           *)
(* invariant, and the safety properties that follow from it.               *)
(***************************************************************************)
EXTENDS AssetRollback, TLAPS

Quiet == \A s \in Slot : ~Pending(s)

BlankFrom(s, n) == \A i \in Entries : i >= n => journal[s][i] = BlankEntry

(***************************************************************************)
(* What the journal of a pending transaction looks like: Ready in entry 1, *)
(* perhaps Verified in entry 2, and room behind them for the record that   *)
(* will end it, whatever interrupted writes have left there.               *)
(***************************************************************************)
ReadyShape(s) ==
  /\ Committed(s) = {1}
  /\ journal[s][1].rec \in Record
  /\ journal[s][1].rec.state = "Ready"
  /\ journal[s][1].rec.target = s
  /\ "Restored" \in journal[s][3].open

VerifiedShape(s) ==
  /\ Committed(s) = {1, 2}
  /\ journal[s][1].rec \in Record
  /\ journal[s][1].rec.target = s
  /\ journal[s][2].rec \in Record
  /\ journal[s][2].rec.state = "Verified"
  /\ journal[s][2].rec.target = s
  /\ SameTransaction(journal[s][1].rec, journal[s][2].rec)
  /\ "Restored" \in journal[s][4].open
  /\ boot = s => "Complete" \in journal[s][3].open

ShapeInv == \A s \in Slot : Pending(s) => ReadyShape(s) \/ VerifiedShape(s)

IsLast(s, i) == i \in Committed(s) /\ \A j \in Committed(s) : j <= i

LastInv == \A s \in Slot : Found(s) => \E i \in Entries : IsLast(s, i)

ReadableInv == "torn_erase" \notin FaultKind => \A s \in Slot : Readable(s)

OldPairInv ==
  \A s \in Slot : Pending(s) =>
    /\ OldPairIntact(Latest(s))
    /\ Latest(s).oldAssets = AssetsOf[Latest(s).oldApp]
    /\ Latest(s).newAssets = AssetsOf[Latest(s).newApp]

SlotInv ==
  /\ \A s \in Slot : Pending(s) /\ boot = s =>
       VerifiedShape(s) /\ app[s] = Latest(s).newApp
  /\ fresh => Pending(boot)

\* Nothing here depends on what the firmware is doing.
FlashInv ==
  /\ OnePending /\ ShapeInv /\ LastInv /\ ReadableInv
  /\ OldPairInv /\ SlotInv /\ PairAtomic

RunningInv ==
  pc \notin {"off", "restart"} =>
    /\ Quiet => running = boot
    /\ \A s \in Slot : Pending(s) /\ running = s => boot = s

StatusInv ==
  /\ status \in {"clean", "restored", "ready"} /\ pc \notin RecoverPc \union AppendPc
       => Quiet
  /\ pc = "setup" => status \in {"clean", "restored", "new_ready", "recovery_failed"}

\* prepare(): nothing is pending, and the record describes both pairs.
PreparePc ==
  \/ pc \in {"eraseJournal", "eraseBackup", "copyBackup"}
  \/ pc \in AppendPc /\ record.state = "Ready"

PrepareInv ==
  /\ pc = "download" => Quiet
  /\ pc = "eraseJournal" => Idle
  /\ pc \in {"eraseJournal", "eraseBackup", "copyBackup"} => record.state = "Ready"
  /\ PreparePc =>
       /\ Quiet
       /\ record.target = Other(running)
       /\ record.oldApp = app[running] /\ record.newApp = plan
       /\ record.oldAssets = assets /\ record.newAssets = AssetsOf[plan]
  /\ pc \in {"eraseBackup", "copyBackup"} => BlankFrom(record.target, 1)
  /\ pc \in AppendPc /\ record.state = "Ready" => backup[record.target] = assets
  /\ pc = "append" /\ record.state = "Ready" => BlankFrom(record.target, 1)
  /\ pc = "commit" /\ record.state = "Ready" =>
       /\ at = 1
       /\ journal[record.target][1] = OpenEntry({"Ready"})
       /\ BlankFrom(record.target, 2)

\* The assets are being replaced, up to the switch of the boot slot.
UploadInv ==
  /\ pc \in {"eraseOldAssets", "writeAssets", "verify"} =>
       /\ ReadyShape(Other(running)) /\ BlankFrom(Other(running), 2)
       /\ Latest(Other(running)).newApp = plan
       /\ boot = running
  /\ pc \in AppendPc /\ record.state = "Verified" =>
       /\ record.target = Other(running)
       /\ ReadyShape(Other(running)) /\ BlankFrom(Other(running), 3)
       /\ record = [Latest(Other(running)) EXCEPT !.state = "Verified"]
       /\ record.newApp = plan
       /\ boot = running
  /\ pc = "append" /\ record.state = "Verified" => BlankFrom(Other(running), 2)
  /\ pc = "commit" /\ record.state = "Verified" =>
       at = 2 /\ journal[Other(running)][2] = OpenEntry({"Verified"})
  /\ pc \in {"flush", "activate", "selectTarget"} =>
       /\ VerifiedShape(Other(running)) /\ BlankFrom(Other(running), 3)
       /\ Latest(Other(running)).newApp = plan
       /\ boot = running
  /\ pc = "selectTarget" => app[Other(running)] = plan

\* The old pair is being restored.
RestorePc ==
  \/ pc \in {"eraseAssets", "restoreAssets", "selectSource"}
  \/ pc \in AppendPc /\ record.state = "Restored"

RestoreInv ==
  /\ RestorePc =>
       /\ Pending(record.target)
       /\ record = [Latest(record.target) EXCEPT !.state = "Restored"]
  /\ RestorePc /\ pc \notin {"eraseAssets", "restoreAssets"} =>
       assets = record.oldAssets
  /\ pc \in AppendPc /\ record.state = "Restored" =>
       boot = running /\ running = Other(record.target) /\ ~fresh
  /\ pc = "commit" /\ record.state = "Restored" =>
       /\ at \in 2..4 /\ at \notin Committed(record.target)
       /\ journal[record.target][at] = OpenEntry({"Restored"})

\* The new pair is being confirmed.
ConfirmInv ==
  /\ pc \in AppendPc /\ record.state = "Complete" =>
       /\ record.target = running /\ VerifiedShape(running)
       /\ record = [Latest(running) EXCEPT !.state = "Complete"]
       /\ boot = running /\ ~fresh
       /\ assets = record.newAssets
  /\ pc = "commit" /\ record.state = "Complete" =>
       at = 3 /\ journal[running][3] = OpenEntry({"Complete"})

StepInv ==
  RunningInv /\ StatusInv /\ PrepareInv /\ UploadInv /\ RestoreInv /\ ConfirmInv

IInv == TypeOK /\ FlashInv /\ StepInv
ShapeFacts ==
  \A s \in Slot :
    /\ ReadyShape(s) =>
         /\ Readable(s) /\ Found(s) /\ Pending(s)
         /\ Latest(s) = journal[s][1].rec
    /\ VerifiedShape(s) =>
         /\ Readable(s) /\ Found(s) /\ Pending(s)
         /\ Latest(s) = journal[s][2].rec

\* The shape of a pending journal determines what Engine::latest reads in it.
LEMMA ReadShape == ShapeFacts
<1>1. ASSUME NEW s \in Slot, ReadyShape(s)
      PROVE /\ Readable(s) /\ Found(s) /\ Pending(s)
            /\ Latest(s) = journal[s][1].rec
  <2>1. LastCommitted(s) = 1
    BY <1>1 DEF ReadyShape, LastCommitted
  <2>2. Latest(s) = journal[s][1].rec
    BY <2>1 DEF Latest
  <2> QED
    BY <1>1, <2>2, ImageAssumption DEF ReadyShape, Readable, Found, Pending, SameTransaction, Terminal
<1>2. ASSUME NEW s \in Slot, VerifiedShape(s)
      PROVE /\ Readable(s) /\ Found(s) /\ Pending(s)
            /\ Latest(s) = journal[s][2].rec
  <2>1. LastCommitted(s) = 2
    BY <1>2 DEF VerifiedShape, LastCommitted
  <2>2. Latest(s) = journal[s][2].rec
    BY <2>1 DEF Latest
  <2> QED
    BY <1>2, <2>2, ImageAssumption DEF VerifiedShape, Readable, Found, Pending, SameTransaction, Terminal
<1> QED BY <1>1, <1>2 DEF ShapeFacts

\* A step that changes no committed entry of a slot changes nothing recover() reads.
SameRecords(s) ==
  /\ Committed(s)' = Committed(s)
  /\ \A i \in Committed(s) : journal'[s][i] = journal[s][i]

\* Such a step leaves Engine::latest's answer for the slot alone.
LEMMA RecordsKept ==
  ASSUME NEW s \in Slot, LastInv, SameRecords(s)
  PROVE  /\ Readable(s)' = Readable(s) /\ Found(s)' = Found(s)
         /\ Pending(s)' = Pending(s)
         /\ Found(s) => Latest(s)' = Latest(s)
<1>1. Readable(s)' = Readable(s)
  BY DEF SameRecords, Readable
<1>2. Found(s)' = Found(s)
  BY DEF SameRecords, Found
<1>3. ASSUME Found(s) PROVE Latest(s)' = Latest(s)
  <2>1. LastCommitted(s)' = LastCommitted(s)
    BY DEF SameRecords, LastCommitted
  <2>2. LastCommitted(s) \in Committed(s)
    BY <1>3 DEF LastInv, LastCommitted, IsLast
  <2> QED
    BY <2>1, <2>2 DEF SameRecords, Latest
<1> QED
  BY <1>1, <1>2, <1>3 DEF Pending

\* A step that writes only the journal of the other slot is one of those.
LEMMA JournalKept ==
  ASSUME NEW s \in Slot, journal'[s] = journal[s]
  PROVE  SameRecords(s)
BY DEF SameRecords, Committed
-----------------------------------------------------------------------------
(***************************************************************************)
(* append(): which entry takes the record.                                 *)
(***************************************************************************)
\* The first entry that takes a record, when the ones before it do not.
LEMMA FirstFitIs ==
  ASSUME NEW s \in Slot, NEW state \in State, NEW i \in Entries,
         i \in Fits(s, state), \A j \in Entries : j < i => j \notin Fits(s, state)
  PROVE  FirstFit(s, state) = i /\ Fits(s, state) # {}
BY JournalAssumption DEF FirstFit, Fits, Entries

\* The entries a transaction may need exist.
LEMMA FourEntries == 1 \in Entries /\ 2 \in Entries /\ 3 \in Entries /\ 4 \in Entries
BY JournalAssumption DEF Entries

\* The record always finds room, and where.
LEMMA AppendPlace ==
  ASSUME IInv, pc = "append"
  PROVE  /\ Fits(record.target, record.state) # {}
         /\ FirstFit(record.target, record.state) \in Fits(record.target, record.state)
         /\ FirstFit(record.target, record.state) \in Entries
         /\ record.state = "Ready" => FirstFit(record.target, record.state) = 1
         /\ record.state = "Verified" => FirstFit(record.target, record.state) = 2
         /\ record.state = "Complete" => FirstFit(record.target, record.state) = 3
         /\ record.state = "Restored" =>
              /\ FirstFit(record.target, record.state) \in 2..4
              /\ FirstFit(record.target, record.state) \notin Committed(record.target)
<1> DEFINE s == record.target
           F == FirstFit(record.target, record.state)
<1>1. s \in Slot /\ record.state \in State /\ record \in Record
  BY DEF IInv, TypeOK, Record
<1>2. pc \in AppendPc
  BY DEF IInv, AppendPc
<1>3. CASE record.state = "Ready"
  <2>1. 1 \in Fits(s, record.state)
    BY <1>3, <1>1, FourEntries DEF IInv, StepInv, PrepareInv, BlankFrom, Fits, BlankEntry
  <2> QED
    BY <1>3, <1>1, <2>1, FirstFitIs, FourEntries, JournalAssumption DEF Entries
<1>4. CASE record.state = "Verified"
  <2>1. 2 \in Fits(s, record.state) /\ 1 \notin Fits(s, record.state)
    BY <1>4, <1>1, <1>2, FourEntries
    DEF IInv, StepInv, UploadInv, BlankFrom, Fits, BlankEntry, ReadyShape, Committed
  <2> QED
    BY <1>4, <1>1, <2>1, FirstFitIs, FourEntries, JournalAssumption DEF Entries
<1>5. CASE record.state = "Complete"
  <2>1. 3 \in Fits(s, record.state) /\ 1 \notin Fits(s, record.state) /\ 2 \notin Fits(s, record.state)
    BY <1>5, <1>1, <1>2, FourEntries
    DEF IInv, StepInv, ConfirmInv, Fits, VerifiedShape, Committed
  <2> QED
    BY <1>5, <1>1, <2>1, FirstFitIs, FourEntries, JournalAssumption DEF Entries
<1>6. CASE record.state = "Restored"
  <2>1. Pending(s) /\ (ReadyShape(s) \/ VerifiedShape(s))
    BY <1>6, <1>1, <1>2 DEF IInv, FlashInv, StepInv, RestoreInv, RestorePc, ShapeInv
  <2>2. CASE ReadyShape(s)
    <3>1. 3 \in Fits(s, record.state) /\ 1 \notin Fits(s, record.state) /\ 2 \notin Committed(s) /\ 3 \notin Committed(s)
      BY <1>6, <1>1, <2>2, FourEntries DEF Fits, ReadyShape, Committed
    <3>2. CASE 2 \in Fits(s, record.state)
      BY <1>6, <1>1, <3>1, <3>2, FirstFitIs, FourEntries, JournalAssumption DEF Entries
    <3>3. CASE 2 \notin Fits(s, record.state)
      BY <1>6, <1>1, <3>1, <3>3, FirstFitIs, FourEntries, JournalAssumption DEF Entries
    <3> QED BY <3>2, <3>3
  <2>3. CASE VerifiedShape(s)
    <3>1. 4 \in Fits(s, record.state) /\ 1 \notin Fits(s, record.state) /\ 2 \notin Fits(s, record.state)
          /\ 3 \notin Committed(s) /\ 4 \notin Committed(s)
      BY <1>6, <1>1, <2>3, FourEntries DEF Fits, VerifiedShape, Committed
    <3>2. CASE 3 \in Fits(s, record.state)
      BY <1>6, <1>1, <3>1, <3>2, FirstFitIs, FourEntries, JournalAssumption DEF Entries
    <3>3. CASE 3 \notin Fits(s, record.state)
      BY <1>6, <1>1, <3>1, <3>3, FirstFitIs, FourEntries, JournalAssumption DEF Entries
    <3> QED BY <3>2, <3>3
  <2> QED BY <2>1, <2>2, <2>3
<1> QED BY <1>3, <1>4, <1>5, <1>6, <1>1 DEF State
-----------------------------------------------------------------------------
(***************************************************************************)
(* What a step does to the flash.  The first three lemmas are about the    *)
(* steps that write a journal, the fourth about all the others.            *)
(***************************************************************************)
\* What the type invariant says of the variables that index the flash.
LEMMA RecordTyped ==
  ASSUME IInv
  PROVE  /\ record \in Record /\ record.target \in Slot /\ record.state \in State
         /\ at \in Entries /\ running \in Slot /\ boot \in Slot
         /\ journal \in [Slot -> [Entries -> JournalEntry]]
BY DEF IInv, TypeOK, Record

\* There are two slots.
LEMMA SlotsDiffer ==
  ASSUME NEW s \in Slot PROVE Other(s) \in Slot /\ Other(s) # s /\ Slot = {s, Other(s)}
BY DEF Slot, Other

\* append() before the marker, completed or interrupted.
LEMMA OpenWritten ==
  ASSUME IInv, pc = "append", NEW states \in SUBSET State, record.state \in states,
         journal' = [journal EXCEPT
           ![record.target][FirstFit(record.target, record.state)] = OpenEntry(states)],
         UNCHANGED <<app, boot, fresh, assets, backup>>
  PROVE  /\ FlashInv'
         /\ \A s \in Slot :
              /\ SameRecords(s) /\ Pending(s)' = Pending(s)
              /\ Readable(s)' = Readable(s) /\ (Found(s) => Latest(s)' = Latest(s))
              /\ ReadyShape(s) => ReadyShape(s)'
              /\ VerifiedShape(s) => VerifiedShape(s)'
<1> DEFINE t == record.target
           i == FirstFit(record.target, record.state)
<1>1. i \in Entries /\ ~journal[t][i].done
  BY AppendPlace DEF Fits
<1>2. \A s \in Slot : SameRecords(s)
  BY <1>1, RecordTyped DEF SameRecords, Committed, OpenEntry
<1>3. \A s \in Slot :
        /\ Readable(s)' = Readable(s) /\ Found(s)' = Found(s)
        /\ Pending(s)' = Pending(s) /\ (Found(s) => Latest(s)' = Latest(s))
  BY <1>2, RecordsKept DEF IInv, FlashInv
<1>4. \A s \in Slot : Pending(s) => Found(s)
  BY DEF Pending
<1>5. LastInv'
  BY <1>2, <1>3 DEF IInv, FlashInv, LastInv, IsLast, SameRecords
<1>6. ASSUME NEW s \in Slot, ReadyShape(s) PROVE ReadyShape(s)'
  <2>1. "Restored" \in journal'[s][3].open
    <3>1. CASE s = t /\ i = 3
      <4>1. record.state # "Complete"
        BY <3>1, <1>6 DEF IInv, StepInv, ConfirmInv, VerifiedShape, ReadyShape, AppendPc
      <4>2. record.state = "Restored"
        BY <3>1, <4>1, AppendPlace, RecordTyped DEF State
      <4> QED BY <3>1, <4>2, FourEntries, RecordTyped DEF OpenEntry
    <3>2. CASE ~(s = t /\ i = 3)
      BY <3>2, <1>6, <1>1, FourEntries, RecordTyped DEF ReadyShape
    <3> QED BY <3>1, <3>2
  <2> QED
    BY <1>2, <1>6, <2>1, FourEntries DEF ReadyShape, SameRecords
<1>7. ASSUME NEW s \in Slot, VerifiedShape(s) PROVE VerifiedShape(s)'
  <2>1. "Restored" \in journal'[s][4].open
    <3>1. CASE s = t /\ i = 4
      <4>1. record.state = "Restored"
        BY <3>1, AppendPlace, RecordTyped DEF State
      <4> QED BY <3>1, <4>1, FourEntries, RecordTyped DEF OpenEntry
    <3>2. CASE ~(s = t /\ i = 4)
      BY <3>2, <1>7, <1>1, FourEntries, RecordTyped DEF VerifiedShape
    <3> QED BY <3>1, <3>2
  <2>2. ASSUME boot = s PROVE "Complete" \in journal'[s][3].open
    <3>1. CASE s = t /\ i = 3
      <4>1. record.state # "Restored"
        BY <3>1, <2>2, SlotsDiffer, RecordTyped DEF IInv, StepInv, RestoreInv, AppendPc
      <4>2. record.state = "Complete"
        BY <3>1, <4>1, AppendPlace, RecordTyped DEF State
      <4> QED BY <3>1, <4>2, FourEntries, RecordTyped DEF OpenEntry
    <3>2. CASE ~(s = t /\ i = 3)
      BY <2>2, <3>2, <1>7, <1>1, FourEntries, RecordTyped DEF VerifiedShape
    <3> QED BY <3>1, <3>2
  <2> QED
    BY <1>2, <1>7, <2>1, <2>2, FourEntries DEF VerifiedShape, SameRecords
<1>8. ShapeInv' /\ SlotInv'
  BY <1>3, <1>4, <1>6, <1>7, RecordTyped DEF IInv, FlashInv, ShapeInv, SlotInv
<1>9. OldPairInv'
  BY <1>3, <1>4 DEF IInv, FlashInv, OldPairInv, OldPairIntact
<1>10. OnePending' /\ ReadableInv' /\ PairAtomic'
  BY <1>3 DEF IInv, FlashInv, OnePending, ReadableInv, PairAtomic
<1> QED BY <1>2, <1>3, <1>5, <1>6, <1>7, <1>8, <1>9, <1>10 DEF FlashInv

\* The marker: Ready and Verified keep the transaction pending, Complete and
\* Restored end it.
LEMMA RecordCommitted ==
  ASSUME IInv, pc = "commit", NEW t \in Slot, t = record.target,
         journal' = [journal EXCEPT ![t][at] = DoneEntry(record)],
         UNCHANGED <<app, boot, fresh, assets, backup>>
  PROVE  /\ FlashInv'
         /\ record.state = "Ready" =>
              ReadyShape(t)' /\ BlankFrom(t, 2)' /\ Latest(t)' = record
         /\ record.state = "Verified" =>
              VerifiedShape(t)' /\ BlankFrom(t, 3)' /\ Latest(t)' = record
         /\ record.state \in Terminal => Quiet'
<1> DEFINE o == Other(t)
<1>0. pc \in AppendPc /\ record.state \in State /\ t \in Slot /\ o \in Slot /\ t # o
      /\ (\A s \in Slot : s = t \/ s = o)
  BY RecordTyped, SlotsDiffer DEF AppendPc
<1>1. journal'[o] = journal[o] /\ journal'[t][at] = DoneEntry(record)
      /\ \A i \in Entries : i # at => journal'[t][i] = journal[t][i]
  BY <1>0, RecordTyped
<1>2. /\ Readable(o)' = Readable(o) /\ Found(o)' = Found(o)
      /\ Pending(o)' = Pending(o) /\ (Found(o) => Latest(o)' = Latest(o))
      /\ SameRecords(o)
  BY <1>0, <1>1, JournalKept, RecordsKept DEF IInv, FlashInv
<1>3. Committed(t)' = Committed(t) \union {at} /\ at \in Entries
  BY <1>0, <1>1, RecordTyped DEF Committed, DoneEntry
<1>4. \A i \in Committed(t)' : i <= at
  <2>1. CASE record.state = "Ready"
    BY <2>1, <1>0, <1>3, JournalAssumption
    DEF IInv, StepInv, PrepareInv, BlankFrom, Committed, BlankEntry, Entries
  <2>2. CASE record.state = "Verified"
    BY <2>2, <1>0, <1>3 DEF IInv, StepInv, UploadInv, ReadyShape
  <2>3. CASE record.state = "Complete"
    BY <2>3, <1>0, <1>3 DEF IInv, StepInv, ConfirmInv, VerifiedShape
  <2>4. CASE record.state = "Restored"
    BY <2>4, <1>0, <1>3
    DEF IInv, FlashInv, ShapeInv, StepInv, RestoreInv, RestorePc, ReadyShape, VerifiedShape
  <2> QED BY <2>1, <2>2, <2>3, <2>4, <1>0 DEF State
<1>5. Latest(t)' = record
  <2>1. LastCommitted(t)' = at
    BY <1>3, <1>4, RecordTyped, JournalAssumption DEF LastCommitted, Entries, Committed
  <2> QED BY <2>1, <1>1 DEF Latest, DoneEntry
<1>6. LastInv'
  BY <1>0, <1>2, <1>3, <1>4 DEF IInv, FlashInv, LastInv, IsLast, SameRecords
<1>7. record.state = "Ready" => ReadyShape(t)' /\ BlankFrom(t, 2)'
  <2> SUFFICES ASSUME record.state = "Ready" PROVE ReadyShape(t)' /\ BlankFrom(t, 2)'
    OBVIOUS
  <2>1. at = 1 /\ BlankFrom(t, 2)
    BY <1>0 DEF IInv, StepInv, PrepareInv
  <2>2. Committed(t)' = {1}
    BY <2>1, <1>1, FourEntries, JournalAssumption
    DEF BlankFrom, Committed, DoneEntry, BlankEntry, Entries
  <2>3. BlankFrom(t, 2)'
    BY <2>1, <1>1, JournalAssumption DEF BlankFrom, Entries
  <2>4. journal'[t][1].rec = record /\ record \in Record
    BY <2>1, <1>1, RecordTyped DEF DoneEntry
  <2>5. journal'[t][3] = BlankEntry
    BY <2>3, FourEntries DEF BlankFrom
  <2>6. "Restored" \in journal'[t][3].open
    BY <2>5 DEF BlankEntry, State
  <2> QED
    BY <2>2, <2>3, <2>4, <2>6 DEF ReadyShape
<1>8. record.state = "Verified" => VerifiedShape(t)' /\ BlankFrom(t, 3)'
  <2> SUFFICES ASSUME record.state = "Verified" PROVE VerifiedShape(t)' /\ BlankFrom(t, 3)'
    OBVIOUS
  <2>1. at = 2 /\ BlankFrom(t, 3) /\ ReadyShape(t) /\ record = [Latest(t) EXCEPT !.state = "Verified"]
    BY <1>0 DEF IInv, StepInv, UploadInv
  <2>2. Latest(t) = journal[t][1].rec
    BY <2>1, <1>0, ReadShape DEF ShapeFacts
  <2>3. Committed(t)' = {1, 2}
    BY <2>1, <1>3 DEF ReadyShape
  <2>4. SameTransaction(journal[t][1].rec, record)
    BY <2>1, <2>2, RecordTyped DEF SameTransaction, ReadyShape, Record
  <2>5. BlankFrom(t, 3)'
    BY <2>1, <1>1, JournalAssumption DEF BlankFrom, Entries
  <2>6. /\ journal'[t][2].rec = record /\ record \in Record
        /\ journal'[t][1].rec = journal[t][1].rec
    BY <2>1, <1>1, FourEntries, RecordTyped DEF DoneEntry
  <2>7. journal'[t][3] = BlankEntry /\ journal'[t][4] = BlankEntry
    BY <2>5, FourEntries DEF BlankFrom
  <2>8. "Complete" \in journal'[t][3].open /\ "Restored" \in journal'[t][4].open
    BY <2>7 DEF BlankEntry, State
  <2>9. journal'[t][1].rec \in Record /\ journal'[t][1].rec.target = t
    BY <2>1, <2>6 DEF ReadyShape
  <2>10. SameTransaction(journal[t][1].rec, journal[t][2].rec)'
    BY <2>4, <2>6 DEF SameTransaction
  <2> QED
    BY <2>3, <2>5, <2>6, <2>8, <2>9, <2>10 DEF VerifiedShape
<1>9. Readable(t)'
  <2>1. CASE record.state \in {"Ready", "Verified"}
    BY <2>1, <1>7, <1>8, ImageAssumption DEF ReadyShape, VerifiedShape, Readable, SameTransaction
  <2>2. CASE record.state \in {"Complete", "Restored"}
    <3>1. Readable(t) /\ (ReadyShape(t) \/ VerifiedShape(t)) /\ record = [Latest(t) EXCEPT !.state = record.state]
          /\ at \notin Committed(t)
      BY <2>2, <1>0, ReadShape
      DEF IInv, StepInv, FlashInv, ShapeInv, RestoreInv, RestorePc, ConfirmInv, Pending, ShapeFacts, VerifiedShape
    <3>2. \A i \in Committed(t) : SameTransaction(journal[t][i].rec, record)
      BY <3>1, <1>0, ReadShape DEF ShapeFacts, ReadyShape, VerifiedShape, SameTransaction, Record
    <3> QED
      BY <3>1, <3>2, <1>1, <1>3, ImageAssumption, RecordTyped
      DEF Readable, SameTransaction, DoneEntry, Committed
  <2> QED BY <2>1, <2>2, <1>0 DEF State
<1>10. Pending(t)' <=> record.state \notin Terminal
  BY <1>3, <1>5, <1>9 DEF Pending, Found, Terminal
<1>11. ~Pending(o)
  <2>1. CASE record.state = "Ready"
    BY <2>1, <1>0 DEF IInv, StepInv, PrepareInv, PreparePc, Quiet
  <2>2. CASE record.state # "Ready"
    <3>1. Pending(t)
      BY <2>2, <1>0, ReadShape
      DEF IInv, StepInv, UploadInv, ConfirmInv, RestoreInv, RestorePc, ShapeFacts, State
    <3> QED BY <3>1, <1>0 DEF IInv, FlashInv, OnePending
  <2> QED BY <2>1, <2>2
<1>12. OnePending' /\ ReadableInv' /\ ShapeInv'
  BY <1>0, <1>2, <1>7, <1>8, <1>9, <1>10, <1>11
  DEF IInv, FlashInv, OnePending, ReadableInv, ShapeInv, State, Terminal
<1>13. ASSUME record.state = "Ready"
       PROVE /\ OldPairIntact(record) /\ record.oldAssets = AssetsOf[record.oldApp]
             /\ record.newAssets = AssetsOf[record.newApp]
             /\ boot = o /\ ~fresh
  <2>1. /\ Quiet /\ t = Other(running) /\ record.oldApp = app[running]
        /\ record.oldAssets = assets /\ backup[t] = assets
        /\ record.newApp = plan /\ record.newAssets = AssetsOf[plan]
    BY <1>0, <1>13 DEF IInv, StepInv, PrepareInv, PreparePc
  <2>2. running = boot /\ running = o
    BY <2>1, RecordTyped DEF IInv, StepInv, RunningInv, Quiet, Slot, Other
  <2>3. assets = AssetsOf[app[boot]] /\ ~fresh
    BY <2>1, RecordTyped DEF IInv, FlashInv, PairAtomic, SlotInv, Quiet
  <2> QED BY <2>1, <2>2, <2>3 DEF OldPairIntact
<1>14. ASSUME record.state # "Ready"
       PROVE /\ Pending(t) /\ OldPairIntact(record) /\ record.oldAssets = AssetsOf[record.oldApp]
             /\ record.newAssets = AssetsOf[record.newApp] /\ record.newApp = Latest(t).newApp
  <2>1. Pending(t) /\ record = [Latest(t) EXCEPT !.state = record.state]
    BY <1>14, <1>0, ReadShape
    DEF IInv, StepInv, UploadInv, ConfirmInv, RestoreInv, RestorePc, ShapeFacts, State
  <2>2. Latest(t) \in Record
    BY <2>1, ReadShape DEF IInv, FlashInv, ShapeInv, ShapeFacts, ReadyShape, VerifiedShape
  <2>3. /\ record.oldApp = Latest(t).oldApp /\ record.newApp = Latest(t).newApp
        /\ record.oldAssets = Latest(t).oldAssets /\ record.newAssets = Latest(t).newAssets
        /\ record.target = Latest(t).target
    BY <2>1, <2>2 DEF Record
  <2> QED BY <2>1, <2>3 DEF IInv, FlashInv, OldPairInv, OldPairIntact
<1>15. record.state = "Verified" => boot = o /\ ~fresh
  <2> SUFFICES ASSUME record.state = "Verified" PROVE boot = o /\ ~fresh
    OBVIOUS
  <2>1. boot = running /\ t = Other(running)
    BY <1>0 DEF IInv, StepInv, UploadInv
  <2>2. boot = o
    BY <2>1, RecordTyped DEF Slot, Other
  <2> QED BY <2>2, <1>11 DEF IInv, FlashInv, SlotInv
<1>16. /\ record.state = "Complete" => boot = t /\ ~fresh /\ assets = record.newAssets
       /\ record.state = "Restored" => boot = o /\ ~fresh /\ assets = record.oldAssets
  BY <1>0 DEF IInv, StepInv, ConfirmInv, RestoreInv, RestorePc, AppendPc
<1>17. OldPairInv'
  BY <1>0, <1>5, <1>10, <1>11, <1>2, <1>13, <1>14 DEF OldPairInv, OldPairIntact
<1>18. SlotInv'
  BY <1>0, <1>10, <1>11, <1>2, <1>13, <1>15, <1>16 DEF SlotInv, Terminal, State
<1>19. PairAtomic'
  <2> SUFFICES ASSUME ~Pending(t)' PROVE app[boot] # None /\ assets = AssetsOf[app[boot]]
    BY <1>0 DEF PairAtomic
  <2>1. record.newApp \in Version /\ record.oldApp \in Version
    BY RecordTyped DEF Record
  <2>2. CASE record.state = "Complete"
    BY <2>1, <2>2, <1>14, <1>16, ImageAssumption DEF IInv, FlashInv, SlotInv
  <2>3. CASE record.state = "Restored"
    BY <2>1, <2>3, <1>0, <1>14, <1>16, ImageAssumption DEF OldPairIntact
  <2> QED BY <2>2, <2>3, <1>0, <1>10 DEF State, Terminal
<1>20. record.state \in Terminal => Quiet'
  BY <1>0, <1>2, <1>10, <1>11 DEF Quiet
<1> QED
  BY <1>5, <1>6, <1>7, <1>8, <1>12, <1>17, <1>18, <1>19, <1>20 DEF FlashInv

\* prepare() erases the journal of a slot in which nothing is pending; what an
\* interrupted erase leaves there cannot look pending either.
LEMMA JournalErased ==
  ASSUME IInv, pc = "eraseJournal", NEW t \in Slot, t = record.target,
         \/ journal' = [journal EXCEPT ![t] = [i \in Entries |-> BlankEntry]]
         \/ "torn_erase" \in FaultKind /\ \E k \in Entries :
              journal' = [journal EXCEPT ![t] = PrefixErased(@, k)],
         UNCHANGED <<app, boot, fresh, assets, backup>>
  PROVE  /\ FlashInv' /\ Quiet'
         /\ journal' = [journal EXCEPT ![t] = [i \in Entries |-> BlankEntry]]
              => BlankFrom(t, 1)'
<1> DEFINE o == Other(t)
<1>0. o \in Slot /\ t # o /\ (\A s \in Slot : s = t \/ s = o)
  BY RecordTyped, SlotsDiffer
<1>1. journal'[o] = journal[o]
  BY <1>0, RecordTyped
<1>2. /\ Readable(o)' = Readable(o) /\ Found(o)' = Found(o)
      /\ Pending(o)' = Pending(o) /\ (Found(o) => Latest(o)' = Latest(o))
      /\ SameRecords(o)
  BY <1>0, <1>1, JournalKept, RecordsKept DEF IInv, FlashInv
<1>3. Quiet /\ Readable(t) /\ ~Pending(t) /\ ~Pending(o)
  BY <1>0 DEF IInv, StepInv, PrepareInv, Idle, Quiet
<1>4. ASSUME journal' = [journal EXCEPT ![t] = [i \in Entries |-> BlankEntry]]
      PROVE  ~Found(t)' /\ Readable(t)' /\ BlankFrom(t, 1)'
  <2>1. \A i \in Entries : journal'[t][i] = BlankEntry
    BY <1>4, RecordTyped
  <2>2. Committed(t)' = {}
    BY <2>1 DEF Committed, BlankEntry
  <2> QED BY <2>1, <2>2 DEF Found, Readable, BlankFrom
<1>5. ASSUME NEW k \in Entries, "torn_erase" \in FaultKind,
             journal' = [journal EXCEPT ![t] = PrefixErased(@, k)]
      PROVE  ~Pending(t)' /\ (Found(t)' => \E i \in Entries : IsLast(t, i)')
  <2>1. \A i \in Entries : journal'[t][i] =
          IF i < k THEN BlankEntry
          ELSE IF i = k /\ journal[t][k].done THEN CorruptEntry ELSE journal[t][i]
    BY <1>5, RecordTyped DEF PrefixErased
  <2>2. Committed(t)' = {i \in Committed(t) : i >= k}
    BY <2>1, JournalAssumption DEF Committed, BlankEntry, CorruptEntry, Entries
  <2>3. CASE k \in Committed(t)
    <3>1. k \in Committed(t)' /\ journal'[t][k].rec = None
      BY <2>1, <2>2, <2>3, JournalAssumption DEF Committed, CorruptEntry, Entries
    <3>2. ~Readable(t)'
      BY <3>1 DEF Readable
    <3>3. PICK i \in Entries : IsLast(t, i)
      BY <2>3 DEF IInv, FlashInv, LastInv, Found
    <3>4. IsLast(t, i)'
      BY <2>2, <2>3, <3>3, JournalAssumption DEF IsLast, Entries, Committed
    <3> QED BY <3>2, <3>4 DEF Pending
  <2>4. CASE k \notin Committed(t) /\ Found(t)'
    <3>1. PICK i \in Entries : IsLast(t, i)
      BY <2>2, <2>4 DEF IInv, FlashInv, LastInv, Found
    <3>2. IsLast(t, i)' /\ i >= k
      BY <2>2, <2>4, <3>1, JournalAssumption DEF IsLast, Entries, Committed, Found
    <3>3. LastCommitted(t) = i /\ LastCommitted(t)' = i
      BY <3>1, <3>2, JournalAssumption DEF IsLast, LastCommitted, Entries, Committed
    <3>4. Latest(t)' = Latest(t)
      BY <2>1, <2>4, <3>1, <3>2, <3>3, JournalAssumption DEF Latest, IsLast, Committed, Entries
    <3>5. Latest(t).state \in Terminal
      BY <1>3, <3>1 DEF Pending, Found, IsLast
    <3> QED BY <3>2, <3>4, <3>5 DEF Pending
  <2>5. CASE k \notin Committed(t) /\ ~Found(t)'
    BY <2>5 DEF Pending
  <2> QED BY <2>3, <2>4, <2>5
<1>6. ~Pending(t)' /\ (Found(t)' => \E i \in Entries : IsLast(t, i)')
  BY <1>4, <1>5 DEF Pending
<1>7. Quiet'
  BY <1>0, <1>2, <1>3, <1>6 DEF Quiet
<1>8. LastInv'
  BY <1>0, <1>2, <1>6 DEF IInv, FlashInv, LastInv, IsLast, SameRecords
<1>9. ReadableInv'
  BY <1>0, <1>2, <1>4 DEF IInv, FlashInv, ReadableInv
<1>10. ~fresh
  BY <1>3, RecordTyped DEF IInv, FlashInv, SlotInv, Quiet
<1>11. OnePending' /\ ShapeInv' /\ OldPairInv' /\ SlotInv'
  BY <1>7, <1>10, <1>0 DEF OnePending, ShapeInv, OldPairInv, SlotInv, Quiet
<1>12. PairAtomic'
  BY <1>3 DEF IInv, FlashInv, PairAtomic, Quiet
<1> QED BY <1>4, <1>7, <1>8, <1>9, <1>11, <1>12 DEF FlashInv

SameJournal ==
  /\ Quiet' = Quiet
  /\ \A s \in Slot :
       /\ SameRecords(s) /\ Pending(s)' = Pending(s)
       /\ ReadyShape(s)' = ReadyShape(s)
       /\ Readable(s)' = Readable(s) /\ Found(s)' = Found(s)
       /\ Found(s) => Latest(s)' = Latest(s)

\* A step that leaves every journal alone changes nothing recover() reads.
LEMMA JournalStays ==
  ASSUME IInv, UNCHANGED journal PROVE SameJournal
<1>1. \A s \in Slot :
        /\ SameRecords(s)
        /\ Readable(s)' = Readable(s) /\ Found(s)' = Found(s)
        /\ Pending(s)' = Pending(s) /\ (Found(s) => Latest(s)' = Latest(s))
  BY JournalKept, RecordsKept DEF IInv, FlashInv
<1>2. \A s \in Slot : ReadyShape(s)' = ReadyShape(s)
  BY DEF ReadyShape, Committed
<1> QED BY <1>1, <1>2 DEF SameJournal, Quiet

\* A step that writes no journal keeps the invariant of the flash when it
\* keeps both pairs of a pending transaction, and the installed pair otherwise.
LEMMA FlashKept ==
  ASSUME IInv, UNCHANGED journal, boot' \in Slot,
         fresh' => Pending(boot'),
         \A s \in Slot : Pending(s) =>
           /\ app'[Other(s)] = app[Other(s)] /\ backup'[s] = backup[s]
           /\ boot' = s => VerifiedShape(s) /\ app'[s] = Latest(s).newApp
                             /\ "Complete" \in journal[s][3].open,
         Quiet => app'[boot'] # None /\ assets' = AssetsOf[app'[boot']]
  PROVE  FlashInv' /\ SameJournal
<1>1. SameJournal
  BY JournalStays
<1>2. \A s \in Slot : Committed(s)' = Committed(s)
  BY DEF Committed
<1>3. \A s \in Slot : Pending(s) /\ VerifiedShape(s) => VerifiedShape(s)'
  BY <1>2 DEF VerifiedShape
<1>4. \A s \in Slot : Pending(s) => Found(s) /\ Latest(s).target = s
  BY ReadShape
  DEF IInv, FlashInv, ShapeInv, ShapeFacts, Pending, ReadyShape, VerifiedShape
<1>5. LastInv'
  BY <1>1 DEF IInv, FlashInv, LastInv, IsLast, SameRecords, SameJournal
<1>6. ShapeInv' /\ SlotInv'
  BY <1>1, <1>2, <1>3, <1>4 DEF IInv, FlashInv, ShapeInv, SlotInv, SameJournal
<1>7. OldPairInv'
  BY <1>1, <1>4 DEF IInv, FlashInv, OldPairInv, OldPairIntact, SameJournal
<1>8. OnePending' /\ ReadableInv' /\ PairAtomic'
  BY <1>1 DEF IInv, FlashInv, OnePending, ReadableInv, PairAtomic, Quiet, SameJournal
<1> QED BY <1>1, <1>5, <1>6, <1>7, <1>8 DEF FlashInv

\* Steps that leave the flash alone, but for the history format.
LEMMA FlashSame ==
  ASSUME IInv, UNCHANGED <<app, boot, fresh, assets, backup, journal>>
  PROVE  FlashInv' /\ SameJournal
BY FlashKept, RecordTyped DEF IInv, FlashInv, SlotInv, VerifiedShape, PairAtomic, Quiet

\* Steps that only write the asset partition while a transaction is pending.
LEMMA AssetsReplaced ==
  ASSUME IInv, ~Quiet, UNCHANGED <<app, boot, fresh, backup, journal>>
  PROVE  FlashInv' /\ SameJournal
BY FlashKept, RecordTyped DEF IInv, FlashInv, SlotInv, VerifiedShape
-----------------------------------------------------------------------------
(***************************************************************************)
(* Type correctness.                                                       *)
(***************************************************************************)
\* PendingSlot is the slot it is named for.
LEMMA PendingSlotPends ==
  ASSUME \E s \in Slot : Pending(s)
  PROVE  PendingSlot \in Slot /\ Pending(PendingSlot)
BY DEF PendingSlot

\* The record of a pending transaction is sound and belongs to its slot.
LEMMA LatestTyped ==
  ASSUME IInv, NEW s \in Slot, Pending(s)
  PROVE  Latest(s) \in Record /\ Latest(s).target = s
BY ReadShape DEF IInv, FlashInv, ShapeInv, ShapeFacts, ReadyShape, VerifiedShape

\* The constructors of journal entries build journal entries.
LEMMA EntriesTyped ==
  /\ BlankEntry \in JournalEntry /\ CorruptEntry \in JournalEntry
  /\ \A states \in SUBSET State : OpenEntry(states) \in JournalEntry
  /\ \A r \in Record : DoneEntry(r) \in JournalEntry
BY DEF BlankEntry, CorruptEntry, OpenEntry, DoneEntry, JournalEntry

\* Types of what the shared returns assign.
LEMMA AbortTyped ==
  ASSUME TypeOK, AbortUpdate \/ OperationFails
         \/ RecoverReturns("restored") \/ RecoverReturns(Verdict)
  PROVE  /\ pc' \in Pc /\ caller' \in Caller /\ status' \in Status
         /\ UNCHANGED <<running, plan, record, at>>
<1>1. Verdict \in Status
  BY DEF Verdict, Status
<1>2. ASSUME AbortUpdate
      PROVE  /\ pc' \in Pc /\ caller' \in Caller /\ status' \in Status
             /\ UNCHANGED <<running, plan, record, at>>
  BY <1>2 DEF TypeOK, AbortUpdate, Pc, RecoverPc, Caller
<1>3. ASSUME NEW result \in Status, RecoverReturns(result)
      PROVE  /\ pc' \in Pc /\ caller' \in Caller /\ status' \in Status
             /\ UNCHANGED <<running, plan, record, at>>
  BY <1>3 DEF TypeOK, RecoverReturns, Pc, UpdatePc, Caller
<1>4. ASSUME ConfirmFails
      PROVE  /\ pc' \in Pc /\ caller' \in Caller /\ status' \in Status
             /\ UNCHANGED <<running, plan, record, at>>
  BY <1>4 DEF TypeOK, ConfirmFails, Pc, Status
<1>5. "recovery_failed" \in Status /\ "restored" \in Status
  BY DEF Status
<1>6. OperationFails => AbortUpdate \/ RecoverReturns("recovery_failed") \/ ConfirmFails
  BY DEF OperationFails
<1> QED BY <1>1, <1>2, <1>3, <1>4, <1>5, <1>6

\* An interrupted operation leaves journal entries behind.
LEMMA JournalTyped ==
  ASSUME IInv, PartialEffect
  PROVE  journal' \in [Slot -> [Entries -> JournalEntry]]
<1>1. CASE UNCHANGED journal
  BY <1>1 DEF IInv, TypeOK
<1>2. ASSUME NEW k \in Entries,
             journal' = [journal EXCEPT ![record.target] = PrefixErased(@, k)]
      PROVE  journal' \in [Slot -> [Entries -> JournalEntry]]
  BY <1>2, RecordTyped, EntriesTyped DEF PrefixErased
<1>3. ASSUME pc = "append", NEW states \in
               TornOpen(record.state, journal[record.target][FirstFit(record.target, record.state)].open),
             journal' = [journal EXCEPT ![record.target][FirstFit(record.target, record.state)]
                                           = OpenEntry(states)]
      PROVE  journal' \in [Slot -> [Entries -> JournalEntry]]
  <2>1. states \in SUBSET State
    BY <1>3, RecordTyped, AppendPlace DEF TornOpen, JournalEntry
  <2> QED BY <1>3, <2>1, RecordTyped, EntriesTyped, AppendPlace
<1>4. ASSUME pc = "commit",
             journal' = [journal EXCEPT ![record.target][at] = DoneEntry(record)]
      PROVE  journal' \in [Slot -> [Entries -> JournalEntry]]
  BY <1>4, RecordTyped, EntriesTyped
<1> QED BY <1>1, <1>2, <1>3, <1>4 DEF PartialEffect

\* Every step keeps the types.
LEMMA TypeStep ==
  ASSUME IInv, [Next]_vars PROVE TypeOK'
<1> USE DEF IInv
<1>1. CASE UNCHANGED vars
  BY <1>1 DEF TypeOK, vars
<1>2. CASE Recover
  <2>1. CASE Verdict = "restored"
    <3>1. \E s \in Slot : Pending(s)
      BY <2>1 DEF Verdict
    <3>2. Latest(PendingSlot) \in Record
      BY <3>1, PendingSlotPends, LatestTyped
    <3>3. record' \in Record
      BY <1>2, <2>1, <3>2 DEF Recover, Record, State
    <3> QED
      BY <1>2, <2>1, <3>3 DEF Recover, TypeOK, flash, Pc, RecoverPc
  <2>2. CASE Verdict # "restored"
    BY <1>2, <2>2, AbortTyped DEF Recover, TypeOK, flash
  <2> QED BY <2>1, <2>2
<1>3. CASE EraseAssets \/ RestoreAssets \/ EraseOldAssets
  BY <1>3, RecordTyped DEF EraseAssets, RestoreAssets, EraseOldAssets, Goto, TypeOK, Pc, RecoverPc, UpdatePc
<1>4. CASE SelectSource
  BY <1>4, RecordTyped, SlotsDiffer DEF SelectSource, StartAppend, TypeOK, Pc, AppendPc, Status
<1>5. CASE AppendRecord
  <2>1. journal' \in [Slot -> [Entries -> JournalEntry]] /\ at' \in Entries /\ pc' = "commit"
        /\ UNCHANGED <<running, caller, status, plan, record>>
    BY <1>5, RecordTyped, EntriesTyped, AppendPlace DEF AppendRecord
  <2> QED BY <1>5, <2>1 DEF AppendRecord, TypeOK, Pc, AppendPc
<1>6. CASE AppendCommit
  <2>1. journal' \in [Slot -> [Entries -> JournalEntry]]
    BY <1>6, RecordTyped, EntriesTyped DEF AppendCommit
  <2>2. /\ pc' \in Pc /\ caller' \in Caller /\ status' \in Status
        /\ UNCHANGED <<running, plan, record, at>>
    <3>1. CASE record.state = "Restored"
      BY <1>6, <3>1, AbortTyped DEF AppendCommit
    <3>2. CASE record.state # "Restored"
      BY <1>6, <3>2, RecordTyped DEF AppendCommit, TypeOK, State, Pc, UpdatePc, Status
    <3> QED BY <3>1, <3>2
  <2> QED BY <1>6, <2>1, <2>2 DEF AppendCommit, TypeOK
<1>7. CASE Boot \/ Restart
  BY <1>7, SlotsDiffer DEF Boot, Restart, PowerOff, flash, TypeOK, Pc, RecoverPc, Caller, Status
<1>8. CASE Setup
  <2>1. CASE ~Mounted
    BY <1>8, <2>1 DEF Setup, Goto, TypeOK, Pc
  <2>2. CASE Mounted /\ ConfirmFails
    BY <1>8, <2>2 DEF Setup, MarkValid, ConfirmFails, TypeOK, Pc, Status
  <2>3. CASE Mounted /\ status # "new_ready" /\ ~ConfirmFails
    BY <1>8, <2>3 DEF Setup, MarkValid, TypeOK, Pc, Status
  <2>4. CASE Mounted /\ status = "new_ready" /\ ~ConfirmFails
    <3>1. Confirmable /\ record' = [Latest(running) EXCEPT !.state = "Complete"]
          /\ pc' = "append" /\ UNCHANGED <<running, caller, status, plan, at>>
      BY <1>8, <2>4 DEF Setup
    <3>2. Latest(running) \in Record
      BY <3>1, LatestTyped, RecordTyped DEF Confirmable, Pending, Terminal
    <3>3. record' \in Record
      BY <3>1, <3>2 DEF Record, State
    <3> QED BY <1>8, <2>4, <3>1, <3>3 DEF Setup, MarkValid, TypeOK, Pc, AppendPc
  <2> QED BY <2>1, <2>2, <2>3, <2>4
<1>9. CASE Migrate
  BY <1>9 DEF Migrate, Goto, TypeOK, Pc
<1>10. ASSUME NEW v \in Version, BeginUpdate(v) PROVE TypeOK'
  BY <1>10, FaultAssumption DEF BeginUpdate, flash, TypeOK, Pc, RecoverPc, Caller
<1>11. CASE BeginPayload
  <2>1. app' \in [Slot -> Version \union {None}]
    BY <1>11, SlotsDiffer DEF BeginPayload, TypeOK
  <2>2. CASE ~Blocked /\ Idle
    BY <1>11, <2>1, <2>2 DEF BeginPayload, TypeOK, Pc, UpdatePc
  <2>3. CASE ~(~Blocked /\ Idle)
    BY <1>11, <2>1, <2>3, AbortTyped DEF BeginPayload, TypeOK
  <2> QED BY <2>2, <2>3
<1>12. CASE FinishFirmware
  <2>1. app[running] \in Version /\ assets \in AssetImage /\ AssetsOf[plan] \in AssetImage
    BY <1>12, ImageAssumption
    DEF FinishFirmware, FlashInv, StepInv, PairAtomic, RunningInv, Idle, Quiet, TypeOK, AssetImage
  <2>2. record' \in Record
    BY <1>12, <2>1, SlotsDiffer DEF FinishFirmware, Record, State, TypeOK
  <2> QED BY <1>12, <2>2 DEF FinishFirmware, flash, TypeOK, Pc, UpdatePc
<1>13. CASE EraseJournal
  BY <1>13, RecordTyped, EntriesTyped DEF EraseJournal, Goto, TypeOK, Pc, UpdatePc
<1>14. CASE EraseBackup \/ CopyBackup
  BY <1>14, RecordTyped DEF EraseBackup, CopyBackup, Goto, StartAppend, TypeOK, Pc, UpdatePc, AppendPc
<1>15. CASE WriteAssets
  BY <1>15 DEF WriteAssets, Goto, TypeOK, Pc, UpdatePc, AssetImage
<1>16. CASE Verify
  <2> DEFINE target == Other(running)
  <2>1. CASE /\ Readable(target) /\ Found(target)
             /\ Latest(target).state = "Ready"
             /\ assets = Latest(target).newAssets
    <3>1. Latest(target) \in Record
      BY <2>1, LatestTyped, RecordTyped, SlotsDiffer DEF Pending, Terminal
    <3>2. [Latest(target) EXCEPT !.state = "Verified"] \in Record
      BY <3>1 DEF Record, State
    <3> QED BY <1>16, <2>1, <3>2 DEF Verify, StartAppend, flash, TypeOK, Pc, AppendPc
  <2>2. CASE ~ (/\ Readable(target) /\ Found(target)
                /\ Latest(target).state = "Ready"
                /\ assets = Latest(target).newAssets)
    BY <1>16, <2>2, AbortTyped DEF Verify, flash, TypeOK
  <2> QED BY <2>1, <2>2
<1>17. CASE FlushHistory \/ SelectTarget
  BY <1>17, SlotsDiffer DEF FlushHistory, SelectTarget, Goto, flash, TypeOK, Pc, UpdatePc
<1>18. CASE ActivateImage
  BY <1>18 DEF ActivateImage, Goto, TypeOK, Pc, UpdatePc
<1>19. CASE Abandon
  BY <1>19, AbortTyped DEF Abandon, flash, TypeOK
<1>20. CASE AbortAgain
  BY <1>20 DEF AbortAgain, flash, TypeOK, Pc, RecoverPc, Caller
<1>21. CASE PowerCut
  BY <1>21, JournalTyped, FaultAssumption
  DEF PowerCut, Fault, PartialEffect, PowerOff, TypeOK, Pc, Caller, Status
<1>22. CASE IoFailure
  <2>1. journal' \in [Slot -> [Entries -> JournalEntry]]
    BY <1>22, JournalTyped DEF IoFailure, TypeOK
  <2>2. /\ pc' \in Pc /\ caller' \in Caller /\ status' \in Status
        /\ UNCHANGED <<running, plan, record, at>>
    BY <1>22, AbortTyped DEF IoFailure
  <2>3. boot' \in Slot /\ fresh' \in BOOLEAN /\ UNCHANGED <<app, assets, backup, compact>>
    BY <1>22, SlotsDiffer DEF IoFailure, PartialEffect, TypeOK
  <2>4. faults' \in 0..MaxFaults /\ UNCHANGED updates
    BY <1>22, FaultAssumption DEF IoFailure, Fault, TypeOK
  <2> QED BY <2>1, <2>2, <2>3, <2>4 DEF TypeOK
<1>23. CASE MarkValidFails
  BY <1>23, FaultAssumption DEF MarkValidFails, Fault, flash, ConfirmFails, TypeOK, Pc, Status
<1>24. CASE Damage
  BY <1>24, FaultAssumption DEF Damage, Fault, ram, TypeOK
<1> QED
  BY <1>1, <1>2, <1>3, <1>4, <1>5, <1>6, <1>7, <1>8, <1>9, <1>10, <1>11, <1>12,
     <1>13, <1>14, <1>15, <1>16, <1>17, <1>18, <1>19, <1>20, <1>21, <1>22, <1>23, <1>24
  DEF Next, Firmware
-----------------------------------------------------------------------------
(***************************************************************************)
(* The flash: every step keeps a pair installed or journalled for repair.  *)
(***************************************************************************)
\* What an interrupted operation leaves in the journal.
LEMMA PartialStep ==
  ASSUME IInv, PartialEffect
  PROVE  /\ FlashInv'
         /\ \/ SameJournal
            \/ pc = "eraseJournal" /\ Quiet'
            \/ pc \in AppendPc /\ record.state \in Terminal /\ Quiet'
            \/ pc \in AppendPc /\ \A s \in Slot : Pending(s)' = Pending(s)
            \/ pc \in AppendPc /\ record.state \notin Terminal
<1>0. UNCHANGED <<app, boot, fresh, assets, backup>>
  BY DEF PartialEffect
<1>1. CASE UNCHANGED journal
  BY <1>0, <1>1, FlashSame
<1>2. ASSUME NEW k \in Entries, pc = "eraseJournal", "torn_erase" \in FaultKind,
             journal' = [journal EXCEPT ![record.target] = PrefixErased(@, k)]
      PROVE  FlashInv' /\ Quiet'
  BY <1>0, <1>2, JournalErased, RecordTyped
<1>3. ASSUME pc = "append", NEW states \in
               TornOpen(record.state, journal[record.target][FirstFit(record.target, record.state)].open),
             journal' = [journal EXCEPT ![record.target][FirstFit(record.target, record.state)]
                                           = OpenEntry(states)]
      PROVE  FlashInv' /\ \A s \in Slot : Pending(s)' = Pending(s)
  <2> DEFINE open == journal[record.target][FirstFit(record.target, record.state)].open
  <2>1. record.state \in open /\ open \in SUBSET State
    BY <1>3, RecordTyped, AppendPlace DEF Fits, JournalEntry
  <2>2. states \in SUBSET State /\ record.state \in states
    BY <1>3, <2>1 DEF TornOpen, BitSubset
  <2> QED BY <1>0, <1>3, <2>2, OpenWritten
<1>4. ASSUME pc = "commit",
             journal' = [journal EXCEPT ![record.target][at] = DoneEntry(record)]
      PROVE  FlashInv' /\ (record.state \in Terminal => Quiet')
  BY <1>0, <1>4, RecordCommitted, RecordTyped
<1> QED BY <1>1, <1>2, <1>3, <1>4 DEF PartialEffect, AppendPc

\* Every step keeps the invariant of the flash.
LEMMA FlashStep ==
  ASSUME IInv, [Next]_vars PROVE FlashInv'
<1> USE DEF IInv
<1>1. CASE UNCHANGED vars
  BY <1>1, FlashSame DEF vars
<1>2. CASE \/ Recover \/ Restart \/ Migrate \/ FinishFirmware \/ Verify \/ FlushHistory
           \/ Abandon \/ AbortAgain \/ MarkValidFails \/ \E v \in Version : BeginUpdate(v)
  BY <1>2, FlashSame
  DEF Recover, Restart, Migrate, FinishFirmware, Verify, FlushHistory, Abandon,
      AbortAgain, MarkValidFails, BeginUpdate, flash
<1>3. CASE EraseAssets \/ RestoreAssets
  <2>1. ~Quiet
    BY <1>3, RecordTyped DEF EraseAssets, RestoreAssets, StepInv, RestoreInv, RestorePc, Quiet
  <2> QED BY <1>3, <2>1, AssetsReplaced DEF EraseAssets, RestoreAssets
<1>4. CASE EraseOldAssets \/ WriteAssets
  <2>1. ~Quiet
    BY <1>4, ReadShape, RecordTyped, SlotsDiffer
    DEF EraseOldAssets, WriteAssets, StepInv, UploadInv, ShapeFacts, Quiet
  <2> QED BY <1>4, <2>1, AssetsReplaced DEF EraseOldAssets, WriteAssets
<1>5. CASE Damage
  <2>1. ~Quiet
    BY <1>5 DEF Damage, Quiet
  <2> QED BY <1>5, <2>1, AssetsReplaced DEF Damage
<1>6. CASE SelectSource
  <2>1. Pending(record.target) /\ ~Pending(Other(record.target))
    BY <1>6, RecordTyped, SlotsDiffer
    DEF SelectSource, StepInv, RestoreInv, RestorePc, FlashInv, OnePending
  <2> QED
    BY <1>6, <2>1, FlashKept, RecordTyped, SlotsDiffer DEF SelectSource, Quiet
<1>7. CASE AppendRecord
  <2>1. journal' = [journal EXCEPT
          ![record.target][FirstFit(record.target, record.state)] = OpenEntry({record.state})]
        /\ UNCHANGED <<app, boot, fresh, assets, backup>> /\ pc = "append"
    BY <1>7, AppendPlace DEF AppendRecord
  <2>2. {record.state} \in SUBSET State
    BY RecordTyped
  <2> QED BY <2>1, <2>2, OpenWritten
<1>8. CASE AppendCommit
  BY <1>8, RecordCommitted, RecordTyped DEF AppendCommit
<1>9. CASE Boot
  <2>1. CASE boot' = boot
    BY <1>9, <2>1, FlashSame DEF Boot, TypeOK
  <2>2. CASE fresh /\ boot' = Other(boot)
    <3>1. Pending(boot) /\ ~Pending(Other(boot)) /\ boot' # boot /\ boot' \in Slot
      BY <2>2, RecordTyped, SlotsDiffer DEF FlashInv, SlotInv, OnePending
    <3> QED
      BY <1>9, <2>2, <3>1, FlashKept, RecordTyped, SlotsDiffer DEF Boot, Quiet
  <2> QED BY <1>9, <2>1, <2>2 DEF Boot
<1>10. CASE Setup
  BY <1>10, FlashKept, RecordTyped
  DEF Setup, MarkValid, Goto, FlashInv, SlotInv, VerifiedShape, PairAtomic, Quiet
<1>11. CASE BeginPayload
  <2>1. CASE ~Blocked /\ Idle
    <3>1. Quiet /\ running = boot
      BY <1>11, <2>1 DEF BeginPayload, Idle, Quiet, StepInv, RunningInv
    <3>2. app'[boot] = app[boot]
      BY <1>11, <2>1, <3>1, RecordTyped, SlotsDiffer DEF BeginPayload, TypeOK
    <3> QED
      BY <1>11, <2>1, <3>1, <3>2, FlashKept, RecordTyped
      DEF BeginPayload, Quiet, FlashInv, PairAtomic, SlotInv
  <2>2. CASE ~(~Blocked /\ Idle)
    BY <1>11, <2>2, FlashSame DEF BeginPayload
  <2> QED BY <2>1, <2>2
<1>12. CASE EraseJournal
  BY <1>12, JournalErased, RecordTyped DEF EraseJournal
<1>13. CASE EraseBackup \/ CopyBackup
  <2>1. Quiet
    BY <1>13 DEF EraseBackup, CopyBackup, StepInv, PrepareInv, PreparePc
  <2> QED
    BY <1>13, <2>1, FlashKept, RecordTyped
    DEF EraseBackup, CopyBackup, Quiet, FlashInv, PairAtomic, SlotInv
<1>14. CASE ActivateImage
  <2>1. /\ VerifiedShape(Other(running)) /\ Pending(Other(running))
        /\ boot = running /\ ~Pending(running) /\ ~fresh
    BY <1>14, ReadShape, RecordTyped, SlotsDiffer
    DEF ActivateImage, StepInv, UploadInv, ShapeFacts, FlashInv, OnePending, SlotInv
  <2>2. app'[running] = app[running]
    BY <1>14, RecordTyped, SlotsDiffer DEF ActivateImage, TypeOK
  <2>3. \A s \in Slot : Pending(s) => s = Other(running) /\ Other(s) = running
    BY <2>1, RecordTyped DEF Slot, Other
  <2> QED
    BY <1>14, <2>1, <2>2, <2>3, FlashKept, RecordTyped, SlotsDiffer DEF ActivateImage, Quiet
<1>15. CASE SelectTarget \/ (IoFailure /\ pc = "selectTarget" /\ boot' = Other(running) /\ fresh' = TRUE
                              /\ UNCHANGED <<app, assets, backup, journal, compact>>)
  <2> DEFINE s == Other(running)
  <2>1. /\ VerifiedShape(s) /\ Pending(s) /\ BlankFrom(s, 3)
        /\ app[s] = Latest(s).newApp /\ s \in Slot /\ ~Pending(running)
    BY <1>15, ReadShape, RecordTyped, SlotsDiffer
    DEF SelectTarget, StepInv, UploadInv, ShapeFacts, FlashInv, OnePending
  <2>2. "Complete" \in journal[s][3].open
    BY <2>1, FourEntries DEF BlankFrom, BlankEntry, State
  <2>3. boot' = s /\ UNCHANGED <<app, assets, backup, journal>>
    BY <1>15 DEF SelectTarget
  <2> QED
    BY <2>1, <2>2, <2>3, FlashKept, RecordTyped, SlotsDiffer DEF Quiet
<1>16. CASE PowerCut
  BY <1>16, PartialStep DEF PowerCut
<1>17. CASE IoFailure
  BY <1>15, <1>17, PartialStep DEF IoFailure
<1> QED
  BY <1>1, <1>2, <1>3, <1>4, <1>5, <1>6, <1>7, <1>8, <1>9, <1>10, <1>11, <1>12,
     <1>13, <1>14, <1>15, <1>16, <1>17
  DEF Next, Firmware
-----------------------------------------------------------------------------
(***************************************************************************)
(* What the firmware is doing fits what is in the flash.                   *)
(***************************************************************************)
Resting == {"off", "recover", "setup", "migrate", "idle", "begun", "restart"}

\* Outside an operation the invariants of the operations hold trivially.
LEMMA RestingInv ==
  ASSUME pc' \in Resting
  PROVE  PrepareInv' /\ UploadInv' /\ RestoreInv' /\ ConfirmInv'
BY DEF Resting, PrepareInv, PreparePc, UploadInv, RestoreInv, RestorePc, ConfirmInv, AppendPc

\* Steps that neither write the journal nor switch or start a slot.
LEMMA RunningKept ==
  ASSUME IInv, SameJournal, UNCHANGED <<boot, running>>, pc \notin {"off", "restart"}
  PROVE  RunningInv'
BY DEF IInv, StepInv, RunningInv, SameJournal

\* Steps that neither write the journal nor report a status.
LEMMA StatusKept ==
  ASSUME IInv, SameJournal, UNCHANGED status, pc' # "setup",
         pc \notin RecoverPc \union AppendPc
  PROVE  StatusInv'
BY DEF IInv, StepInv, StatusInv, SameJournal

\* append() always runs on the image the boot loader would start.
LEMMA AppendRuns ==
  ASSUME IInv, pc \in AppendPc PROVE boot = running
<1>1. record.state \in State
  BY RecordTyped
<1>2. CASE record.state = "Ready"
  BY <1>2 DEF IInv, StepInv, PrepareInv, PreparePc, RunningInv, AppendPc
<1>3. CASE record.state # "Ready"
  BY <1>1, <1>3 DEF IInv, StepInv, UploadInv, RestoreInv, ConfirmInv, State
<1> QED BY <1>2, <1>3

\* The ways a step can give up: only the status needs care.
LEMMA GivesUp ==
  ASSUME IInv,
         \/ AbortUpdate
         \/ RecoverReturns("recovery_failed")
         \/ ConfirmFails
         \/ RecoverReturns("restored") /\ Quiet'
  PROVE  pc' \in Resting /\ StatusInv' /\ UNCHANGED running
<1>1. CASE AbortUpdate
  BY <1>1 DEF AbortUpdate, Resting, StatusInv, Idle, Quiet, RecoverPc
<1>2. CASE RecoverReturns("recovery_failed")
  BY <1>2 DEF RecoverReturns, Resting, StatusInv, IInv, TypeOK, Caller
<1>3. CASE ConfirmFails
  BY <1>3 DEF ConfirmFails, Resting, StatusInv
<1>4. CASE RecoverReturns("restored") /\ Quiet'
  BY <1>4 DEF RecoverReturns, Resting, StatusInv, IInv, TypeOK, Caller
<1> QED BY <1>1, <1>2, <1>3, <1>4

\* Engine::recover's decision.
LEMMA RecoverStep ==
  ASSUME IInv, Recover PROVE StepInv'
<1>0. SameJournal /\ UNCHANGED <<boot, assets, fresh>>
  BY JournalStays DEF Recover, flash
<1>1. RunningInv'
  BY <1>0, RunningKept DEF Recover, RecoverReturns
<1>2. CASE Verdict = "restored"
  <2>1. \E q \in Slot : Pending(q)
    BY <1>2 DEF Verdict
  <2>2. PICK s \in Slot : s = PendingSlot /\ Pending(s)
    BY <2>1, PendingSlotPends
  <2>3. Latest(s) \in Record /\ Latest(s).target = s
    BY <2>2, LatestTyped
  <2>4. /\ record' = [Latest(s) EXCEPT !.state = "Restored"]
        /\ pc' \in {"selectSource", "eraseAssets"}
        /\ pc' = "selectSource" => assets = Latest(s).oldAssets
    BY <1>2, <2>2 DEF Recover
  <2>5. record'.target = s /\ record'.state = "Restored" /\ record'.oldAssets = Latest(s).oldAssets
    BY <2>3, <2>4 DEF Record
  <2>6. Pending(s)' /\ Latest(s)' = Latest(s)
    BY <1>0, <2>2 DEF SameJournal, Pending
  <2>7. RestoreInv'
    BY <2>4, <2>5, <2>6, <1>0 DEF RestoreInv, RestorePc, AppendPc
  <2>8. PrepareInv' /\ UploadInv' /\ ConfirmInv' /\ StatusInv'
    BY <2>4 DEF PrepareInv, PreparePc, UploadInv, ConfirmInv, StatusInv, AppendPc, RecoverPc
  <2> QED BY <1>1, <2>7, <2>8 DEF StepInv
<1>3. CASE Verdict # "restored"
  <2>1. RecoverReturns(Verdict) /\ pc' \in Resting
    BY <1>3 DEF Recover, RecoverReturns, Resting, IInv, TypeOK, Caller
  <2>2. Verdict \in {"clean", "new_ready", "recovery_failed"} /\ (Verdict = "clean" => Quiet)
    BY <1>3 DEF Verdict, Quiet
  <2>3. StatusInv'
    BY <1>0, <2>1, <2>2 DEF StatusInv, RecoverReturns, SameJournal
  <2> QED BY <1>1, <2>1, <2>3, RestingInv DEF StepInv
<1> QED BY <1>2, <1>3

\* Engine::recover's restoration of the old pair.
LEMMA RestoreStep ==
  ASSUME IInv, EraseAssets \/ RestoreAssets \/ SelectSource PROVE StepInv'
<1> PICK s \in Slot : s = record.target
  BY RecordTyped
<1>0. SameJournal
  BY JournalStays DEF EraseAssets, RestoreAssets, SelectSource
<1>1. /\ s = record.target /\ Pending(s) /\ record = [Latest(s) EXCEPT !.state = "Restored"]
      /\ record.state = "Restored"
  BY RecordTyped, LatestTyped
  DEF IInv, StepInv, RestoreInv, RestorePc, EraseAssets, RestoreAssets, SelectSource, Record
<1>2. Latest(s) \in Record /\ Latest(s).target = s /\ Latest(s)' = Latest(s) /\ Pending(s)'
  BY <1>0, <1>1, LatestTyped DEF SameJournal, Pending
<1>3. record.oldAssets = Latest(s).oldAssets
  BY <1>1, <1>2 DEF Record
<1>4. CASE EraseAssets \/ RestoreAssets
  <2>0. pc' \in {"restoreAssets", "selectSource"} /\ UNCHANGED <<boot, running, status, record, fresh>>
        /\ pc \notin {"off", "restart"}
    BY <1>4 DEF EraseAssets, RestoreAssets, Goto
  <2>1. pc' = "selectSource" => assets' = record.oldAssets
    BY <1>1, <1>2, <1>3, <1>4
    DEF EraseAssets, RestoreAssets, Goto, IInv, FlashInv, OldPairInv, OldPairIntact
  <2>2. RestoreInv'
    BY <1>1, <1>2, <2>0, <2>1 DEF RestoreInv, RestorePc, AppendPc
  <2>3. PrepareInv' /\ UploadInv' /\ ConfirmInv' /\ StatusInv'
    BY <2>0 DEF PrepareInv, PreparePc, UploadInv, ConfirmInv, StatusInv, AppendPc, RecoverPc
  <2> QED BY <1>0, <2>0, <2>2, <2>3, RunningKept DEF StepInv
<1>5. CASE SelectSource /\ running = Other(s)
  <2>1. /\ boot' = running /\ fresh' = FALSE /\ pc' = "append"
        /\ UNCHANGED <<running, status, record, assets>>
    BY <1>5 DEF SelectSource, StartAppend
  <2>2. ~Pending(running) /\ running \in Slot /\ running # s
    BY <1>1, <1>5, SlotsDiffer, RecordTyped DEF IInv, FlashInv, OnePending
  <2>3. RunningInv'
    BY <1>0, <1>2, <2>1, <2>2, SlotsDiffer DEF SameJournal, RunningInv, Quiet
  <2>4. RestoreInv'
    BY <1>1, <1>2, <1>5, <2>1 DEF RestoreInv, RestorePc, SelectSource, IInv, StepInv
  <2>5. PrepareInv' /\ UploadInv' /\ ConfirmInv' /\ StatusInv'
    BY <1>1, <2>1 DEF PrepareInv, PreparePc, UploadInv, ConfirmInv, StatusInv, AppendPc, RecoverPc
  <2> QED BY <2>3, <2>4, <2>5 DEF StepInv
<1>6. CASE SelectSource /\ running # Other(s)
  <2>1. pc' = "restart" /\ status' = "reboot_old_app"
    BY <1>6 DEF SelectSource
  <2> QED
    BY <2>1, RestingInv DEF StepInv, RunningInv, StatusInv, Resting
<1> QED BY <1>4, <1>5, <1>6

\* append(): the record without its marker.
LEMMA AppendRecordStep ==
  ASSUME IInv, AppendRecord PROVE StepInv'
<1> DEFINE i == FirstFit(record.target, record.state)
<1>0. /\ pc = "append" /\ pc' = "commit" /\ at' = i
      /\ journal' = [journal EXCEPT ![record.target][i] = OpenEntry({record.state})]
      /\ UNCHANGED <<app, boot, fresh, assets, backup, running, status, plan, record>>
  BY AppendPlace DEF AppendRecord
<1>1. {record.state} \in SUBSET State
  BY RecordTyped
<1>2. \A s \in Slot :
        /\ SameRecords(s) /\ Pending(s)' = Pending(s)
        /\ Readable(s)' = Readable(s) /\ (Found(s) => Latest(s)' = Latest(s))
        /\ ReadyShape(s) => ReadyShape(s)'
        /\ VerifiedShape(s) => VerifiedShape(s)'
  BY <1>0, <1>1, OpenWritten
<1>3. RunningInv' /\ StatusInv'
  BY <1>0, <1>2 DEF IInv, StepInv, RunningInv, StatusInv, Quiet, AppendPc
<1>4. /\ i \in Entries /\ journal'[record.target][i] = OpenEntry({record.state})
      /\ \A j \in Entries : j # i => journal'[record.target][j] = journal[record.target][j]
      /\ record.target \in Slot /\ record.state \in State
  BY <1>0, AppendPlace, RecordTyped
<1>5. PrepareInv'
  <2> SUFFICES ASSUME record.state = "Ready" PROVE PrepareInv'
    BY <1>0 DEF PrepareInv, PreparePc
  <2>1. /\ Quiet /\ record.target = Other(running) /\ BlankFrom(record.target, 1)
        /\ record.oldApp = app[running] /\ record.newApp = plan
        /\ record.oldAssets = assets /\ record.newAssets = AssetsOf[plan]
        /\ backup[record.target] = assets
    BY <1>0 DEF IInv, StepInv, PrepareInv, PreparePc, AppendPc
  <2>2. i = 1
    BY <1>0, AppendPlace
  <2>3. ASSUME NEW j \in Entries, j >= 2 PROVE journal'[record.target][j] = BlankEntry
    BY <2>1, <2>2, <2>3, <1>4, JournalAssumption DEF BlankFrom, Entries
  <2>4. BlankFrom(record.target, 2)'
    BY <2>3, <1>0 DEF BlankFrom
  <2>5. Quiet'
    BY <2>1, <1>2 DEF Quiet
  <2> QED BY <1>0, <1>4, <2>1, <2>2, <2>4, <2>5 DEF PrepareInv, PreparePc, AppendPc
<1>6. UploadInv'
  <2> DEFINE t == Other(running)
  <2> SUFFICES ASSUME record.state = "Verified" PROVE UploadInv'
    BY <1>0 DEF UploadInv, AppendPc
  <2>1. /\ record.target = t /\ ReadyShape(t) /\ BlankFrom(t, 3)
        /\ record = [Latest(t) EXCEPT !.state = "Verified"]
        /\ record.newApp = plan /\ boot = running
    BY <1>0 DEF IInv, StepInv, UploadInv, AppendPc
  <2>2. i = 2
    BY <1>0, AppendPlace
  <2>3. ASSUME NEW j \in Entries, j >= 3 PROVE journal'[t][j] = BlankEntry
    BY <2>1, <2>2, <2>3, <1>4, JournalAssumption DEF BlankFrom, Entries
  <2>4. BlankFrom(t, 3)'
    BY <2>3, <1>0 DEF BlankFrom
  <2>5. ReadyShape(t)' /\ Latest(t)' = Latest(t) /\ t' = t
    BY <2>1, <1>0, <1>2, <1>4, ReadShape DEF ShapeFacts
  <2> QED BY <1>0, <1>4, <2>1, <2>2, <2>4, <2>5 DEF UploadInv, AppendPc
<1>7. RestoreInv'
  <2> SUFFICES ASSUME record.state = "Restored" PROVE RestoreInv'
    BY <1>0 DEF RestoreInv, RestorePc
  <2>1. /\ Pending(record.target) /\ record = [Latest(record.target) EXCEPT !.state = "Restored"]
        /\ assets = record.oldAssets /\ boot = running /\ running = Other(record.target) /\ ~fresh
    BY <1>0 DEF IInv, StepInv, RestoreInv, RestorePc, AppendPc
  <2>2. i \in 2..4 /\ i \notin Committed(record.target)
    BY <1>0, AppendPlace
  <2>3. /\ Pending(record.target)' /\ Latest(record.target)' = Latest(record.target)
        /\ Committed(record.target)' = Committed(record.target)
    BY <1>0, <1>2, <1>4, <2>1 DEF Pending, SameRecords
  <2> QED BY <1>0, <1>4, <2>1, <2>2, <2>3 DEF RestoreInv, RestorePc, AppendPc
<1>8. ConfirmInv'
  <2> SUFFICES ASSUME record.state = "Complete" PROVE ConfirmInv'
    BY <1>0 DEF ConfirmInv
  <2>1. /\ record.target = running /\ VerifiedShape(running)
        /\ record = [Latest(running) EXCEPT !.state = "Complete"]
        /\ boot = running /\ ~fresh /\ assets = record.newAssets
    BY <1>0 DEF IInv, StepInv, ConfirmInv, AppendPc
  <2>2. i = 3
    BY <1>0, AppendPlace
  <2>3. VerifiedShape(running)' /\ Latest(running)' = Latest(running)
    BY <2>1, <1>0, <1>2, <1>4, ReadShape DEF ShapeFacts
  <2> QED BY <1>0, <1>4, <2>1, <2>2, <2>3 DEF ConfirmInv, AppendPc
<1> QED BY <1>3, <1>5, <1>6, <1>7, <1>8 DEF StepInv

\* append(): the marker.
LEMMA AppendCommitStep ==
  ASSUME IInv, AppendCommit PROVE StepInv'
<1>0. /\ pc = "commit" /\ boot = running /\ running \in Slot
      /\ journal' = [journal EXCEPT ![record.target][at] = DoneEntry(record)]
      /\ UNCHANGED <<app, boot, fresh, assets, backup>>
  BY AppendRuns, RecordTyped DEF AppendCommit, AppendPc
<1>1. PICK t \in Slot : t = record.target
  BY RecordTyped
<1>2. /\ record.state = "Ready" =>
           ReadyShape(t)' /\ BlankFrom(t, 2)' /\ Latest(t)' = record
      /\ record.state = "Verified" =>
           VerifiedShape(t)' /\ BlankFrom(t, 3)' /\ Latest(t)' = record
      /\ record.state \in Terminal => Quiet'
  BY <1>0, <1>1, RecordCommitted
<1>3. RunningInv'
  <2>1. UNCHANGED running
    BY RecordTyped DEF AppendCommit, RecoverReturns, State
  <2> QED BY <1>0, <2>1 DEF RunningInv
<1>4. CASE record.state = "Ready"
  <2>1. t = Other(running) /\ record.newApp = plan
    BY <1>0, <1>1, <1>4 DEF IInv, StepInv, PrepareInv, PreparePc, AppendPc
  <2>2. pc' = "eraseOldAssets" /\ status' = "backup_ready" /\ UNCHANGED <<running, plan, record>>
    BY <1>4 DEF AppendCommit
  <2>3. UploadInv'
    BY <1>0, <1>2, <1>4, <2>1, <2>2 DEF UploadInv, AppendPc
  <2> QED
    BY <1>3, <2>2, <2>3
    DEF StepInv, StatusInv, PrepareInv, PreparePc, RestoreInv, RestorePc, ConfirmInv, AppendPc
<1>5. CASE record.state = "Verified"
  <2>1. t = Other(running) /\ record.newApp = plan
    BY <1>0, <1>1, <1>5 DEF IInv, StepInv, UploadInv, AppendPc
  <2>2. pc' = "flush" /\ status' = "assets_verified" /\ UNCHANGED <<running, plan, record>>
    BY <1>5 DEF AppendCommit
  <2>3. UploadInv'
    BY <1>0, <1>2, <1>5, <2>1, <2>2 DEF UploadInv, AppendPc
  <2> QED
    BY <1>3, <2>2, <2>3
    DEF StepInv, StatusInv, PrepareInv, PreparePc, RestoreInv, RestorePc, ConfirmInv, AppendPc
<1>6. CASE record.state = "Complete"
  <2>1. pc' = "migrate" /\ Quiet'
    BY <1>2, <1>6 DEF AppendCommit, Terminal
  <2> QED BY <1>3, <2>1, RestingInv DEF StepInv, StatusInv, Resting
<1>7. CASE record.state = "Restored"
  <2>1. RecoverReturns("restored") /\ Quiet'
    BY <1>2, <1>7 DEF AppendCommit, Terminal
  <2> QED BY <1>3, <2>1, GivesUp, RestingInv DEF StepInv
<1> QED BY <1>4, <1>5, <1>6, <1>7, RecordTyped DEF State

\* setup(): mark the image valid, confirm the new pair.
LEMMA SetupStep ==
  ASSUME IInv, Setup PROVE StepInv'
<1>0. SameJournal /\ pc = "setup" /\ UNCHANGED <<boot, running, assets, journal>>
  BY JournalStays DEF Setup, Goto, ConfirmFails
<1>1. RunningInv'
  BY <1>0, RunningKept
<1>2. CASE ~Mounted
  BY <1>0, <1>1, <1>2, RestingInv, StatusKept
  DEF Setup, Goto, Resting, StepInv, RecoverPc, AppendPc
<1>3. CASE ConfirmFails
  BY <1>1, <1>3, GivesUp, RestingInv DEF StepInv
<1>4. CASE Mounted /\ ~ConfirmFails /\ status # "new_ready"
  <2>1. pc' = "migrate" /\ Quiet
    BY <1>0, <1>4 DEF Setup, Mounted, IInv, StepInv, StatusInv, RecoverPc, AppendPc
  <2>2. Quiet'
    BY <1>0, <2>1 DEF SameJournal
  <2> QED BY <1>1, <2>1, <2>2, RestingInv DEF StepInv, StatusInv, Resting
<1>5. CASE Mounted /\ ~ConfirmFails /\ status = "new_ready"
  <2>1. /\ Confirmable /\ record' = [Latest(running) EXCEPT !.state = "Complete"]
        /\ pc' = "append" /\ fresh' = FALSE
    BY <1>5 DEF Setup, MarkValid
  <2>2. Pending(running) /\ Latest(running).state = "Verified" /\ Found(running)
    BY <2>1 DEF Confirmable, Pending, Terminal
  <2>3. Latest(running) \in Record /\ Latest(running).target = running
    BY <2>2, LatestTyped, RecordTyped
  <2>4. VerifiedShape(running)
    BY <2>2, ReadShape, RecordTyped DEF IInv, FlashInv, ShapeInv, ShapeFacts, ReadyShape
  <2>5. boot = running
    BY <1>0, <2>2, RecordTyped DEF IInv, StepInv, RunningInv
  <2>6. /\ record'.target = running /\ record'.state = "Complete"
        /\ record'.newAssets = Latest(running).newAssets
    BY <2>1, <2>3 DEF Record
  <2>7. VerifiedShape(running)' /\ Latest(running)' = Latest(running)
    BY <1>0, <2>2, <2>4, RecordTyped DEF SameJournal, VerifiedShape, Committed
  <2>8. ConfirmInv'
    BY <1>0, <2>1, <2>5, <2>6, <2>7 DEF ConfirmInv, Confirmable, NewPairIntact, AppendPc
  <2>9. PrepareInv' /\ UploadInv' /\ RestoreInv' /\ StatusInv'
    BY <2>1, <2>6 DEF PrepareInv, PreparePc, UploadInv, RestoreInv, RestorePc, StatusInv, AppendPc
  <2> QED BY <1>1, <2>8, <2>9 DEF StepInv
<1> QED BY <1>2, <1>3, <1>4, <1>5

\* prepare(), up to the Ready record.
LEMMA PrepareStep ==
  ASSUME IInv, BeginPayload \/ FinishFirmware \/ EraseJournal \/ EraseBackup \/ CopyBackup
  PROVE  StepInv'
<1>0. UNCHANGED <<boot, running>> /\ pc \notin {"off", "restart", "setup"}
      /\ pc \notin RecoverPc \union AppendPc
  BY DEF BeginPayload, FinishFirmware, EraseJournal, EraseBackup, CopyBackup, AbortUpdate,
         Goto, StartAppend, flash, RecoverPc, AppendPc
<1>1. CASE BeginPayload
  <2>1. SameJournal
    BY <1>1, JournalStays DEF BeginPayload
  <2>2. RunningInv'
    BY <1>0, <2>1, RunningKept
  <2>3. CASE AbortUpdate
    BY <2>2, <2>3, GivesUp, RestingInv DEF StepInv
  <2>4. CASE Idle /\ pc' = "download" /\ UNCHANGED status
    <3>1. Quiet'
      BY <2>1, <2>4 DEF Idle, Quiet, SameJournal
    <3> QED
      BY <2>2, <2>4, <3>1
      DEF StepInv, StatusInv, PrepareInv, PreparePc, UploadInv, RestoreInv, RestorePc, ConfirmInv, AppendPc
  <2> QED BY <1>1, <2>3, <2>4 DEF BeginPayload
<1>2. CASE FinishFirmware
  <2>1. SameJournal
    BY <1>2, JournalStays DEF FinishFirmware, flash
  <2>2. Idle' /\ Quiet'
    BY <1>2, <2>1 DEF FinishFirmware, Idle, Quiet, SameJournal
  <2>3. RunningInv' /\ pc' = "eraseJournal" /\ UNCHANGED <<running, plan, status, app, assets>>
    BY <1>0, <1>2, <2>1, RunningKept DEF FinishFirmware, flash
  <2>4. PrepareInv'
    BY <1>2, <2>2, <2>3 DEF FinishFirmware, PrepareInv, PreparePc, AppendPc
  <2> QED
    BY <2>2, <2>3, <2>4
    DEF StepInv, StatusInv, UploadInv, RestoreInv, RestorePc, ConfirmInv, AppendPc
<1>3. CASE EraseJournal
  <2>1. /\ Quiet' /\ pc = "eraseJournal" /\ pc' = "eraseBackup"
        /\ UNCHANGED <<app, assets, boot, running, plan, status, record>>
    BY <1>3, JournalErased, RecordTyped DEF EraseJournal, Goto
  <2>2. BlankFrom(record.target, 1)'
    BY <1>3, <2>1, RecordTyped DEF EraseJournal, BlankFrom
  <2>3. RunningInv'
    BY <1>0, <2>1 DEF IInv, StepInv, RunningInv, PrepareInv, PreparePc, Quiet
  <2>4. PrepareInv'
    BY <2>1, <2>2 DEF IInv, StepInv, PrepareInv, PreparePc, AppendPc
  <2> QED
    BY <2>1, <2>3, <2>4
    DEF StepInv, StatusInv, UploadInv, RestoreInv, RestorePc, ConfirmInv, AppendPc
<1>4. CASE EraseBackup \/ CopyBackup
  <2>1. SameJournal /\ UNCHANGED <<journal, app, assets, running, plan, status, record>>
        /\ pc \in {"eraseBackup", "copyBackup"}
    BY <1>4, JournalStays DEF EraseBackup, CopyBackup, Goto, StartAppend
  <2>2. /\ Quiet' /\ BlankFrom(record.target, 1)' /\ record.state = "Ready"
    BY <2>1 DEF SameJournal, BlankFrom, IInv, StepInv, PrepareInv, PreparePc
  <2>3. pc' = "copyBackup" \/ (pc' = "append" /\ backup'[record.target] = assets)
    BY <1>4, RecordTyped DEF EraseBackup, CopyBackup, Goto, StartAppend, IInv, TypeOK
  <2>4. PrepareInv'
    BY <2>1, <2>2, <2>3 DEF IInv, StepInv, PrepareInv, PreparePc, AppendPc
  <2>5. RunningInv'
    BY <1>0, <2>1, RunningKept
  <2> QED
    BY <2>2, <2>3, <2>1, <2>4, <2>5
    DEF StepInv, StatusInv, UploadInv, RestoreInv, RestorePc, ConfirmInv, AppendPc
<1> QED BY <1>1, <1>2, <1>3, <1>4

\* The new assets, their verification and the boot-slot switch.
LEMMA UploadStep ==
  ASSUME IInv,
         EraseOldAssets \/ WriteAssets \/ Verify \/ FlushHistory \/ ActivateImage \/ SelectTarget
  PROVE  StepInv'
<1>0. SameJournal /\ UNCHANGED <<journal, running>>
  BY JournalStays
  DEF EraseOldAssets, WriteAssets, Verify, FlushHistory, ActivateImage, SelectTarget,
      Goto, StartAppend, AbortUpdate, flash
<1>1. PICK t \in Slot : t = Other(running) /\ t # running /\ t = (Other(running))'
  BY <1>0, RecordTyped, SlotsDiffer
<1>2. CASE SelectTarget
  <2>1. pc = "selectTarget" /\ pc' = "restart" /\ UNCHANGED status
    BY <1>2 DEF SelectTarget, Goto
  <2> QED
    BY <1>0, <2>1, RestingInv, StatusKept DEF StepInv, RunningInv, Resting, RecoverPc, AppendPc
<1>3. CASE EraseOldAssets \/ WriteAssets
  <2>1. /\ pc' \in {"writeAssets", "verify"} /\ UNCHANGED <<boot, plan, status>>
        /\ pc \in {"eraseOldAssets", "writeAssets"}
    BY <1>3 DEF EraseOldAssets, WriteAssets, Goto
  <2>2. UploadInv'
    BY <1>0, <1>1, <2>1
    DEF IInv, StepInv, UploadInv, SameJournal, BlankFrom, ReadyShape, Found, AppendPc
  <2> QED
    BY <1>0, <2>1, <2>2, RunningKept, StatusKept
    DEF StepInv, PrepareInv, PreparePc, RestoreInv, RestorePc, ConfirmInv, RecoverPc, AppendPc
<1>4. CASE FlushHistory \/ ActivateImage
  <2>1. /\ pc' \in {"activate", "selectTarget"} /\ UNCHANGED <<boot, plan, status>>
        /\ pc \in {"flush", "activate"}
        /\ pc' = "selectTarget" => app'[t] = plan
    BY <1>1, <1>4 DEF FlushHistory, ActivateImage, Goto, flash, IInv, TypeOK
  <2>2. VerifiedShape(t) /\ BlankFrom(t, 3) /\ Latest(t).newApp = plan /\ boot = running
    BY <1>1, <2>1 DEF IInv, StepInv, UploadInv
  <2>3. VerifiedShape(t)' /\ BlankFrom(t, 3)' /\ Latest(t)' = Latest(t)
    BY <1>0, <2>1, <2>2, ReadShape DEF SameJournal, ShapeFacts, VerifiedShape, BlankFrom, Committed
  <2>4. UploadInv'
    BY <1>0, <1>1, <2>1, <2>2, <2>3 DEF UploadInv, AppendPc
  <2> QED
    BY <1>0, <2>1, <2>4, RunningKept, StatusKept
    DEF StepInv, PrepareInv, PreparePc, RestoreInv, RestorePc, ConfirmInv, RecoverPc, AppendPc
<1>5. CASE Verify
  <2>0. UNCHANGED boot /\ pc = "verify"
    BY <1>5 DEF Verify, flash
  <2>1. RunningInv'
    BY <1>0, <2>0, RunningKept
  <2>2. CASE AbortUpdate
    BY <2>1, <2>2, GivesUp, RestingInv DEF StepInv
  <2>3. CASE StartAppend([Latest(t) EXCEPT !.state = "Verified"])
    <3>1. ReadyShape(t) /\ BlankFrom(t, 2) /\ Latest(t).newApp = plan /\ boot = running
      BY <1>1, <2>0 DEF IInv, StepInv, UploadInv
    <3>2. Latest(t) \in Record /\ Latest(t).target = t
      BY <3>1, ReadShape DEF ShapeFacts, ReadyShape
    <3>3. /\ record' = [Latest(t) EXCEPT !.state = "Verified"] /\ pc' = "append"
          /\ UNCHANGED <<plan, status>>
      BY <2>3 DEF StartAppend
    <3>4. record'.target = t /\ record'.state = "Verified" /\ record'.newApp = plan
      BY <3>1, <3>2, <3>3 DEF Record
    <3>5. ReadyShape(t)' /\ BlankFrom(t, 2)' /\ Latest(t)' = Latest(t)
      BY <1>0, <3>1, ReadShape DEF SameJournal, ShapeFacts, BlankFrom
    <3>6. BlankFrom(t, 3)'
      BY <3>5, JournalAssumption DEF BlankFrom, Entries
    <3>7. UploadInv'
      BY <1>0, <1>1, <2>0, <3>1, <3>3, <3>4, <3>5, <3>6 DEF UploadInv, AppendPc
    <3> QED
      BY <2>1, <3>3, <3>4, <3>7
      DEF StepInv, StatusInv, PrepareInv, PreparePc, RestoreInv, RestorePc, ConfirmInv, AppendPc
  <2> QED BY <1>1, <1>5, <2>2, <2>3 DEF Verify
<1> QED BY <1>2, <1>3, <1>4, <1>5

\* An operation that reports an error.
LEMMA IoFailureStep ==
  ASSUME IInv, IoFailure PROVE StepInv'
<1>1. OperationFails /\ pc \notin {"off", "restart"}
  BY DEF IoFailure, RecoverPc, AppendPc, UpdatePc
<1>2. pc' \in Resting /\ StatusInv' /\ UNCHANGED running
  BY <1>1, GivesUp DEF OperationFails
<1>3. RunningInv'
  <2>1. CASE PartialEffect
    <3>1. UNCHANGED boot
      BY <2>1 DEF PartialEffect
    <3>2. CASE SameJournal
      BY <1>1, <1>2, <3>1, <3>2, RunningKept
    <3>3. CASE pc = "eraseJournal" /\ Quiet'
      BY <1>2, <3>1, <3>3 DEF IInv, StepInv, PrepareInv, PreparePc, RunningInv, Quiet
    <3>4. CASE pc \in AppendPc
      BY <1>2, <3>1, <3>4, AppendRuns DEF RunningInv
    <3> QED BY <2>1, <3>2, <3>3, <3>4, PartialStep
  <2>2. CASE pc = "selectTarget" /\ boot' = Other(running) /\ UNCHANGED journal
    <3>1. SameJournal
      BY <2>2, JournalStays
    <3>2. Pending(Other(running)) /\ ~Pending(running)
      BY <2>2, ReadShape, RecordTyped, SlotsDiffer
      DEF IInv, StepInv, UploadInv, ShapeFacts, FlashInv, OnePending
    <3> QED
      BY <1>2, <2>2, <3>1, <3>2, RecordTyped, SlotsDiffer DEF RunningInv, SameJournal, Quiet
  <2> QED BY <2>1, <2>2 DEF IoFailure
<1> QED BY <1>2, <1>3, RestingInv DEF StepInv

\* Every step keeps the invariant of the control state.
LEMMA StepStep ==
  ASSUME IInv, [Next]_vars PROVE StepInv'
<1>1. CASE UNCHANGED vars
  <2>1. SameJournal
    BY <1>1, JournalStays DEF vars
  <2>2. \A s \in Slot : /\ VerifiedShape(s)' = VerifiedShape(s) /\ Committed(s)' = Committed(s)
                        /\ \A n \in 1..3 : BlankFrom(s, n)' = BlankFrom(s, n)
    BY <1>1 DEF VerifiedShape, BlankFrom, Committed, vars
  <2>3. running' = running /\ (Other(running))' = Other(running) /\ Other(running) \in Slot
        /\ record' = record /\ record.target \in Slot
    BY <1>1, RecordTyped, SlotsDiffer DEF vars
  <2>4. RunningInv' /\ StatusInv'
    BY <1>1, <2>1 DEF vars, IInv, StepInv, RunningInv, StatusInv, SameJournal
  <2>5. PrepareInv'
    BY <1>1, <2>1, <2>2, <2>3
    DEF vars, IInv, StepInv, PrepareInv, PreparePc, Idle, SameJournal
  <2>6. UploadInv'
    BY <1>1, <2>1, <2>2, <2>3, ReadShape
    DEF vars, IInv, StepInv, UploadInv, SameJournal, ShapeFacts
  <2>7. RestoreInv'
    BY <1>1, <2>1, <2>2, <2>3
    DEF vars, IInv, StepInv, RestoreInv, RestorePc, SameJournal, Pending
  <2>8. ConfirmInv'
    BY <1>1, <2>1, <2>2, <2>3, RecordTyped, ReadShape
    DEF vars, IInv, StepInv, ConfirmInv, SameJournal, ShapeFacts
  <2> QED BY <2>4, <2>5, <2>6, <2>7, <2>8 DEF StepInv
<1>2. CASE Damage
  <2>1. SameJournal /\ pc \in {"off", "setup"} /\ UNCHANGED <<boot, running, pc, status>>
    BY <1>2, JournalStays DEF Damage, ram
  <2>2. RunningInv' /\ StatusInv'
    BY <2>1 DEF IInv, StepInv, RunningInv, StatusInv, SameJournal
  <2> QED BY <2>1, <2>2, RestingInv DEF StepInv, Resting
<1>3. CASE Boot
  <2>1. SameJournal /\ pc' = "recover"
    BY <1>3, JournalStays DEF Boot
  <2>2. running' = boot'
    BY <1>3 DEF Boot
  <2> QED
    BY <2>1, <2>2, RestingInv DEF StepInv, RunningInv, StatusInv, RecoverPc, Resting
<1>4. CASE Restart \/ PowerCut
  <2>1. pc' = "off" /\ status' = "not_checked"
    BY <1>4 DEF Restart, PowerCut, PowerOff
  <2> QED BY <2>1, RestingInv DEF StepInv, RunningInv, StatusInv, Resting
<1>5. CASE Migrate
  <2>1. SameJournal /\ pc = "migrate" /\ pc' = "idle" /\ UNCHANGED <<boot, running, status>>
    BY <1>5, JournalStays DEF Migrate, Goto
  <2> QED
    BY <2>1, RunningKept, StatusKept, RestingInv DEF StepInv, RecoverPc, AppendPc, Resting
<1>6. CASE AbortAgain \/ \E v \in Version : BeginUpdate(v)
  <2>1. SameJournal /\ pc = "idle" /\ pc' = "recover" /\ UNCHANGED <<boot, running, status>>
    BY <1>6, JournalStays DEF AbortAgain, BeginUpdate, flash
  <2> QED
    BY <2>1, RunningKept, StatusKept, RestingInv DEF StepInv, RecoverPc, AppendPc, Resting
<1>7. CASE Abandon
  <2>1. SameJournal /\ AbortUpdate /\ UNCHANGED boot /\ pc \notin {"off", "restart"}
    BY <1>7, JournalStays DEF Abandon, flash
  <2> QED BY <2>1, GivesUp, RunningKept, RestingInv DEF StepInv
<1>8. CASE MarkValidFails
  <2>1. SameJournal /\ ConfirmFails /\ UNCHANGED boot /\ pc \notin {"off", "restart"}
    BY <1>8, JournalStays DEF MarkValidFails, flash
  <2> QED BY <2>1, GivesUp, RunningKept, RestingInv DEF StepInv
<1> QED
  BY <1>1, <1>2, <1>3, <1>4, <1>5, <1>6, <1>7, <1>8, RecoverStep, RestoreStep,
     AppendRecordStep, AppendCommitStep, SetupStep, PrepareStep, UploadStep, IoFailureStep
  DEF Next, Firmware
-----------------------------------------------------------------------------
(***************************************************************************)
(* The invariant, and what follows from it.                                *)
(***************************************************************************)
\* The initial state satisfies the invariant.
LEMMA InitIInv == Init => IInv
<1> SUFFICES ASSUME Init PROVE IInv
  OBVIOUS
<1>1. TypeOK
  <2>1. record \in Record /\ plan \in Version /\ assets \in AssetImage
        /\ app \in [Slot -> Version \union {None}]
    BY DEF Init, Record, State, AssetImage, Slot
  <2>2. journal \in [Slot -> [Entries -> JournalEntry]] /\ at \in Entries
    BY EntriesTyped, FourEntries DEF Init
  <2>3. backup \in [Slot -> AssetImage \union {None}]
    BY DEF Init
  <2>4. /\ boot \in Slot /\ running \in Slot /\ fresh \in BOOLEAN /\ compact \in BOOLEAN
        /\ pc \in Pc /\ caller \in Caller /\ status \in Status
    BY DEF Init, Slot, Pc, Caller, Status
  <2>5. faults \in 0..MaxFaults /\ updates \in 0..MaxUpdates
    BY FaultAssumption DEF Init
  <2> QED BY <2>1, <2>2, <2>3, <2>4, <2>5 DEF TypeOK
<1>2. \A s \in Slot : Committed(s) = {} /\ ~Pending(s) /\ Readable(s) /\ ~Found(s)
  BY DEF Init, Committed, Pending, Readable, Found, BlankEntry
<1>3. FlashInv
  BY <1>1, <1>2, ImageAssumption
  DEF Init, FlashInv, OnePending, ShapeInv, LastInv, ReadableInv, OldPairInv, SlotInv,
      PairAtomic, Slot
<1>4. StepInv
  BY RestingInv DEF Init, StepInv, RunningInv, StatusInv, PrepareInv, PreparePc, UploadInv,
      RestoreInv, RestorePc, ConfirmInv, AppendPc
<1> QED BY <1>1, <1>3, <1>4 DEF IInv

\* The inductive invariant holds in every reachable state.
LEMMA Invariance == Spec => []IInv
<1>1. IInv /\ [Next]_vars => IInv'
  BY TypeStep, FlashStep, StepStep DEF IInv
<1> QED BY InitIInv, <1>1, PTL DEF Spec

\* The variables of the model stay in their types: flash holds images, backups
\* and journal entries of known form, and the firmware is at a known step.
THEOREM TypeCorrect == Spec => []TypeOK
<1>1. IInv => TypeOK
  BY DEF IInv
<1> QED BY Invariance, <1>1, PTL

\* Whenever no transaction is pending, the image the boot loader starts next has
\* its own assets (the journal protocol of Engine::prepare and Engine::recover).
THEOREM PairIsAtomic == Spec => []PairAtomic
<1>1. IInv => PairAtomic
  BY DEF IInv, FlashInv
<1> QED BY Invariance, <1>1, PTL

\* While a transaction is pending, the image and the asset backup that
\* Engine::recover restores are both intact.
THEOREM OldPairIsKept == Spec => []OldPairKept
<1>1. IInv => OldPairKept
  BY DEF IInv, FlashInv, OldPairInv, OldPairKept
<1> QED BY Invariance, <1>1, PTL

\* Engine::recover never meets two pending transactions.
THEOREM OneIsPending == Spec => []OnePending
<1>1. IInv => OnePending
  BY DEF IInv, FlashInv
<1> QED BY Invariance, <1>1, PTL

\* The boot loader always has a complete image to start, and to fall back to.
THEOREM AlwaysBootable == Spec => []BootableAlways
<1>1. IInv => BootableAlways
  <2> SUFFICES ASSUME IInv PROVE BootableAlways
    OBVIOUS
  <2>1. CASE Quiet
    BY <2>1, RecordTyped
    DEF IInv, FlashInv, PairAtomic, SlotInv, BootableAlways, Quiet
  <2>2. CASE ~Quiet
    <3>1. PICK s \in Slot : Pending(s)
      BY <2>2 DEF Quiet
    <3>2. /\ Latest(s) \in Record /\ Latest(s).target = s /\ app[Other(s)] = Latest(s).oldApp
          /\ boot = s => app[s] = Latest(s).newApp
      BY <3>1, LatestTyped DEF IInv, FlashInv, OldPairInv, OldPairIntact, SlotInv
    <3>3. app[Other(s)] # None /\ (boot = s => app[s] # None)
      BY <3>2, ImageAssumption DEF Record
    <3>4. (boot = s \/ boot = Other(s)) /\ \A q \in Slot : q = s \/ q = Other(s)
      BY RecordTyped, SlotsDiffer
    <3>5. ~Pending(Other(s))
      BY <3>1, <3>4 DEF IInv, FlashInv, OnePending
    <3>6. fresh => boot = s
      BY <3>4, <3>5 DEF IInv, FlashInv, SlotInv
    <3> QED BY <3>3, <3>4, <3>6 DEF BootableAlways
  <2> QED BY <2>1, <2>2
<1> QED BY Invariance, <1>1, PTL

\* Engine::append never runs out of journal entries, however many writes of it
\* have been interrupted: four entries are enough for a transaction.
THEOREM JournalHasRoom == Spec => []JournalRoom
<1>1. IInv => JournalRoom
  BY AppendPlace DEF JournalRoom
<1> QED BY Invariance, <1>1, PTL

\* When recovery and setup() report a settled status, the running image has its
\* own assets.
THEOREM SettledIsPaired == Spec => []SettledPair
<1>1. IInv => SettledPair
  BY RecordTyped
  DEF IInv, FlashInv, StepInv, StatusInv, RunningInv, PairAtomic, SettledPair, Quiet,
      RecoverPc, AppendPc
<1> QED BY Invariance, <1>1, PTL

\* Engine::recover always comes to a decision when erasing a journal is not
\* interrupted half way (the run Stranded shows what happens when it is).
THEOREM RecoveryAlwaysDecides ==
  ASSUME "torn_erase" \notin FaultKind
  PROVE  Spec => []RecoveryDecides
<1>1. IInv => RecoveryDecides
  <2> SUFFICES ASSUME IInv PROVE Verdict # "recovery_failed"
    BY DEF RecoveryDecides
  <2>1. (\A s \in Slot : Readable(s)) /\ ~(\A s \in Slot : Pending(s))
    BY DEF IInv, FlashInv, ReadableInv, OnePending
  <2>2. CASE \E s \in Slot : Pending(s)
    <3>1. PendingSlot \in Slot /\ Pending(PendingSlot)
      BY <2>2, PendingSlotPends
    <3>2. OldPairIntact(Latest(PendingSlot))
      BY <3>1 DEF IInv, FlashInv, OldPairInv
    <3> QED BY <2>1, <2>2, <3>2 DEF Verdict
  <2>3. CASE \A s \in Slot : ~Pending(s)
    BY <2>1, <2>3 DEF Verdict
  <2> QED BY <2>2, <2>3
<1> QED BY Invariance, <1>1, PTL

\* A committed journal entry changes only when prepare() erases the journal of a
\* slot with no transaction of its own, and only when nothing is pending.
THEOREM CommittedEntriesStay == Spec => CommittedStays
<1> DEFINE Stays ==
      \A s \in Slot : \A i \in Committed(s) :
        journal'[s][i] # journal[s][i] =>
          /\ pc = "eraseJournal" /\ s = record.target
          /\ \A t \in Slot : ~Pending(t)
<1>1. ASSUME IInv, Next PROVE Stays
  <2>1. CASE UNCHANGED journal
    BY <2>1
  <2>2. ASSUME pc = "append", NEW states,
               journal' = [journal EXCEPT
                 ![record.target][FirstFit(record.target, record.state)] = OpenEntry(states)]
        PROVE  Stays
    <3>1. FirstFit(record.target, record.state) \notin Committed(record.target)
      BY <1>1, <2>2, AppendPlace DEF Fits, Committed
    <3> QED BY <1>1, <2>2, <3>1, AppendPlace, RecordTyped DEF Committed
  <2>3. ASSUME pc = "commit",
               journal' = [journal EXCEPT ![record.target][at] = DoneEntry(record)]
        PROVE  Stays
    <3>1. at \notin Committed(record.target)
      BY <1>1, <2>3, RecordTyped
      DEF IInv, StepInv, PrepareInv, UploadInv, RestoreInv, ConfirmInv, AppendPc, State,
          OpenEntry, Committed
    <3> QED BY <1>1, <2>3, <3>1, RecordTyped DEF Committed
  <2>4. ASSUME pc = "eraseJournal", NEW entries,
               journal' = [journal EXCEPT ![record.target] = entries]
        PROVE  Stays
    BY <1>1, <2>4, RecordTyped DEF IInv, StepInv, PrepareInv, PreparePc, Quiet
  <2>5. CASE AppendRecord
    BY <1>1, <2>1, <2>2, <2>5 DEF AppendRecord
  <2>6. CASE AppendCommit
    BY <2>3, <2>6 DEF AppendCommit
  <2>7. CASE EraseJournal
    BY <2>4, <2>7 DEF EraseJournal
  <2>8. CASE PowerCut \/ IoFailure
    <3>1. CASE PartialEffect
      BY <2>1, <2>2, <2>3, <2>4, <3>1 DEF PartialEffect
    <3> QED BY <2>1, <2>8, <3>1 DEF PowerCut, IoFailure
  <2>9. CASE ~(AppendRecord \/ AppendCommit \/ EraseJournal \/ PowerCut \/ IoFailure)
    <3>1. UNCHANGED journal
      BY <1>1, <2>9
      DEF Next, Firmware, Recover, EraseAssets, RestoreAssets, SelectSource, Boot, Setup,
          Migrate, Restart, BeginUpdate, BeginPayload, FinishFirmware, EraseBackup,
          CopyBackup, EraseOldAssets, WriteAssets, Verify, FlushHistory, ActivateImage,
          SelectTarget, Abandon, AbortAgain, MarkValidFails, Damage, Goto, StartAppend,
          flash
    <3> QED BY <2>1, <3>1
  <2> QED BY <2>5, <2>6, <2>7, <2>8, <2>9
<1>2. IInv /\ [Next]_vars => [Stays]_vars
  BY <1>1
<1> QED BY Invariance, <1>2, PTL DEF Spec, CommittedStays
-----------------------------------------------------------------------------
(***************************************************************************)
(* Which releases may run once the history is compact.                     *)
(***************************************************************************)
\* An update is under way, or will be when the recovery before it is done.
Updating ==
  \/ pc \in UpdatePc
  \/ pc \in AppendPc /\ record.state \in {"Ready", "Verified"}
  \/ caller = "begin" /\ (pc \in RecoverPc \/ (pc \in AppendPc /\ record.state = "Restored"))

ReaderInv == MigrationSafe /\ (compact /\ Updating => plan \in Reader)

\* Every step keeps the images readable, given the invariant above.
LEMMA ReaderStep ==
  ASSUME IInv, ReaderInv, [Next]_vars PROVE ReaderInv'
<1> USE DEF ReaderInv, MigrationSafe
<1>1. CASE UNCHANGED vars
  BY <1>1 DEF vars, Updating
<1>2. CASE Migrate
  <2>1. pc' = "idle"
    BY <1>2 DEF Migrate, Goto
  <2>2. CASE compact' = compact
    BY <1>2, <2>1, <2>2 DEF Migrate, Updating, UpdatePc, AppendPc, RecoverPc
  <2>3. CASE compact' # compact
    <3>1. app[0] = app[1] /\ app[running] \in Reader /\ UNCHANGED app
      BY <1>2, <2>3 DEF Migrate, SameVerifiedAppPair
    <3> QED
      BY <2>1, <3>1, RecordTyped DEF Slot, Updating, UpdatePc, AppendPc, RecoverPc
  <2> QED BY <2>2, <2>3
<1>3. ASSUME NEW v \in Version, BeginUpdate(v) PROVE ReaderInv'
  BY <1>3 DEF BeginUpdate, flash
<1>4. ASSUME UNCHANGED <<app, compact, plan>>, Updating' => Updating PROVE ReaderInv'
  BY <1>4
<1>5. AbortUpdate => ~Updating'
  BY DEF AbortUpdate, Updating, UpdatePc, AppendPc, RecoverPc
<1>6. ConfirmFails => ~Updating'
  BY DEF ConfirmFails, Updating, UpdatePc, AppendPc, RecoverPc
<1>7. ASSUME NEW result, RecoverReturns(result),
             pc \in RecoverPc \/ (pc \in AppendPc /\ record.state = "Restored"), Updating'
      PROVE  Updating
  BY <1>7, RecordTyped
  DEF RecoverReturns, Updating, UpdatePc, AppendPc, RecoverPc, Caller, IInv, TypeOK
<1>8. CASE Recover \/ EraseAssets \/ RestoreAssets \/ SelectSource
  <2>1. UNCHANGED <<app, compact, plan>> /\ pc \in RecoverPc
    BY <1>8
    DEF Recover, EraseAssets, RestoreAssets, SelectSource, RecoverReturns, StartAppend, Goto,
        flash, RecoverPc
  <2>2. CASE \E result : RecoverReturns(result)
    BY <1>4, <1>7, <2>1, <2>2
  <2>3. CASE pc' \in RecoverPc /\ caller' = caller
    BY <1>4, <2>1, <2>3 DEF Updating, UpdatePc, AppendPc, RecoverPc
  <2>4. CASE pc' = "restart"
    BY <1>4, <2>1, <2>4 DEF Updating, UpdatePc, AppendPc, RecoverPc
  <2>5. CASE pc' = "append" /\ record' = record /\ caller' = caller /\ SelectSource
    <3>1. record.state = "Restored"
      BY <2>5, LatestTyped, RecordTyped
      DEF SelectSource, IInv, StepInv, RestoreInv, RestorePc, Record
    <3> QED BY <1>4, <2>1, <2>5, <3>1 DEF Updating, UpdatePc, AppendPc, RecoverPc
  <2> QED
    BY <1>8, <2>2, <2>3, <2>4, <2>5
    DEF Recover, EraseAssets, RestoreAssets, SelectSource, StartAppend, Goto, RecoverPc
<1>9. CASE AppendRecord
  <2>1. /\ pc = "append" /\ pc' = "commit" /\ UNCHANGED <<caller, record, app, compact, plan>>
    BY <1>9, AppendPlace DEF AppendRecord
  <2> QED BY <1>4, <2>1 DEF Updating, UpdatePc, AppendPc, RecoverPc
<1>10. CASE AppendCommit
  <2>1. UNCHANGED <<app, compact, plan>> /\ pc = "commit"
    BY <1>10, RecordTyped DEF AppendCommit, RecoverReturns, State
  <2>2. CASE record.state = "Restored"
    BY <1>4, <1>7, <1>10, <2>1, <2>2 DEF AppendCommit, AppendPc
  <2>3. CASE record.state # "Restored"
    <3>1. \/ pc' \in {"eraseOldAssets", "flush"} /\ record.state \in {"Ready", "Verified"}
          \/ pc' = "migrate"
      BY <1>10, <2>3, RecordTyped DEF AppendCommit, State
    <3> QED BY <1>4, <2>1, <3>1 DEF Updating, UpdatePc, AppendPc, RecoverPc
  <2> QED BY <2>2, <2>3
<1>11. CASE Boot \/ Restart \/ PowerCut
  BY <1>4, <1>11
  DEF Boot, Restart, PowerCut, PowerOff, PartialEffect, flash, Updating, UpdatePc, AppendPc, RecoverPc
<1>12. CASE Setup
  <2>1. UNCHANGED <<app, compact, plan>>
    BY <1>12 DEF Setup, Goto, ConfirmFails
  <2>2. CASE pc' = "migrate"
    BY <1>4, <2>1, <2>2 DEF Updating, UpdatePc, AppendPc, RecoverPc
  <2>3. CASE pc' = "append" /\ Confirmable /\ record' = [Latest(running) EXCEPT !.state = "Complete"]
             /\ pc = "setup" /\ caller' = caller
    <3>1. Latest(running) \in Record
      BY <2>3, LatestTyped, RecordTyped DEF Confirmable, Pending, Terminal
    <3>2. record'.state = "Complete"
      BY <2>3, <3>1 DEF Record
    <3> QED BY <1>4, <2>1, <2>3, <3>2 DEF Updating, UpdatePc, AppendPc, RecoverPc
  <2> QED BY <1>12, <2>2, <2>3 DEF Setup, Goto, ConfirmFails
<1>13. CASE BeginPayload
  <2>1. CASE AbortUpdate /\ UNCHANGED <<app, compact>>
    BY <1>4, <1>5, <2>1 DEF AbortUpdate
  <2>2. CASE app' = [app EXCEPT ![Other(running)] = None] /\ pc = "begun" /\ UNCHANGED <<compact, plan>>
    BY <2>2 DEF IInv, TypeOK, Updating, UpdatePc
  <2> QED BY <1>13, <2>1, <2>2 DEF BeginPayload
<1>14. CASE ActivateImage
  BY <1>14 DEF ActivateImage, Goto, IInv, TypeOK, Updating, UpdatePc
<1>15. CASE FinishFirmware \/ EraseJournal \/ EraseBackup \/ CopyBackup \/ EraseOldAssets
            \/ WriteAssets \/ FlushHistory \/ SelectTarget
  <2>1. UNCHANGED <<app, compact, plan>> /\ pc \in UpdatePc
    BY <1>15
    DEF FinishFirmware, EraseJournal, EraseBackup, CopyBackup, EraseOldAssets, WriteAssets,
        FlushHistory, SelectTarget, Goto, StartAppend, flash, UpdatePc
  <2> QED BY <1>4, <2>1 DEF Updating
<1>16. CASE Verify
  BY <1>4, <1>5, <1>16 DEF Verify, AbortUpdate, StartAppend, flash, Updating, UpdatePc
<1>17. CASE Abandon
  BY <1>4, <1>5, <1>17 DEF Abandon, AbortUpdate, flash
<1>18. CASE AbortAgain
  BY <1>4, <1>18 DEF AbortAgain, flash, Updating, UpdatePc, AppendPc, RecoverPc
<1>19. CASE MarkValidFails
  BY <1>4, <1>6, <1>19 DEF MarkValidFails, ConfirmFails, flash
<1>20. CASE Damage
  BY <1>4, <1>20 DEF Damage, ram, Updating
<1>21. CASE IoFailure
  <2>1. UNCHANGED <<app, compact, plan>>
    BY <1>21, AbortTyped DEF IoFailure, PartialEffect, IInv
  <2>2. CASE AbortUpdate \/ ConfirmFails
    BY <1>4, <1>5, <1>6, <2>1, <2>2
  <2>3. CASE ~(AbortUpdate \/ ConfirmFails)
    <3>1. RecoverReturns("recovery_failed")
          /\ (pc \in RecoverPc \/ (pc \in AppendPc /\ record.state = "Restored"))
      BY <1>21, <2>3 DEF IoFailure, OperationFails
    <3> QED BY <1>4, <1>7, <2>1, <3>1
  <2> QED BY <2>2, <2>3
<1> QED
  BY <1>1, <1>2, <1>3, <1>8, <1>9, <1>10, <1>11, <1>12, <1>13, <1>14, <1>15, <1>16,
     <1>17, <1>18, <1>19, <1>20, <1>21
  DEF Next, Firmware

\* After the history migration no image that cannot read it is left in a slot,
\* nor on its way to one.
THEOREM MigrationIsSafe == Spec => []MigrationSafe
<1>1. Init => ReaderInv
  BY DEF Init, ReaderInv, MigrationSafe
<1>2. IInv /\ ReaderInv /\ [Next]_vars => ReaderInv'
  BY ReaderStep
<1>3. ReaderInv => MigrationSafe
  BY DEF ReaderInv
<1> QED BY Invariance, <1>1, <1>2, <1>3, PTL DEF Spec
=============================================================================
