----------------------------- MODULE LegacyRing -----------------------------
(***************************************************************************)
(* One tier of the history in the legacy IRH1 format: the ring file, the   *)
(* aggregate of the open bucket, range queries with their cached order,    *)
(* imports, and the one-way conversion to the compact format               *)
(* (HistoryStore.cpp, migrateCompact() in HistoryCompactWriter.cpp).       *)
(*                                                                         *)
(* Time counts buckets of the tier.  Of a record the timestamp and one     *)
(* energy counter are kept; 0 is a counter the meter did not send.  Every  *)
(* write may report an error or be cut short by a power failure, and then  *)
(* leaves the old bytes or bytes that fail their check.                    *)
(* Reads do not fail.                                                      *)
(***************************************************************************)
EXTENDS HeaderRing, FiniteSets, TLC

CONSTANTS
  RingSize,      \* capacity of the ring
  RingTime,      \* bound on timestamps
  LiveTime,      \* those the device reaches while it runs
  Readings,      \* values of the energy counter
  LiveReadings,  \* those of the meter while the device runs
  Imports,       \* the records of a backup that is restored
  LookAhead,     \* records the conversion sorts at a time (32 in the code)
  RingArchive,   \* the ring files an older firmware may have left
  RingFaultLimit \* bound on the number of failed or torn writes

Stamped == [t : 1 .. RingTime, v : Readings]

ASSUME RingAssumption ==
  /\ RingSize \in Nat \ {0} /\ RingTime \in Nat /\ LiveTime \in 0 .. RingTime
  /\ RingFaultLimit \in Nat
  /\ LookAhead \in Nat \ {0} /\ Readings \subseteq Nat
  /\ LiveReadings \subseteq Readings /\ Imports \subseteq Stamped
  /\ NoFile \notin Stamped \union RingFiles(RingSize, Stamped)
  /\ Spoiled \notin Stamped \union Headers(RingSize)

ASSUME ArchiveAssumption ==
  /\ RingArchive \subseteq RingFiles(RingSize, Stamped)
  /\ \A f \in RingArchive : Written(f, RingSize)

VARIABLES
  ringFile,   \* NoFile, a ring, or the blocks it was converted to
  ringStage,  \* NoFile, or the records of the staged compact copy
  ringHead,   \* TierState.header
  ringLast,   \* TierState.lastWrittenBucket
  ringOrder,  \* orderKnown and ordered: "unknown", "ordered" or "unordered"
  ringOpen,   \* the aggregate of the open bucket, or NoFile
  ringWrite,  \* the record whose header comes next, and the open bucket after it
  ringPc,
  ringKept,   \* what was acknowledged and has not been overwritten
  ringTorn,   \* whether the creation of the file was ever interrupted
  ringFaults

ringRam == <<ringHead, ringLast, ringOrder, ringOpen, ringWrite>>
ringVars == <<ringFile, ringStage, ringHead, ringLast, ringOrder, ringOpen,
              ringWrite, ringPc, ringKept, ringTorn, ringFaults>>

Elements(s) == {s[i] : i \in DOMAIN s}

IsRing(f) == f # NoFile /\ "copies" \in DOMAIN f

Blocks(recs) == [recs |-> recs]

Logical == InOrder(ringFile.slots, ringHead, RingSize)

Fault == ringFaults < RingFaultLimit /\ ringFaults' = ringFaults + 1
-----------------------------------------------------------------------------
(***************************************************************************)
(* Reading.                                                                *)
(***************************************************************************)
\* Binary search for the first record that is not before since.
LowerBound(recs, since) ==
  LET search[span \in (0 .. Len(recs)) \X (0 .. Len(recs))] ==
        LET low == span[1]
            high == span[2]
            middle == low + (high - low) \div 2
        IN IF low >= high THEN low
           ELSE IF recs[middle + 1] = Spoiled THEN 0
           ELSE IF recs[middle + 1].t < since THEN search[<<middle + 1, high>>]
           ELSE search[<<low, middle>>]
  IN search[<<0, Len(recs)>>]

InRange(rec, since, until) == rec # Spoiled /\ rec.t >= since /\ rec.t <= until

\* The positions forEach() reports, in their order: the cached order decides where
\* it starts and whether it stops early.
ForEach(recs, order, since, until) ==
  LET low == IF order = "ordered" /\ since # 0 THEN LowerBound(recs, since) ELSE 0
      beyond == {i \in low + 1 .. Len(recs) : recs[i] # Spoiled /\ recs[i].t > until}
      stop == IF order = "ordered" /\ beyond # {}
              THEN (CHOOSE i \in beyond : \A j \in beyond : i <= j) - 1 ELSE Len(recs)
  IN {i \in low + 1 .. stop : InRange(recs[i], since, until)}

Ascending(recs) ==
  /\ \A i \in DOMAIN recs : recs[i] # Spoiled
  /\ \A i \in 1 .. Len(recs) - 1 : recs[i].t <= recs[i + 1].t
-----------------------------------------------------------------------------
(***************************************************************************)
(* The conversion's view of a ring: forEachMigrationRecord().              *)
(***************************************************************************)
Refuse == [ok |-> FALSE, recs |-> <<>>]

\* Sound records that do not fit the window yet stay unread.
Fill(recs, window, read) ==
  LET fill[w \in Seq(Stamped), n \in Nat] ==
        IF Len(w) = LookAhead \/ n = Len(recs) THEN [window |-> w, read |-> n]
        ELSE fill[IF recs[n + 1] = Spoiled THEN w ELSE Append(w, recs[n + 1]), n + 1]
  IN fill[window, read]

Before(a, b) == a.t < b.t

Sorted(window) == SortSeq(window, Before)

\* A candidate that the counters of both neighbours confirm: previous <= v <= next.
\* Without three counters, or with a reset between them, nothing is decided.
Evidence(previous, rec, next) ==
  /\ previous.v # 0 /\ rec.v # 0 /\ next.v # 0
  /\ previous.v <= next.v

\* Which of the records of one timestamp is kept; a set of at most one record.
Chosen(recs, group, previous, rest) ==
  IF \A x \in group : \A y \in group : x = y THEN group
  ELSE IF previous = NoFile \/ rest = <<>> THEN {}
  ELSE LET next == rest[1]
           stamp == (CHOOSE x \in group : TRUE).t
           disputed == \E x \in Elements(rest) \union Elements(Sound(recs)) :
                          \/ x.t > stamp /\ x.t < next.t
                          \/ x.t = next.t /\ x # next
           fit == {x \in group : x.v >= previous.v /\ x.v <= next.v}
       IN IF disputed \/ \E x \in group : ~Evidence(previous, x, next) THEN {}
          ELSE IF \E x \in fit : fit = {x} THEN fit ELSE {}

Migration(recs) ==
  LET step[window \in Seq(Stamped), read \in Nat, out \in Seq(Stamped)] ==
        LET full == Fill(recs, window, read)
            w == Sorted(full.window)
            previous == IF out = <<>> THEN NoFile ELSE out[Len(out)]
            group == {w[i] : i \in {j \in DOMAIN w : w[j].t = w[1].t}}
            rest == SelectSeq(w, LAMBDA x : x.t # w[1].t)
            chosen == Chosen(recs, group, previous, rest)
        IN IF w = <<>> THEN [ok |-> TRUE, recs |-> out]
           ELSE IF \/ previous # NoFile /\ w[1].t <= previous.t
                   \/ rest = <<>> /\ full.read < Len(recs)
                   \/ chosen = {} THEN Refuse
           ELSE step[rest, full.read, Append(out, CHOOSE x \in chosen : TRUE)]
  IN step[<<>>, 0, <<>>]
-----------------------------------------------------------------------------
(***************************************************************************)
(* Writing.  A record goes to its slot, then the header is sealed.         *)
(***************************************************************************)
Put(rec) == [ringFile EXCEPT !.slots = PutSlot(@, ringHead.write, rec)]

\* Mutant: the cached order survives a failed write.
OrderSurvives == UNCHANGED <<ringOrder, ringHead, ringLast, ringOpen>>

\* A write that fails forgets what was known about the order.
FailedWrite ==
  /\ ringOrder' = "unknown"
  /\ UNCHANGED <<ringHead, ringLast, ringOpen>>

\* The slot of writeRecord(): the record is there, or the write has failed.  What
\* becomes of the open bucket when the header is sealed as well is up to the caller.
Store(rec, open) ==
  /\ ringPc = "idle" /\ IsRing(ringFile)
  /\ \/ /\ ringFile' = Put(rec)
        /\ ringWrite' = [rec |-> rec, open |-> open] /\ ringPc' = "seal"
        /\ UNCHANGED <<ringHead, ringLast, ringOrder, ringOpen, ringFaults>>
     \/ /\ Fault
        /\ ringFile' \in {ringFile, Put(Spoiled)}
        /\ FailedWrite
        /\ UNCHANGED <<ringWrite, ringPc>>
  /\ UNCHANGED <<ringStage, ringKept, ringTorn>>

SealHeader(header) == [ringFile EXCEPT !.copies[CopyOf(header)] = header]

\* The header of writeRecord(), and what its caller does then.
Seal ==
  LET header == NextHeader(ringHead, RingSize)
      rec == ringWrite.rec
  IN /\ ringPc = "seal" /\ ringPc' = "idle" /\ ringWrite' = NoFile
     /\ \/ /\ ringFile' = SealHeader(header)
           /\ ringHead' = header /\ ringLast' = rec.t /\ ringOpen' = ringWrite.open
           /\ ringOrder' = IF ringLast # 0 /\ rec.t < ringLast THEN "unordered" ELSE ringOrder
           /\ ringKept' = Newest(Append(ringKept, rec), RingSize)
           /\ UNCHANGED ringFaults
        \/ /\ Fault
           /\ ringFile' \in {ringFile, [ringFile EXCEPT !.copies[CopyOf(header)] = Spoiled]}
           /\ FailedWrite
           /\ UNCHANGED ringKept
     /\ UNCHANGED <<ringStage, ringTorn>>
-----------------------------------------------------------------------------
(***************************************************************************)
(* Recording, imports and reading.                                         *)
(***************************************************************************)
\* updateTier(): a sample of bucket t, which is neither before the open bucket
\* nor before the last record.
UpdateTier(t, v) ==
  LET sample == [t |-> t, v |-> v]
  IN /\ ringPc = "idle" /\ IsRing(ringFile) /\ t >= ringLast
     /\ \/ /\ ringOpen = NoFile /\ t # ringLast
           /\ ringOpen' = sample
           /\ UNCHANGED <<ringFile, ringStage, ringHead, ringLast, ringOrder, ringWrite,
                          ringPc, ringKept, ringTorn, ringFaults>>
        \/ /\ ringOpen # NoFile /\ ringOpen.t = t
           /\ ringOpen' = [ringOpen EXCEPT !.v = IF v = 0 THEN @ ELSE v]
           /\ UNCHANGED <<ringFile, ringStage, ringHead, ringLast, ringOrder, ringWrite,
                          ringPc, ringKept, ringTorn, ringFaults>>
        \/ /\ ringOpen # NoFile /\ ringOpen.t < t
           /\ Store(ringOpen, sample)

FlushPending == ringOpen # NoFile /\ Store(ringOpen, NoFile)

ImportRecord(rec) == rec.t >= ringLast /\ Store(rec, ringOpen)

\* A complete read settles what is known about the order.
FirstScan ==
  /\ ringPc = "idle" /\ IsRing(ringFile)
  /\ ringOrder = "unknown" /\ ringHead.count # 0
  /\ ringOrder' = IF Ascending(Logical) THEN "ordered" ELSE "unordered"
  /\ UNCHANGED <<ringFile, ringStage, ringHead, ringLast, ringOpen, ringWrite, ringPc,
                 ringKept, ringTorn, ringFaults>>

\* The end of loadHeader(): a file that does not exist is created.
CreateRing(then) ==
  /\ ringHead' = EmptyHeader /\ ringLast' = 0 /\ ringKept' = <<>>
  /\ \/ /\ ringFile' = EmptyRing /\ ringOrder' = "ordered" /\ ringPc' = then
        /\ UNCHANGED <<ringTorn, ringFaults>>
     \/ /\ Fault /\ ringTorn' = TRUE
        /\ ringFile' \in {NoFile, TornRing}
        /\ ringOrder' = "unknown" /\ ringPc' = "failed"

\* An administrator clears the tier.
ClearRing ==
  /\ ringPc = "idle"
  /\ ringOpen' = NoFile
  /\ CreateRing("idle")
  /\ UNCHANGED <<ringStage, ringWrite>>
-----------------------------------------------------------------------------
(***************************************************************************)
(* Start, conversion and power cuts.                                       *)
(***************************************************************************)
LastStamp(f, header) ==
  LET recs == InOrder(f.slots, header, RingSize)
  IN IF header.count = 0 \/ recs[header.count] = Spoiled THEN 0 ELSE recs[header.count].t

\* loadHeader() of a ring that exists; one that cannot be read is preserved.
LoadRing ==
  LET header == NewestHeader(ringFile)
  IN IF Readable(ringFile) /\ LongEnough(ringFile, header)
     THEN /\ ringHead' = header /\ ringLast' = LastStamp(ringFile, header)
          /\ ringOrder' = "unknown" /\ ringPc' = "setup"
     ELSE /\ ringPc' = "failed"
          /\ UNCHANGED <<ringHead, ringLast, ringOrder>>

BootRing ==
  /\ ringPc = "off"
  /\ \/ /\ ringFile = NoFile
        /\ CreateRing("setup")
     \/ /\ IsRing(ringFile)
        /\ LoadRing
        /\ UNCHANGED <<ringFile, ringKept, ringTorn, ringFaults>>
     \/ /\ ringFile # NoFile /\ ~IsRing(ringFile)
        /\ ringPc' = "converted"
        /\ UNCHANGED <<ringFile, ringHead, ringLast, ringOrder, ringKept, ringTorn, ringFaults>>
  /\ UNCHANGED <<ringStage, ringOpen, ringWrite>>

\* setup() goes on without converting: the pair of images is not verified, the
\* ring cannot be represented, or there is no room for the copy.
StartLoop ==
  /\ ringPc = "setup" /\ ringPc' = "idle"
  /\ UNCHANGED <<ringFile, ringStage, ringRam, ringKept, ringTorn, ringFaults>>

\* Mutant: a staged copy that exists is taken for a complete one.
StageExists(recs) == ringStage # NoFile

\* verifyCompactCopy(): the staged copy holds exactly what would be staged now.
StageVerified(recs) == ringStage = recs

\* resumeCompactCopy() and stageCompactCopy().
StageCopy ==
  LET selected == Migration(Logical)
  IN /\ ringPc = "setup" /\ selected.ok
     /\ \/ /\ StageVerified(selected.recs)
           /\ ringPc' = "rename" /\ UNCHANGED <<ringStage, ringFaults>>
        \/ /\ ~StageVerified(selected.recs)
           /\ ringStage' = selected.recs /\ ringPc' = "rename" /\ UNCHANGED ringFaults
        \/ /\ Fault
           /\ \E n \in 0 .. Len(selected.recs) : ringStage' = SubSeq(selected.recs, 1, n)
           /\ ringPc' = "idle"
     /\ UNCHANGED <<ringFile, ringRam, ringKept, ringTorn>>

\* The rename in migrateCompact(), and loadHeader() of the converted tier.
ActivateCopy ==
  /\ ringPc = "rename"
  /\ \/ /\ ringFile' = Blocks(ringStage) /\ ringStage' = NoFile /\ ringPc' = "converted"
        /\ UNCHANGED ringFaults
     \/ /\ Fault /\ ringPc' = "idle"
        /\ UNCHANGED <<ringFile, ringStage>>
  /\ UNCHANGED <<ringRam, ringKept, ringTorn>>

\* The power fails, or the device restarts: a header that was being written may be torn.
CutRing ==
  /\ ringPc # "off" /\ ringPc' = "off"
  /\ \/ UNCHANGED <<ringFile, ringFaults>>
     \/ /\ ringPc = "seal" /\ Fault
        /\ ringFile' = [ringFile EXCEPT !.copies[CopyOf(NextHeader(ringHead, RingSize))] = Spoiled]
  /\ ringHead' = EmptyHeader /\ ringLast' = 0 /\ ringOrder' = "unknown"
  /\ ringOpen' = NoFile /\ ringWrite' = NoFile
  /\ UNCHANGED <<ringStage, ringKept, ringTorn>>

RingNext ==
  \/ \E t \in 1 .. LiveTime, v \in LiveReadings : UpdateTier(t, v)
  \/ FlushPending
  \/ \E rec \in Imports : ImportRecord(rec)
  \/ Seal \/ FirstScan \/ ClearRing
  \/ BootRing \/ StartLoop \/ StageCopy \/ ActivateCopy \/ CutRing

RingInit ==
  /\ ringFile \in RingArchive \union {NoFile} /\ ringStage = NoFile
  /\ ringHead = EmptyHeader /\ ringLast = 0 /\ ringOrder = "unknown"
  /\ ringOpen = NoFile /\ ringWrite = NoFile /\ ringPc = "off"
  /\ ringKept = IF ringFile = NoFile THEN <<>>
                ELSE InOrder(ringFile.slots, NewestHeader(ringFile), RingSize)
  /\ ringTorn = FALSE /\ ringFaults = 0

RingSpec == RingInit /\ [][RingNext]_ringVars
-----------------------------------------------------------------------------
(***************************************************************************)
(* Properties.                                                             *)
(***************************************************************************)
RingTypeOK ==
  /\ IsRing(ringFile) => /\ ringFile \in RingFiles(RingSize, Stamped)
                         /\ Len(ringFile.slots) <= RingSize
  /\ ringHead \in Headers(RingSize) /\ ringLast \in 0 .. RingTime
  /\ ringOrder \in {"unknown", "ordered", "unordered"}
  /\ ringOpen \in Stamped \union {NoFile}
  /\ ringPc \in {"off", "setup", "idle", "seal", "rename", "converted", "failed"}
  /\ ringPc \in {"setup", "idle", "seal", "rename"} => IsRing(ringFile)

\* A query returns every sound record of its range in the order of the ring,
\* whatever the cached order says: the binary search and the early exit of
\* forEach() never run over a ring that is not sorted, after failed writes
\* and on rings an older firmware left unsorted alike.
QueryExact ==
  ringPc = "idle" =>
    \A since, until \in 0 .. RingTime :
      ForEach(Logical, ringOrder, since, until) =
        {i \in DOMAIN Logical : InRange(Logical[i], since, until)}

\* Wherever a write fails or the power is cut, the tier can be read again, and
\* of what was acknowledged at most the oldest record of a full ring is
\* missing, whose slot the unfinished write had already taken.
RingKeepsRecords ==
  /\ ringPc = "failed" => ringTorn
  /\ ringPc \in {"setup", "idle"} =>
       Elements(Sound(Newest(ringKept, IF Len(ringKept) < RingSize THEN RingSize ELSE RingSize - 1)))
         \subseteq Elements(Logical)

\* The conversion replaces a ring only by a copy that holds one record of
\* every bucket the ring has, taken from the ring, in ascending order, even
\* when the copy was staged before a restart and the ring was written since.
MigrationKeepsRecords ==
  [][(ringPc = "rename" /\ ringPc' = "converted") =>
       LET old == Elements(Sound(Logical))
           new == ringFile'.recs
       IN /\ Elements(new) \subseteq old
          /\ {x.t : x \in Elements(new)} = {x.t : x \in old}
          /\ \A i \in 1 .. Len(new) - 1 : new[i].t < new[i + 1].t]_ringVars
=============================================================================
