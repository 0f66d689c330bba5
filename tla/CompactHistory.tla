--------------------------- MODULE CompactHistory ---------------------------
(***************************************************************************)
(* The compact history: the block files of src/app/storage, their two      *)
(* journals, and the operations that write, shrink, clear, load and        *)
(* recover them (HistoryCompactWriter.cpp, HistoryStore.cpp and the parts  *)
(* of HistoryRetention.cpp's update() that decide when they run).          *)
(*                                                                         *)
(* A tier is a file of blocks of Slots records.  A block is replaced in    *)
(* place only after the new block is durable in the write journal, which   *)
(* all tiers share.  A file converted from the legacy format may be longer *)
(* than its ring; shrinking moves the blocks that stay to the front, one   *)
(* journalled block at a time under a second journal that holds a cursor.  *)
(* Every durable step is an action: between any two the power may fail,    *)
(* and each of them may report an error.                                   *)
(*                                                                         *)
(* Time counts the slots of a tier; a record is known by its timestamp.    *)
(* The clock of a tier that is promoted from a finer one runs late by what *)
(* the finer ones keep: its cutoffs are all taken from the same epoch.     *)
(* Block numbers start at 1.                                               *)
(***************************************************************************)
EXTENDS Integers, Sequences, FiniteSets

CONSTANTS
  Tier,           \* the tiers of this instance
  Slots,          \* records of a block (64 in the code)
  Capacity,       \* Capacity[t]: records a compact tier is meant to hold
  LegacyCapacity, \* LegacyCapacity[t]: the same of its legacy ring
  KeepBlocks,     \* KeepBlocks[t]: shrinking leaves this many blocks
  Archive,        \* the converted histories an instance starts from
  Uncovered,      \* hours whose day is missing in the day tier
  MaxTime,        \* bound on the clock
  Request,        \* what users may ask for: "flush", "restart", "clear"
  FaultKind,      \* the kinds of fault this instance allows
  MaxFaults,      \* bound on the number of faults
  None, Torn      \* no journal; a block that fails its checksum

Time == 0..MaxTime   \* 0: never

Block == [start : Time, recs : SUBSET Time]

EndOf(b) == b.start + Slots

\* A file as stageCompactCopy writes it, from a ring of so many records; of an
\* empty ring migrateCompact makes one block without records.
Staged(f, records) ==
  /\ Len(f) > 0
  /\ Cardinality(UNION {f[i].recs : i \in DOMAIN f}) <= records
  /\ \A i \in DOMAIN f : f[i].recs \subseteq f[i].start .. EndOf(f[i]) - 1
  /\ \A i \in DOMAIN f : f[i].recs # {} \/ Len(f) = 1
  /\ \A i \in 1 .. Len(f) - 1 : EndOf(f[i]) <= f[i + 1].start

ASSUME SizeAssumption ==
  /\ Tier \subseteq {"minute", "hour", "five"} /\ Tier # {}
  /\ Slots \in Nat \ {0} /\ MaxTime \in Nat /\ MaxFaults \in Nat
  /\ Capacity \in [Tier -> Nat \ {0}]
  /\ LegacyCapacity \in [Tier -> Nat \ {0}]
  /\ KeepBlocks \in [Tier -> Nat \ {0}]

ASSUME ArchiveAssumption ==
  /\ Archive \subseteq [Tier -> Seq(Block)]
  /\ \A files \in Archive : \A t \in Tier : Staged(files[t], LegacyCapacity[t])

ASSUME KindAssumption ==
  /\ Request \subseteq {"flush", "restart", "clear"}
  /\ FaultKind \subseteq {"cut", "io", "read"}
  /\ None \notin [tier : Tier, index : Nat, block : Block]
  /\ None \notin [tier : Tier, drop : Nat, total : Nat, cursor : Nat]
  /\ Torn \notin Block

VARIABLES
  file,     \* file[t]: the blocks of the tier's compact file
  ring,     \* ring[t]: 0, or the capacity in the header of its legacy file
  pending,  \* /history-write.pending
  shrink,   \* /history-shrink.pending
  head,     \* head[t]: TierState.header, capacity and lastWrittenBucket
  buffer,   \* the open bucket of the minute tier, 0 when there is none
  clock,    \* the time
  pc,       \* the durable step that is next
  task,     \* what the steps belong to: begin(), update() or a flush
  tier,     \* the tier update() is working on
  after,    \* where recoverCompactWrite returns to
  next,     \* the header writeCompact will install
  faults    \* number of faults so far

flash == <<file, ring, pending, shrink>>
vars == <<file, ring, pending, shrink, head, buffer, clock, pc, task, tier,
          after, next, faults>>

Header == [first : Nat, count : Nat, blocks : Nat, capacity : Nat, last : Time]

BlankHeader(t) ==
  [first |-> 1, count |-> 0, blocks |-> 0, capacity |-> LegacyCapacity[t], last |-> 0]

Pc == {"off", "idle", "dead", "unmounted", "replay", "recoverShrink", "copy",
       "place", "unlink", "advance", "truncate", "forget", "load", "prune",
       "record", "acknowledge"}

FirstOf(S) ==
  IF "five" \in S THEN "five" ELSE IF "minute" \in S THEN "minute" ELSE "hour"
-----------------------------------------------------------------------------
(***************************************************************************)
(* Files.                                                                  *)
(***************************************************************************)
Sound(f) == \A i \in DOMAIN f : f[i] # Torn

PutBlock(f, i, b) == IF i > Len(f) THEN Append(f, b) ELSE [f EXCEPT ![i] = b]

Contents(f) == UNION {f[i].recs : i \in {j \in DOMAIN f : f[j] # Torn}}

\* Blocks of a tier that holds c records, and one it is working on.
Limit(c) == (c + Slots - 1) \div Slots + 1

\* Where the block starts stop increasing.
Wraps(f) == {i \in 2 .. Len(f) : f[i].start <= f[i - 1].start}

FirstBlock(f) == IF Wraps(f) = {} THEN 1 ELSE CHOOSE i \in Wraps(f) : TRUE

\* The block at logical position i of a file whose first block is at first.
Logical(f, first, i) == f[((first - 1 + i - 1) % Len(f)) + 1]

InOrder(f, first) ==
  \A i \in 1 .. Len(f) - 1 : EndOf(Logical(f, first, i)) <= Logical(f, first, i + 1).start

\* forEachCompact over the whole file succeeds (orderKnown = false).
Loadable(f) ==
  /\ f # <<>> /\ Sound(f)
  /\ Wraps(f) # {} => Cardinality(Wraps(f)) = 1 /\ f[Len(f)].start < f[1].start
  /\ InOrder(f, FirstBlock(f))

LastRecord(f) ==
  IF Contents(f) = {} THEN 0
  ELSE CHOOSE x \in Contents(f) : \A y \in Contents(f) : y <= x

\* An oversized conversion keeps its size.
LoadedCapacity(t, f) ==
  IF Len(f) > Limit(Capacity[t]) /\ Cardinality(Contents(f)) > Capacity[t]
    THEN Cardinality(Contents(f)) ELSE Capacity[t]

Loaded(t, f) ==
  [first |-> FirstBlock(f), count |-> Cardinality(Contents(f)), blocks |-> Len(f),
   capacity |-> LoadedCapacity(t, f), last |-> LastRecord(f)]
-----------------------------------------------------------------------------
(***************************************************************************)
(* How operations end.                                                     *)
(***************************************************************************)
\* update() goes on with the hour tier when a new quarter hour has begun;
\* otherwise it is over.
PartEnds ==
  /\ \/ pc' = "idle" /\ UNCHANGED tier
     \/ /\ task = "update" /\ tier # "hour" /\ "hour" \in Tier
        /\ pc' = "prune" /\ tier' = "hour"
  /\ UNCHANGED <<task, after, next>>

\* The minute tier follows only when the five-minute one was promoted.
PartSucceeds ==
  IF task = "update" /\ tier = "five" /\ "minute" \in Tier
    THEN pc' = "prune" /\ tier' = "minute" /\ UNCHANGED <<task, after, next>>
    ELSE PartEnds

PowerOff ==
  /\ head' = [t \in Tier |-> BlankHeader(t)] /\ buffer' = 0
  /\ pc' = "off" /\ task' = "begin" /\ tier' = FirstOf(Tier)
  /\ after' = "recoverShrink" /\ next' = BlankHeader(FirstOf(Tier))

Goto(where) == pc' = where /\ UNCHANGED <<task, tier, after, next>>

\* recoverCompactWrite(), returning to where.
WriteThen(where) ==
  /\ pc' = "place" /\ after' = where
  /\ UNCHANGED <<task, tier, next>>

\* A step reports failure: begin() leaves the history unmounted, update() and
\* flushPending() give up and keep the record they wanted to write.
Fails ==
  IF task = "begin" THEN Goto("unmounted") ELSE PartEnds

\* What is in flash can never be recovered: every boot ends here again.
Rejects ==
  IF task = "begin" THEN Goto("dead") ELSE PartEnds
-----------------------------------------------------------------------------
(***************************************************************************)
(* begin() and recoverCompactWrite().                                      *)
(***************************************************************************)
Boot ==
  /\ pc = "off"
  /\ Goto("replay")
  /\ UNCHANGED <<flash, head, buffer, clock, faults>>

Replayable == pending # None

Replay ==
  /\ pc = "replay"
  /\ IF ~Replayable THEN Goto("recoverShrink")
     ELSE IF pending.index > Len(file[pending.tier]) + 1 THEN Rejects
     ELSE WriteThen("recoverShrink")
  /\ UNCHANGED <<flash, head, buffer, clock, faults>>

\* A block written at the start of a legacy file turns it into a compact one.
Place ==
  LET t == pending.tier IN
  /\ pc = "place"
  /\ file' = [file EXCEPT ![t] = PutBlock(@, pending.index, pending.block)]
  /\ ring' = [ring EXCEPT ![t] = 0]
  /\ Goto("unlink")
  /\ UNCHANGED <<pending, shrink, head, buffer, clock, faults>>

Unlink ==
  /\ pc = "unlink"
  /\ pending' = None
  /\ Goto(after)
  /\ UNCHANGED <<file, ring, shrink, head, buffer, clock, faults>>
-----------------------------------------------------------------------------
(***************************************************************************)
(* recoverCompactShrink(): copy, advance, truncate, forget.                *)
(***************************************************************************)
\* Mutant: the block being written is dropped with the old ones.
KeptButOne == shrink.total - shrink.drop - 1

Kept == shrink.total - shrink.drop

RecoverShrink ==
  /\ pc = "recoverShrink"
  /\ IF shrink = None THEN Goto("load")
     ELSE IF shrink.cursor = Kept THEN Goto("truncate")
     ELSE IF pending # None THEN WriteThen("copy")
     ELSE Goto("copy")
  /\ UNCHANGED <<flash, head, buffer, clock, faults>>

\* Mutant: the source of the copy does not follow the cursor.
FixedSource == shrink.drop + 1

Source == shrink.drop + shrink.cursor + 1

\* The destination is before its source: replaying the copy is harmless.
Copy ==
  LET f == file[shrink.tier] IN
  /\ pc = "copy"
  /\ IF Len(f) # shrink.total \/ f[Source] = Torn
       THEN Rejects /\ UNCHANGED pending
       ELSE /\ pending' = [tier |-> shrink.tier, index |-> shrink.cursor + 1, block |-> f[Source]]
            /\ WriteThen("advance")
  /\ UNCHANGED <<file, ring, shrink, head, buffer, clock, faults>>

Advance ==
  /\ pc = "advance"
  /\ shrink' = [shrink EXCEPT !.cursor = @ + 1]
  /\ Goto("recoverShrink")
  /\ UNCHANGED <<file, ring, pending, head, buffer, clock, faults>>

\* A legacy ring that has taken the place of the file only grows.
Truncate ==
  /\ pc = "truncate"
  /\ file' = [file EXCEPT ![shrink.tier] =
                IF ring[shrink.tier] = 0 THEN SubSeq(@, 1, Kept) ELSE @]
  /\ Goto("forget")
  /\ UNCHANGED <<ring, pending, shrink, head, buffer, clock, faults>>

Forget ==
  /\ pc = "forget"
  /\ shrink' = None
  /\ Goto("load")
  /\ UNCHANGED <<file, ring, pending, head, buffer, clock, faults>>

\* loadHeader(): of every tier in begin(), of the shrunk one in update().
Readable(t) ==
  IF ring[t] = 0 THEN Loadable(file[t]) ELSE ring[t] = LegacyCapacity[t]

LoadedHeader(t) == IF ring[t] = 0 THEN Loaded(t, file[t]) ELSE BlankHeader(t)

\* loadHeader() resets the header before it reads the file.
HeaderLost ==
  \E n \in {0, Len(file[tier])} :
    head' = [head EXCEPT ![tier].first = 1, ![tier].count = 0, ![tier].blocks = n]

Load ==
  /\ pc = "load"
  /\ IF task = "begin"
       THEN IF \A t \in Tier : Readable(t)
              THEN head' = [t \in Tier |-> LoadedHeader(t)] /\ Goto("idle")
              ELSE Rejects /\ UNCHANGED head
       ELSE IF Readable(tier)
              THEN head' = [head EXCEPT ![tier] = LoadedHeader(tier)] /\ Goto("record")
              ELSE HeaderLost /\ PartEnds
  /\ UNCHANGED <<flash, buffer, clock, faults>>
-----------------------------------------------------------------------------
(***************************************************************************)
(* writeCompact() and commitCompactBlock().                                *)
(***************************************************************************)
\* The block being written: the one before the first.
Working(t) == IF head[t].first = 1 THEN Len(file[t]) ELSE head[t].first - 1

NeedsBlock(t, x) ==
  head[t].count = 0 \/ x >= EndOf(file[t][Working(t)])

NewIndex(t) ==
  IF head[t].count = 0 THEN Working(t)
  ELSE IF Len(file[t]) < Limit(head[t].capacity) THEN Len(file[t]) + 1
  ELSE head[t].first

\* Mutant: blocks start at multiples of their length only.
AlignedStart(t, x) == x - (x % Slots)

\* Kept disjoint from a converted block that starts anywhere.
NewStart(t, x) ==
  LET aligned == x - (x % Slots) IN
  IF head[t].count # 0 /\ aligned < EndOf(file[t][Working(t)])
    THEN EndOf(file[t][Working(t)]) ELSE aligned

Target(t, x) == IF NeedsBlock(t, x) THEN NewIndex(t) ELSE Working(t)

Replaced(t, x) ==
  IF NeedsBlock(t, x) /\ (head[t].count = 0 \/ Target(t, x) > Len(file[t]))
    THEN {} ELSE file[t][Target(t, x)].recs

NewBlock(t, x) ==
  IF NeedsBlock(t, x) THEN [start |-> NewStart(t, x), recs |-> {x}]
  ELSE [file[t][Working(t)] EXCEPT !.recs = @ \union {x}]

\* Mutant: writes do not wait for the journal of an earlier one.
JournalIgnored == TRUE

JournalFree == pending = None

Writable(t, x) ==
  /\ ring[t] = 0
  /\ x >= head[t].last
  /\ file[t][Working(t)] # Torn
  /\ Target(t, x) <= Len(file[t]) => file[t][Target(t, x)] # Torn
  /\ JournalFree

\* Mutant: the ring's first block is not moved after reusing it.
FirstStuck(t, x) == head[t].first

NextFirst(t, x) ==
  IF NeedsBlock(t, x) /\ head[t].count # 0 /\ Target(t, x) <= Len(file[t])
    THEN (Target(t, x) % Len(file[t])) + 1 ELSE head[t].first

\* Mutant: the replaced samples are subtracted, the new ones not added.
CountForgets(t, x) == head[t].count - Cardinality(Replaced(t, x))

NextCount(t, x) ==
  head[t].count - Cardinality(Replaced(t, x)) + Cardinality(NewBlock(t, x).recs)

\* Mutant: the cursor moves on to the end of the block.
NextLastAhead(t, x) == EndOf(NewBlock(t, x))

NextLast(t, x) == x

NextHeader(t, x) ==
  [first |-> NextFirst(t, x), count |-> NextCount(t, x),
   blocks |-> IF Target(t, x) > Len(file[t]) THEN Target(t, x) ELSE Len(file[t]),
   capacity |-> head[t].capacity, last |-> NextLast(t, x)]

Write(t, x) ==
  /\ pending' = [tier |-> t, index |-> Target(t, x), block |-> NewBlock(t, x)]
  /\ next' = NextHeader(t, x)
  /\ pc' = "place" /\ after' = "acknowledge"

\* The record is in place: a promotion goes on with the next bucket, a flush is
\* followed by the restart it was for, or by the update that asked for it and
\* may still be refused.
Acknowledge ==
  /\ pc = "acknowledge"
  /\ \/ /\ task = "update" /\ tier = "minute"
        /\ head' = [head EXCEPT ![tier] = next] /\ buffer' = clock
        /\ PartEnds
     \/ /\ task = "update" /\ tier # "minute"
        /\ head' = [head EXCEPT ![tier] = next]
        /\ Goto("record") /\ UNCHANGED buffer
     \/ /\ task = "flush"
        /\ head' = [head EXCEPT ![tier] = next] /\ buffer' = 0
        /\ PartEnds
     \/ task = "flush" /\ "restart" \in Request /\ PowerOff
  /\ UNCHANGED <<flash, clock, faults>>
-----------------------------------------------------------------------------
(***************************************************************************)
(* update(): pruneCompactMinute and pruneCompactHour, then the record.     *)
(***************************************************************************)
\* A five-minute tier that is not converted any more: update() falls back to
\* the tiers and capacities of the legacy releases.
Downgraded == "five" \in Tier /\ ring["five"] # 0

\* Nothing is promoted from a minute tier that is not converted either.
Updated ==
  IF Downgraded \/ ("minute" \in Tier /\ ring["minute"] # 0) THEN Tier \ {"five"} ELSE Tier

Raised(t) ==
  IF t # "five" /\ head[t].capacity < LegacyCapacity[t]
    THEN [head[t] EXCEPT !.capacity = LegacyCapacity[t]] ELSE head[t]

Update ==
  /\ pc = "idle"
  /\ Updated # {}
  /\ pc' = "prune" /\ task' = "update" /\ tier' = FirstOf(Updated)
  /\ head' = IF Downgraded THEN [t \in Tier |-> Raised(t)] ELSE head
  /\ UNCHANGED <<flash, buffer, clock, after, next, faults>>

Oversized(t) ==
  /\ t \in {"minute", "hour"}
  /\ ring[t] = 0 /\ head[t].first = 1 /\ head[t].blocks > KeepBlocks[t]

\* The block has left the tier's window, and the day tier covers its hours.
Expired(t, b) ==
  /\ EndOf(b) + Capacity[t] <= clock
  /\ t = "hour" => b.recs \intersect Uncovered = {}

Surplus(t) == Len(file[t]) - KeepBlocks[t]

Dropped(t) ==
  LET droppable == {d \in 0 .. Surplus(t) : \A i \in 1 .. d : Expired(t, file[t][i])} IN
  CHOOSE d \in droppable : \A e \in droppable : e <= d

\* A file cut short by a failed append, or a damaged block among the surplus.
Unprunable(t) ==
  \/ Len(file[t]) > head[t].blocks /\ file[t][Len(file[t])] = Torn
  \/ \E i \in 1 .. Surplus(t) : file[t][i] = Torn

Unfinished == shrink # None

Prune ==
  /\ pc = "prune"
  /\ IF Downgraded \/ ~Oversized(tier) THEN Goto("record") /\ UNCHANGED shrink
     ELSE IF Unfinished
       THEN /\ IF tier = "hour" THEN Goto("recoverShrink") ELSE PartEnds
            /\ UNCHANGED shrink
     ELSE IF Unprunable(tier) THEN PartEnds /\ UNCHANGED shrink
     ELSE IF Dropped(tier) = 0 THEN Goto("record") /\ UNCHANGED shrink
     ELSE /\ shrink' = [tier |-> tier, drop |-> Dropped(tier),
                        total |-> Len(file[tier]), cursor |-> 0]
          /\ Goto("recoverShrink")
  /\ UNCHANGED <<file, ring, pending, head, buffer, clock, faults>>

\* updateTier() of the minute tier: a bucket is opened or goes on.
OpenBucket ==
  /\ pc = "record" /\ tier = "minute"
  /\ buffer \in {0, clock}
  /\ buffer' = IF ring[tier] = 0 /\ clock > head[tier].last THEN clock ELSE buffer
  /\ PartEnds
  /\ UNCHANGED <<flash, head, clock, faults>>

\* The rename to /history-write.pending commits the record; a refused record
\* stays where it is.
WriteOrEnd(x) ==
  IF Writable(tier, x)
    THEN Write(tier, x) /\ UNCHANGED <<task, tier>>
    ELSE PartEnds /\ UNCHANGED pending

CloseBucket ==
  /\ pc = "record" /\ tier = "minute"
  /\ buffer \notin {0, clock}
  /\ WriteOrEnd(buffer)
  /\ UNCHANGED <<file, ring, shrink, head, buffer, clock, faults>>

\* What the tier's file holds once both journals have been replayed.
Replayed(t) ==
  LET f == IF pending # None /\ pending.tier = t
             THEN PutBlock(file[t], pending.index, pending.block) ELSE file[t] IN
  IF shrink # None /\ shrink.tier = t /\ ring[t] = 0
    THEN [i \in 1 .. Kept |-> IF i <= shrink.cursor THEN f[i] ELSE f[shrink.drop + i]]
    ELSE f

\* Records that reached the flash though their write failed: the finer tier
\* still has their samples and promotion begins with them again.
Owed == {x \in Contents(Replayed(tier)) : x > head[tier].last}

\* promoteRetained(): the next bucket of the finer tier, or none is left.  A
\* downgraded hour tier records the present instead, which is one of those too.
Promote ==
  /\ pc = "record" /\ tier # "minute"
  /\ \/ Owed = {} /\ PartSucceeds /\ UNCHANGED pending
     \/ \E x \in head[tier].last + 1 .. clock : Owed \subseteq {x} /\ WriteOrEnd(x)
  /\ UNCHANGED <<file, ring, shrink, head, buffer, clock, faults>>

Tick ==
  /\ pc = "idle"
  /\ clock < MaxTime
  /\ clock' = clock + 1
  /\ UNCHANGED <<flash, head, buffer, pc, task, tier, after, next, faults>>
-----------------------------------------------------------------------------
(***************************************************************************)
(* Requests of users.                                                      *)
(***************************************************************************)
\* handleRestart, handleSafeShutdown and the updates: refused unless
\* flushPending(Minute) succeeds.
RequestFlush ==
  /\ "flush" \in Request
  /\ pc = "idle" /\ buffer # 0
  /\ Writable("minute", buffer)
  /\ Write("minute", buffer)
  /\ task' = "flush" /\ tier' = "minute"
  /\ UNCHANGED <<file, ring, shrink, head, buffer, clock, faults>>

\* Nothing is left to flush.
Restart ==
  /\ "restart" \in Request
  /\ pc = "idle" /\ buffer = 0
  /\ PowerOff
  /\ UNCHANGED <<flash, clock, faults>>

\* clear(): the file is removed and created again as an empty legacy ring.
\* Deleting a tier while an error has left a journal behind is not modelled.
RequestClear(t) ==
  /\ "clear" \in Request
  /\ pc = "idle" /\ pending = None /\ shrink = None
  /\ file' = [file EXCEPT ![t] = <<>>]
  /\ ring' = [ring EXCEPT ![t] = head[t].capacity]
  /\ head' = [head EXCEPT ![t] = [BlankHeader(t) EXCEPT !.capacity = head[t].capacity]]
  /\ buffer' = IF t = "minute" THEN 0 ELSE buffer
  /\ UNCHANGED <<pending, shrink, clock, pc, task, tier, after, next, faults>>
-----------------------------------------------------------------------------
(***************************************************************************)
(* Faults.                                                                 *)
(***************************************************************************)
Fault(kind) ==
  /\ kind \in FaultKind
  /\ faults < MaxFaults
  /\ faults' = faults + 1

\* The write in place is the only durable step that can be half done: every
\* other one is a rename, a removal or a truncation.
Interrupted ==
  \/ UNCHANGED <<file, ring>>
  \/ /\ pc = "place"
     /\ \E b \in {Torn, pending.block} :
          file' = [file EXCEPT ![pending.tier] = PutBlock(@, pending.index, b)]
     /\ ring' = [ring EXCEPT ![pending.tier] = 0]

PowerCut ==
  /\ Fault("cut")
  /\ pc \notin {"off", "dead"}
  /\ Interrupted
  /\ PowerOff
  /\ UNCHANGED <<pending, shrink, clock>>

\* A step reports an error: written too little, or not renamed or removed.
IoFailure ==
  /\ Fault("io")
  /\ pc \in {"place", "unlink", "copy", "advance", "truncate", "forget"}
  /\ Interrupted
  /\ Fails
  /\ UNCHANGED <<pending, shrink, head, buffer, clock>>

\* A read fails in loadHeader(), at a boot.
ReadFailure ==
  /\ Fault("read")
  /\ pc = "load" /\ task = "begin"
  /\ Fails
  /\ UNCHANGED <<flash, head, buffer, clock>>

\* An unmounted history stays so until the device is unplugged.
Unplug ==
  /\ pc = "unmounted"
  /\ PowerOff
  /\ UNCHANGED <<flash, clock, faults>>
-----------------------------------------------------------------------------
\* A converted history, at the first boot that may write it.
Init ==
  /\ file \in Archive
  /\ ring = [t \in Tier |-> 0]
  /\ pending = None /\ shrink = None
  /\ clock \in Time /\ \A t \in Tier : LastRecord(file[t]) <= clock
  /\ faults = 0
  /\ head = [t \in Tier |-> BlankHeader(t)] /\ buffer = 0
  /\ pc = "off" /\ task = "begin" /\ tier = FirstOf(Tier)
  /\ after = "recoverShrink" /\ next = BlankHeader(FirstOf(Tier))

Firmware ==
  \/ Boot \/ Replay \/ Place \/ Unlink
  \/ RecoverShrink \/ Copy \/ Advance \/ Truncate \/ Forget \/ Load
  \/ Prune \/ OpenBucket \/ CloseBucket \/ Promote \/ Acknowledge

Next ==
  \/ Firmware \/ Update \/ Tick
  \/ RequestFlush \/ Restart \/ (\E t \in Tier : RequestClear(t))
  \/ PowerCut \/ IoFailure \/ ReadFailure \/ Unplug

Spec == Init /\ [][Next]_vars

\* The main loop keeps running update(), and time goes on: it passes during the
\* operations too, the model lets it pass between them.
FairSpec == Spec /\ WF_vars(Firmware) /\ WF_vars(Update) /\ SF_vars(Tick)
-----------------------------------------------------------------------------
(***************************************************************************)
(* Properties.                                                             *)
(***************************************************************************)
TypeOK ==
  /\ file \in [Tier -> Seq(Block \union {Torn})]
  /\ ring \in [Tier -> Nat]
  /\ pending \in [tier : Tier, index : Nat, block : Block] \union {None}
  /\ shrink \in [tier : Tier, drop : Nat, total : Nat, cursor : Nat] \union {None}
  /\ head \in [Tier -> Header]
  /\ buffer \in Time /\ clock \in Time
  /\ pc \in Pc /\ task \in {"begin", "update", "flush"} /\ tier \in Tier
  /\ after \in {"recoverShrink", "copy", "advance", "acknowledge"}
  /\ next \in Header /\ faults \in 0 .. MaxFaults

\* begin() never finds files it cannot recover: whatever is interrupted, the
\* next boot mounts the history again.
BootMounts == pc # "dead"

\* The same of a history nobody has deleted a tier of.
MountsUnlessCleared == pc = "dead" => \E t \in Tier : ring[t] # 0

\* Between operations the header in RAM is the one a reboot would load, so
\* that the ring is read and continued in the order it is written.
HeadAgrees ==
  pc = "idle" /\ pending = None /\ shrink = None =>
    \A t \in Tier : ring[t] = 0 =>
      /\ Loadable(file[t])
      /\ head[t].first = FirstBlock(file[t])
      /\ head[t].count = Cardinality(Contents(file[t]))
      /\ head[t].last = LastRecord(file[t])

Log == INSTANCE RecordLog WITH
  log <- [t \in Tier |-> Contents(Replayed(t))],
  Window <- Capacity,
  Clearable <- IF "clear" \in Request THEN Tier ELSE {}

\* Written records stay until they have left the tier's window, whatever is
\* interrupted, overwritten or moved.
ImplementsRecordLog == Log!Spec

\* A minute that is over is written in the end, or a power cut loses it.
RecordedEventually == (buffer \notin {0, clock}) ~> (buffer \in {0, clock})

\* The same, unless an error has left the write journal behind.
RecordedUnlessBlocked ==
  (buffer \notin {0, clock}) ~> (buffer \in {0, clock} \/ pending # None)
=============================================================================
