------------------------ MODULE CompactHistoryProofs ------------------------
(***************************************************************************)
(* Minute and five-minute tier of the compact history and the two journals *)
(* they share, for blocks, rings, converted files, clocks and numbers of   *)
(* faults of any size: unless a tier is deleted, every boot mounts them,   *)
(* the header in RAM is the one a reboot would load, and they implement    *)
(* the record log: a written record stays until it has left the window,    *)
(* wherever the power fails.                                               *)
(***************************************************************************)
EXTENDS CompactHistory, FiniteSetTheorems, WellFoundedInduction, TLAPS

\* Shrinking leaves the minute ring its limit: 24 blocks are that of 1440
\* records.  (The hour tier keeps one block more.)  The releases before the
\* conversion wrote nothing to a five-minute tier, which is never shrunk.
MinuteAndFive ==
  /\ Tier \subseteq {"minute", "five"}
  /\ "minute" \in Tier => KeepBlocks["minute"] = Limit(Capacity["minute"])
  /\ "five" \in Tier => \A files \in Archive : Len(files["five"]) <= Limit(Capacity["five"])

M == "minute"

Keep(t) == Limit(Capacity[t])

\* Block i of a ring whose first block is k is older than block j.
Before(i, j, k) ==
  \/ i < j /\ (j < k \/ k <= i)
  \/ k <= i /\ j < k

Filled(b) == b.recs # {} /\ b.recs \subseteq b.start .. EndOf(b) - 1

\* A file that can be read from block k on: only a full ring is rotated, and
\* only a history without records has a block without records.
Ordered(t, f, k) ==
  /\ f \in Seq(Block) /\ k \in DOMAIN f
  /\ (\A i \in DOMAIN f : Filled(f[i])) \/ (Len(f) = 1 /\ f[1].recs = {})
  /\ \A i, j \in DOMAIN f : Before(i, j, k) => EndOf(f[i]) <= f[j].start
  /\ k # 1 => Len(f) = Keep(t)

\* What a file holds once write journal p and shrink journal s are replayed.
Put(f, p) == IF p = None THEN f ELSE PutBlock(f, p.index, p.block)

Replays(f, p, s) ==
  IF s = None THEN Put(f, p)
  ELSE [i \in 1 .. s.total - s.drop |->
          IF i <= s.cursor THEN Put(f, p)[i] ELSE Put(f, p)[s.drop + i]]

\* What both journals make of the file is always in order.  A block to write is
\* in a ring within its limit, and while the file shrinks it is the copy the
\* cursor stands at.
FlashOK(t, f, p, s, now) ==
  /\ \E k \in DOMAIN Replays(f, p, s) : Ordered(t, Replays(f, p, s), k)
  /\ \A x \in Contents(Replays(f, p, s)) : x <= now
  /\ p # None /\ s = None => p.index \in 1 .. Len(f) + 1 /\ Len(Replays(f, p, s)) <= Keep(t)
  /\ s # None =>
       /\ s.drop > 0 /\ s.total - s.drop = Keep(t) /\ s.cursor <= Keep(t)
       /\ Len(f) = s.total \/ (s.cursor = Keep(t) /\ Len(f) = Keep(t))
  /\ p # None /\ s # None =>
       /\ s.cursor < Keep(t) /\ p.index = s.cursor + 1
       /\ p.block = f[s.drop + s.cursor + 1]

\* The journals, as far as they are about a tier.
WriteOf(t) == IF pending # None /\ pending.tier = t THEN pending ELSE None

ShrinkOf(t) == IF shrink # None /\ shrink.tier = t THEN shrink ELSE None

Whole(t) == Replays(file[t], WriteOf(t), ShrinkOf(t))

TierOK(t) == ring[t] = 0 /\ FlashOK(t, file[t], WriteOf(t), ShrinkOf(t), clock)

\* The five-minute tier stays within its limit, only the minute tier shrinks.
FlashInv ==
  /\ \A t \in Tier : TierOK(t)
  /\ \A t \in Tier : t # M => Len(Whole(t)) <= Keep(t)
  /\ shrink # None => shrink.tier = M

\* A minute is only collected for a ring it can be written to.
BufferInv ==
  /\ buffer # 0 => M \in Tier /\ shrink = None /\ Len(Whole(M)) <= Keep(M)
  /\ buffer <= clock

Shrinks == {"recoverShrink", "copy", "advance", "truncate", "forget", "load"}

\* What the firmware knows at each of its steps.
StepInv ==
  /\ pc # "dead"
  /\ pc \in {"off", "replay", "unmounted"} => task = "begin"
  /\ pc \in {"prune", "record"} => task = "update"
  /\ pc \in Shrinks => pending = None /\ (task = "begin" \/ (task = "update" /\ tier = M))
  /\ pc = "acknowledge" => task # "begin" /\ pending = None
  /\ task = "flush" => tier = M
  /\ pc = "load" => shrink = None
  /\ pc \in {"record", "acknowledge"} /\ tier = M => shrink = None /\ Len(Whole(M)) <= Keep(M)
  /\ pc = "load" /\ task = "update" => Len(file[M]) <= Keep(M)
  /\ pc = "recoverShrink" /\ task = "update" => shrink # None
  /\ pc \in {"copy", "advance", "truncate", "forget"} => shrink # None
  /\ pc \in {"copy", "advance"} => shrink.cursor < Keep(M)
  /\ pc = "advance" =>
       file[M][shrink.cursor + 1] = file[M][shrink.drop + shrink.cursor + 1]
  /\ pc \in {"truncate", "forget"} => shrink.cursor = Keep(M)
  /\ pc = "forget" => Len(file[M]) = Keep(M)

\* While a block is put in place its journal is there, and the firmware knows
\* what it was for.
PlaceInv ==
  /\ pc \in {"place", "unlink"} =>
       /\ pending # None
       /\ \/ after = "recoverShrink" /\ task = "begin"
          \/ /\ after = "advance" /\ shrink # None /\ pending.tier = M
             /\ task = "begin" \/ (task = "update" /\ tier = M)
          \/ /\ after = "acknowledge" /\ task # "begin" /\ pending.tier = tier
             /\ tier = M => shrink = None
  /\ pc = "unlink" =>
       /\ pending.index \in 1 .. Len(file[pending.tier])
       /\ file[pending.tier][pending.index] = pending.block

Running == pc = "idle" \/ task # "begin"

\* Whether a step that is to come installs the header of the tier.
Stale(t) == pc \in {"load", "acknowledge"} /\ tier = t

HeadOK(t) ==
  /\ ShrinkOf(t) = None /\ WriteOf(t) = None /\ ~ Stale(t) => head[t] = Loaded(t, file[t])
  /\ ShrinkOf(t) = None /\ WriteOf(t) # None => head[t].blocks <= Keep(t)
  /\ ShrinkOf(t) # None => head[t].first = 1 /\ head[t].blocks > Keep(t)

NextInv ==
  /\ pc \in {"place", "unlink"} /\ after = "acknowledge" => next = Loaded(tier, Whole(tier))
  /\ pc = "acknowledge" => next = Loaded(tier, file[tier])

\* The header in RAM is the one a reboot would load.
HeadInv == (Running => \A t \in Tier : HeadOK(t)) /\ NextInv

\* A promoted record whose write has failed is owed: the minute tier waits.
OwedInv ==
  /\ Running /\ pending # None /\ pending.tier # M =>
       \E x \in pending.block.recs : x > head[pending.tier].last
  /\ pc \in {"prune", "record"} /\ tier = M => pending = None \/ pending.tier = M

CompactInv ==
  TypeOK /\ FlashInv /\ BufferInv /\ StepInv /\ PlaceInv /\ HeadInv /\ OwedInv

Cleared == \E t \in Tier : ring[t] # 0

\* Nothing brings a deleted tier back: the journals are about tiers that are
\* there, and the capacity a deleted tier is created with is not 0.
ClearInv ==
  /\ DOMAIN ring = Tier /\ DOMAIN head = Tier /\ tier \in Tier
  /\ after \in {"recoverShrink", "copy", "advance", "acknowledge"}
  /\ buffer # 0 => M \in Tier
  /\ \A t \in Tier : "capacity" \in DOMAIN head[t] /\ head[t].capacity # 0
  /\ "capacity" \in DOMAIN next /\ next.capacity # 0
  /\ pending # None \/ pc \in {"place", "unlink"} =>
       pending.tier \in Tier /\ ring[pending.tier] = 0
  /\ \/ shrink # None \/ pc \in {"copy", "advance", "truncate", "forget"}
     \/ (pc \in {"place", "unlink"} /\ after \in {"copy", "advance"})
     => "tier" \in DOMAIN shrink /\ shrink.tier \in Tier /\ ring[shrink.tier] = 0
-----------------------------------------------------------------------------
(***************************************************************************)
(* The constants.                                                          *)
(***************************************************************************)
LEMMA Sizes ==
  /\ Slots \in Nat /\ Slots >= 1 /\ MaxTime \in Nat
  /\ \A t \in Tier :
       /\ Capacity[t] \in Nat /\ Capacity[t] >= 1 /\ LegacyCapacity[t] \in Nat
       /\ Keep(t) \in Nat /\ Keep(t) = Limit(Capacity[t])
  <1>1. /\ Slots \in Nat /\ Slots >= 1 /\ MaxTime \in Nat
        /\ \A t \in Tier : /\ Capacity[t] \in Nat /\ Capacity[t] >= 1
                          /\ LegacyCapacity[t] \in Nat
    BY SizeAssumption
  <1>2. ASSUME NEW t \in Tier PROVE Limit(Capacity[t]) \in Nat
    <2> DEFINE n == Capacity[t] + Slots - 1
    <2>1. n \in Nat
      BY <1>1
    <2> HIDE DEF n
    <2>2. n \div Slots \in Nat
      BY <1>1, <2>1
    <2>3. QED
      BY <2>2 DEF Limit, n
  <1>3. QED
    BY <1>1, <1>2 DEF Keep

\* The blocks after the one being written hold a whole ring.
LEMMA KeepIsEnough ==
  ASSUME NEW t \in Tier
  PROVE  Keep(t) >= 2 /\ (Keep(t) - 1) * Slots >= Capacity[t]
  <1>1. /\ Slots \in Nat /\ Slots >= 1 /\ Capacity[t] \in Nat /\ Capacity[t] >= 1
        /\ Keep(t) = (Capacity[t] + Slots - 1) \div Slots + 1
    BY Sizes DEF Limit
  <1> DEFINE n == Capacity[t] + Slots - 1
             q == n \div Slots
  <1>2. n \in Nat /\ n >= Slots
    BY <1>1
  <1> HIDE DEF n
  <1>3. q \in Nat /\ n % Slots \in 0 .. Slots - 1 /\ n = Slots * q + (n % Slots)
    <2>1. q \in Nat
      BY <1>1, <1>2
    <2>2. n % Slots \in 0 .. Slots - 1
      BY <1>1, <1>2
    <2>3. n = Slots * q + (n % Slots)
      BY <1>1, <1>2, Z3
    <2>4. QED
      BY <2>1, <2>2, <2>3
  <1> HIDE DEF q
  <1>4. q >= 1
    BY <1>1, <1>2, <1>3
  <1>5. q * Slots = Slots * q /\ q * Slots \in Nat
    BY <1>1, <1>3
  <1>6. q * Slots >= Capacity[t]
    BY <1>1, <1>3, <1>5 DEF n
  <1>7. Keep(t) - 1 = q
    BY <1>1, <1>3 DEF n, q
  <1>8. QED
    BY <1>1, <1>3, <1>4, <1>6, <1>7

LEMMA BlockParts ==
  ASSUME NEW b \in Block
  PROVE  /\ b.start \in Nat /\ b.start <= MaxTime /\ b.recs \subseteq Time
         /\ EndOf(b) \in Nat /\ EndOf(b) = b.start + Slots /\ EndOf(b) > b.start
         /\ b # Torn
  BY Sizes, KindAssumption DEF Block, Time, EndOf
-----------------------------------------------------------------------------
(***************************************************************************)
(* What a file in order is read as.                                        *)
(***************************************************************************)
LEMMA FileParts ==
  ASSUME NEW t \in Tier, NEW f, NEW k, Ordered(t, f, k)
  PROVE  /\ Len(f) \in Nat /\ Len(f) >= 1 /\ DOMAIN f = 1 .. Len(f)
         /\ k \in Nat /\ 1 <= k /\ k <= Len(f)
         /\ \A i \in 1 .. Len(f) : f[i] \in Block
  BY DEF Ordered

LEMMA StartsIncrease ==
  ASSUME NEW t \in Tier, NEW f, NEW k, Ordered(t, f, k),
         NEW i \in 1 .. Len(f), NEW j \in 1 .. Len(f), Before(i, j, k)
  PROVE  EndOf(f[i]) <= f[j].start /\ f[i].start < f[j].start
  <1>1. EndOf(f[i]) <= f[j].start
    BY FileParts DEF Ordered
  <1>2. f[i] \in Block /\ f[j] \in Block
    BY FileParts
  <1>3. QED
    BY <1>1, <1>2, BlockParts

LEMMA WrapsAt ==
  ASSUME NEW t \in Tier, NEW f, NEW k, Ordered(t, f, k)
  PROVE  /\ Wraps(f) = IF k = 1 THEN {} ELSE {k}
         /\ k # 1 => f[Len(f)].start < f[1].start
  <1>1. /\ Len(f) \in Nat /\ Len(f) >= 1 /\ DOMAIN f = 1 .. Len(f)
        /\ k \in Nat /\ 1 <= k /\ k <= Len(f)
    BY FileParts
  <1>2. ASSUME NEW i \in 1 .. Len(f) PROVE f[i].start \in Nat
    BY <1>2, FileParts, BlockParts
  <1>3. ASSUME NEW i \in 2 .. Len(f), i # k PROVE ~ (f[i].start <= f[i - 1].start)
    <2>1. i - 1 \in 1 .. Len(f) /\ i \in 1 .. Len(f) /\ Before(i - 1, i, k)
      BY <1>1, <1>3 DEF Before
    <2>2. f[i - 1].start < f[i].start
      BY <2>1, StartsIncrease
    <2>3. QED
      BY <1>2, <2>1, <2>2
  <1>4. ASSUME k # 1 PROVE f[k].start <= f[k - 1].start /\ f[Len(f)].start < f[1].start
    <2>1. /\ k \in 1 .. Len(f) /\ k - 1 \in 1 .. Len(f) /\ Before(k, k - 1, k)
          /\ Len(f) \in 1 .. Len(f) /\ 1 \in 1 .. Len(f) /\ Before(Len(f), 1, k)
      BY <1>1, <1>4 DEF Before
    <2>2. f[k].start < f[k - 1].start /\ f[Len(f)].start < f[1].start
      BY <2>1, StartsIncrease
    <2>3. QED
      BY <1>2, <2>1, <2>2
  <1>5. CASE k = 1
    BY <1>1, <1>3, <1>5 DEF Wraps
  <1>6. CASE k # 1
    <2>1. k \in 2 .. Len(f)
      BY <1>1, <1>6
    <2>2. QED
      BY <1>3, <1>4, <1>6, <2>1 DEF Wraps
  <1>7. QED
    BY <1>5, <1>6

LEMMA FirstIs ==
  ASSUME NEW t \in Tier, NEW f, NEW k, Ordered(t, f, k)
  PROVE  FirstBlock(f) = k
  BY WrapsAt DEF FirstBlock

LEMMA OrderedLoads ==
  ASSUME NEW t \in Tier, NEW f, NEW k, Ordered(t, f, k)
  PROVE  Loadable(f)
  <1>1. /\ Len(f) \in Nat /\ Len(f) >= 1 /\ DOMAIN f = 1 .. Len(f)
        /\ k \in Nat /\ 1 <= k /\ k <= Len(f)
        /\ \A i \in 1 .. Len(f) : f[i] \in Block
    BY FileParts
  <1>2. f # <<>>
    BY <1>1
  <1>3. Sound(f)
    BY <1>1, BlockParts DEF Sound
  <1>4. Wraps(f) # {} => Cardinality(Wraps(f)) = 1 /\ f[Len(f)].start < f[1].start
    BY WrapsAt, FS_Singleton
  <1>5. ASSUME NEW i \in 1 .. Len(f) - 1
        PROVE  EndOf(Logical(f, k, i)) <= Logical(f, k, i + 1).start
    <2> DEFINE a == ((k - 1 + i - 1) % Len(f)) + 1
               b == ((k - 1 + (i + 1) - 1) % Len(f)) + 1
    <2>1. (k - 1 + i - 1) % Len(f) = IF k + i - 2 < Len(f) THEN k + i - 2 ELSE k + i - 2 - Len(f)
      BY <1>1
    <2>2. (k - 1 + (i + 1) - 1) % Len(f) = IF k + i - 1 < Len(f)
                                             THEN k + i - 1 ELSE k + i - 1 - Len(f)
      BY <1>1
    <2>3. a \in 1 .. Len(f) /\ b \in 1 .. Len(f) /\ Before(a, b, k)
      BY <1>1, <2>1, <2>2 DEF Before
    <2>4. Logical(f, k, i) = f[a] /\ Logical(f, k, i + 1) = f[b]
      BY DEF Logical
    <2> HIDE DEF a, b
    <2>5. QED
      BY <2>3, <2>4, StartsIncrease
  <1>6. InOrder(f, FirstBlock(f))
    BY <1>5, FirstIs DEF InOrder
  <1>7. QED
    BY <1>2, <1>3, <1>4, <1>6 DEF Loadable
-----------------------------------------------------------------------------
(***************************************************************************)
(* The records of a file in order.                                         *)
(***************************************************************************)
LEMMA LeastExists ==
  ASSUME NEW S \in SUBSET Nat, S # {}
  PROVE  \E x \in S : \A y \in S : x <= y
  <1> DEFINE R == {p \in Nat \X Nat : p[1] < p[2]}
  <1>1. IsWellFoundedOn(R, Nat)
    BY NatLessThanWellFounded DEF OpToRel
  <1>2. PICK x \in S : \A y \in S : ~ (<<y, x>> \in R)
    BY <1>1, WFMin
  <1>3. ASSUME NEW y \in S PROVE x <= y
    <2>1. x \in Nat /\ y \in Nat
      OBVIOUS
    <2>2. ~ (y < x)
      BY <1>2, <2>1, Zenon
    <2>3. QED
      BY <2>1, <2>2
  <1>4. QED
    BY <1>3

LEMMA GreatestExists ==
  ASSUME NEW S \in SUBSET Nat, S # {}, NEW n \in Nat, \A x \in S : x <= n
  PROVE  \E x \in S : \A y \in S : y <= x
  <1> DEFINE Bounds == {u \in Nat : \A x \in S : x <= u}
  <1>1. n \in Bounds /\ Bounds \in SUBSET Nat
    OBVIOUS
  <1>2. PICK u \in Bounds : \A v \in Bounds : u <= v
    BY <1>1, LeastExists
  <1>3. CASE u \in S
    BY <1>2, <1>3
  <1>4. CASE u \notin S
    <2>1. ASSUME NEW x \in S PROVE x <= u - 1 /\ u - 1 \in Nat
      BY <1>2, <1>4, <2>1
    <2>2. u - 1 \in Bounds
      BY <2>1
    <2>3. QED
      BY <1>2, <2>2
  <1>5. QED
    BY <1>3, <1>4

LEMMA InContents ==
  ASSUME NEW t \in Tier, NEW f, NEW k, Ordered(t, f, k), NEW x
  PROVE  x \in Contents(f) <=> \E i \in 1 .. Len(f) : x \in f[i].recs
  <1>1. DOMAIN f = 1 .. Len(f) /\ \A i \in 1 .. Len(f) : f[i] # Torn
    BY FileParts, BlockParts
  <1>2. QED
    BY <1>1 DEF Contents

LEMMA TimesAreFinite ==
  ASSUME NEW S \in SUBSET Time
  PROVE  IsFiniteSet(S) /\ Cardinality(S) \in Nat
  <1>1. IsFiniteSet(Time)
    BY Sizes, FS_Interval DEF Time
  <1>2. IsFiniteSet(S)
    BY <1>1, FS_Subset
  <1>3. QED
    BY <1>2, FS_CardinalityType

LEMMA ContentsAreTimes ==
  ASSUME NEW t \in Tier, NEW f, NEW k, Ordered(t, f, k)
  PROVE  /\ Contents(f) \in SUBSET Time
         /\ IsFiniteSet(Contents(f)) /\ Cardinality(Contents(f)) \in Nat
  <1>1. ASSUME NEW x \in Contents(f) PROVE x \in Time
    BY <1>1, InContents, FileParts, BlockParts
  <1>2. QED
    BY <1>1, TimesAreFinite

LEMMA LastIs ==
  ASSUME NEW t \in Tier, NEW f, NEW k, Ordered(t, f, k)
  PROVE  /\ LastRecord(f) \in Time
         /\ Contents(f) = {} => LastRecord(f) = 0
         /\ Contents(f) # {} => LastRecord(f) \in Contents(f)
         /\ \A x \in Contents(f) : x <= LastRecord(f)
  <1>1. Contents(f) \in SUBSET Nat /\ (\A x \in Contents(f) : x <= MaxTime) /\ MaxTime \in Nat
    BY ContentsAreTimes, Sizes DEF Time
  <1>2. CASE Contents(f) = {}
    BY <1>1, <1>2 DEF LastRecord, Time
  <1>3. CASE Contents(f) # {}
    <2>1. \E x \in Contents(f) : \A y \in Contents(f) : y <= x
      BY <1>1, <1>3, GreatestExists
    <2>2. LastRecord(f) \in Contents(f) /\ \A x \in Contents(f) : x <= LastRecord(f)
      BY <1>3, <2>1 DEF LastRecord
    <2>3. QED
      BY <1>3, <2>2, ContentsAreTimes
  <1>4. QED
    BY <1>2, <1>3

LEMMA LastUnique ==
  ASSUME NEW t \in Tier, NEW f, NEW k, Ordered(t, f, k),
         NEW x \in Contents(f), \A y \in Contents(f) : y <= x
  PROVE  LastRecord(f) = x
  <1>1. LastRecord(f) \in Contents(f) /\ x <= LastRecord(f)
    BY LastIs
  <1>2. LastRecord(f) <= x
    BY <1>1
  <1>3. LastRecord(f) \in Nat /\ x \in Nat
    BY <1>1, ContentsAreTimes DEF Time
  <1>4. QED
    BY <1>1, <1>2, <1>3

\* The block that is written is the one before the first.
Newest(f, k) == IF k = 1 THEN Len(f) ELSE k - 1

LEMMA NewestIs ==
  ASSUME NEW t \in Tier, NEW f, NEW k, Ordered(t, f, k)
  PROVE  /\ Newest(f, k) \in 1 .. Len(f)
         /\ \A i \in 1 .. Len(f) : i # Newest(f, k) => Before(i, Newest(f, k), k)
         /\ \A i \in 1 .. Len(f) : i # Newest(f, k) =>
              EndOf(f[i]) <= f[Newest(f, k)].start
  <1>1. Len(f) \in Nat /\ Len(f) >= 1 /\ k \in Nat /\ 1 <= k /\ k <= Len(f)
    BY FileParts
  <1>2. Newest(f, k) \in 1 .. Len(f)
    BY <1>1 DEF Newest
  <1>3. ASSUME NEW i \in 1 .. Len(f), i # Newest(f, k) PROVE Before(i, Newest(f, k), k)
    BY <1>1, <1>3 DEF Newest, Before
  <1>4. ASSUME NEW i \in 1 .. Len(f), i # Newest(f, k)
        PROVE  EndOf(f[i]) <= f[Newest(f, k)].start
    BY <1>2, <1>3, <1>4, StartsIncrease
  <1>5. QED
    BY <1>2, <1>3, <1>4

LEMMA RecordsInBlock ==
  ASSUME NEW t \in Tier, NEW f, NEW k, Ordered(t, f, k),
         NEW i \in 1 .. Len(f), NEW x \in f[i].recs
  PROVE  x \in Nat /\ f[i].start <= x /\ x < EndOf(f[i])
  <1>1. f[i] \in Block
    BY FileParts
  <1>2. f[i].recs \subseteq f[i].start .. EndOf(f[i]) - 1
    <2>1. DOMAIN f = 1 .. Len(f)
      BY FileParts
    <2>2. CASE \A j \in DOMAIN f : Filled(f[j])
      BY <2>1, <2>2 DEF Filled
    <2>3. CASE Len(f) = 1 /\ f[1].recs = {}
      BY <2>3
    <2>4. QED
      BY <2>2, <2>3 DEF Ordered
  <1>3. x \in f[i].start .. EndOf(f[i]) - 1 /\ f[i].start \in Nat /\ EndOf(f[i]) \in Nat
    BY <1>1, <1>2, BlockParts
  <1>4. QED
    BY <1>3

LEMMA LastIsInNewest ==
  ASSUME NEW t \in Tier, NEW f, NEW k, Ordered(t, f, k)
  PROVE  LET b == f[Newest(f, k)] IN
         /\ Contents(f) # {} =>
              LastRecord(f) \in b.recs /\ b.start <= LastRecord(f) /\ LastRecord(f) < EndOf(b)
         /\ Contents(f) = {} => Len(f) = 1 /\ b.recs = {} /\ k = 1
  <1> DEFINE w == Newest(f, k)
             b == f[w]
  <1>1. w \in 1 .. Len(f) /\ \A i \in 1 .. Len(f) : i # w => EndOf(f[i]) <= b.start
    BY NewestIs
  <1>2. /\ Len(f) \in Nat /\ Len(f) >= 1 /\ DOMAIN f = 1 .. Len(f)
        /\ k \in Nat /\ 1 <= k /\ k <= Len(f)
        /\ \A i \in 1 .. Len(f) : f[i] \in Block
    BY FileParts
  <1> HIDE DEF w
  <1>3. CASE Contents(f) = {}
    <2>1. b.recs = {}
      BY <1>1, <1>3, InContents
    <2>2. Len(f) = 1
      BY <1>1, <1>2, <2>1 DEF Ordered, Filled
    <2>3. QED
      BY <1>2, <1>3, <2>1, <2>2 DEF w
  <1>4. CASE Contents(f) # {}
    <2>1. LastRecord(f) \in Contents(f) /\ \A x \in Contents(f) : x <= LastRecord(f)
      BY <1>4, LastIs
    <2>2. PICK i \in 1 .. Len(f) : LastRecord(f) \in f[i].recs
      BY <2>1, InContents
    <2>3. LastRecord(f) \in Nat /\ LastRecord(f) < EndOf(f[i])
      BY <2>2, RecordsInBlock
    <2>4. i = w
      <3>1. SUFFICES ASSUME i # w PROVE FALSE
        OBVIOUS
      <3>2. EndOf(f[i]) <= b.start /\ b.start \in Nat /\ EndOf(f[i]) \in Nat
        BY <1>1, <1>2, <3>1, BlockParts
      <3>3. Filled(b)
        <4>1. Len(f) # 1
          BY <1>1, <3>1
        <4>2. QED
          BY <1>1, <1>2, <4>1 DEF Ordered
      <3>4. PICK x : x \in b.recs
        BY <3>3 DEF Filled
      <3>5. x \in Nat /\ b.start <= x /\ x \in Contents(f)
        BY <1>1, <3>4, RecordsInBlock, InContents
      <3>6. x <= LastRecord(f)
        BY <2>1, <3>5
      <3>7. QED
        BY <2>3, <3>2, <3>5, <3>6
    <2>5. QED
      BY <1>4, <2>2, <2>3, <2>4, RecordsInBlock DEF w
  <1>5. QED
    BY <1>3, <1>4 DEF w
-----------------------------------------------------------------------------
(***************************************************************************)
(* Converted files, and the old blocks of one that is too long.            *)
(***************************************************************************)
LEMMA TimesMore ==
  ASSUME NEW a \in Int, NEW b \in Int, NEW s \in Nat, a <= b
  PROVE  a * s <= b * s
  <1>1. (b - a) * s >= 0
    BY Z3
  <1>2. (b - a) * s = b * s - a * s
    BY Z3
  <1>3. a * s \in Int /\ b * s \in Int
    BY Z3
  <1>4. QED
    BY <1>1, <1>2, <1>3

\* Disjoint blocks are at least a block's length apart.
LEMMA Apart ==
  ASSUME NEW f, NEW n \in Nat, \A i \in 1 .. n : f[i] \in Block,
         \A i \in 1 .. n - 1 : EndOf(f[i]) <= f[i + 1].start,
         NEW i \in 1 .. n, NEW j \in 1 .. n, i <= j
  PROVE  f[i].start + (j - i) * Slots <= f[j].start
  <1> DEFINE Bad == {d \in Nat : i + d <= n /\ ~ (f[i].start + d * Slots <= f[i + d].start)}
  <1>1. Slots \in Nat /\ f[i].start \in Nat
    BY Sizes, BlockParts
  <1>2. SUFFICES ASSUME Bad # {} PROVE FALSE
    <2>1. j - i \in Nat /\ i + (j - i) = j /\ i + (j - i) <= n
      OBVIOUS
    <2>2. j - i \notin Bad
      BY <1>2
    <2>3. QED
      BY <2>1, <2>2
  <1>3. PICK d \in Bad : \A e \in Bad : d <= e
    BY <1>2, LeastExists
  <1>4. d # 0
    BY <1>1, <1>3
  <1>5. d - 1 \in Nat /\ d - 1 \notin Bad
    BY <1>3, <1>4
  <1>6. /\ i + (d - 1) \in 1 .. n - 1 /\ (i + (d - 1)) + 1 = i + d /\ i + d \in 1 .. n
        /\ f[i].start + (d - 1) * Slots <= f[i + (d - 1)].start
    BY <1>3, <1>4, <1>5
  <1>7. EndOf(f[i + (d - 1)]) <= f[i + d].start
    BY <1>6
  <1>8. /\ EndOf(f[i + (d - 1)]) = f[i + (d - 1)].start + Slots
        /\ f[i + (d - 1)].start \in Nat /\ f[i + d].start \in Nat
    BY <1>6, BlockParts
  <1>9. (d - 1) * Slots + Slots = d * Slots /\ (d - 1) * Slots \in Int
    BY <1>1, <1>3, Z3
  <1>10. f[i].start + d * Slots <= f[i + d].start
    BY <1>1, <1>6, <1>7, <1>8, <1>9
  <1>11. QED
    BY <1>3, <1>10

LEMMA StagedIsOrdered ==
  ASSUME NEW t \in Tier, NEW f \in Seq(Block), NEW n, Staged(f, n)
  PROVE  Ordered(t, f, 1)
  <1>1. /\ Len(f) \in Nat /\ Len(f) >= 1 /\ DOMAIN f = 1 .. Len(f)
        /\ \A i \in 1 .. Len(f) : f[i] \in Block
        /\ \A i \in 1 .. Len(f) - 1 : EndOf(f[i]) <= f[i + 1].start
    BY DEF Staged
  <1>2. ASSUME NEW i \in 1 .. Len(f), NEW j \in 1 .. Len(f), Before(i, j, 1)
        PROVE  EndOf(f[i]) <= f[j].start
    <2>1. i < j /\ i <= j /\ i \in Int /\ j \in Int
      BY <1>2 DEF Before
    <2>2. f[i].start + (j - i) * Slots <= f[j].start
      BY <1>1, <1>2, <2>1, Apart, Zenon
    <2>3. 1 * Slots <= (j - i) * Slots /\ (j - i) * Slots \in Int /\ 1 * Slots = Slots
      <3>1. 1 \in Int /\ j - i \in Int /\ Slots \in Nat /\ 1 <= j - i
        BY <2>1, Sizes
      <3>2. 1 * Slots <= (j - i) * Slots
        BY <3>1, TimesMore, Zenon
      <3> DEFINE d == j - i
      <3>3. d \in Int
        BY <3>1
      <3> HIDE DEF d
      <3>4. d * Slots \in Int /\ 1 * Slots = Slots
        BY <3>1, <3>3, Z3
      <3>5. QED
        BY <3>2, <3>4 DEF d
    <2>4. EndOf(f[i]) = f[i].start + Slots /\ f[i].start \in Nat /\ f[j].start \in Nat
      BY <1>1, BlockParts
    <2> DEFINE apart == (j - i) * Slots
    <2>5. apart \in Int /\ Slots <= apart /\ f[i].start + apart <= f[j].start /\ Slots \in Nat
      BY <2>2, <2>3, Sizes
    <2> HIDE DEF apart
    <2>6. QED
      BY <2>4, <2>5
  <1>3. (\A i \in DOMAIN f : Filled(f[i])) \/ (Len(f) = 1 /\ f[1].recs = {})
    BY <1>1 DEF Staged, Filled
  <1>4. QED
    BY <1>1, <1>2, <1>3 DEF Ordered

\* All that is more than the minute ring keeps has left its window.
LEMMA SurplusIsOld ==
  ASSUME NEW t \in Tier, NEW f, Ordered(t, f, 1),
         NEW now \in Nat, \A x \in Contents(f) : x <= now, Len(f) > Keep(t),
         NEW i \in 1 .. Len(f) - Keep(t)
  PROVE  EndOf(f[i]) + Capacity[t] <= now
  <1> DEFINE n == Len(f)
  <1>1. n \in Nat /\ DOMAIN f = 1 .. n /\ \A j \in 1 .. n : f[j] \in Block
    BY FileParts
  <1>2. Keep(t) \in Nat /\ Keep(t) >= 2 /\ (Keep(t) - 1) * Slots >= Capacity[t] /\ Slots \in Nat
        /\ Capacity[t] \in Nat
    BY KeepIsEnough, Sizes
  <1>3. PICK x : x \in f[n].recs
    <2>1. Filled(f[n])
      BY <1>1, <1>2 DEF Ordered
    <2>2. QED
      BY <2>1 DEF Filled
  <1>4. x \in Nat /\ f[n].start <= x /\ x <= now
    <2>1. n \in 1 .. n
      BY <1>1, <1>2
    <2>2. QED
      BY <1>1, <1>3, <2>1, RecordsInBlock, InContents
  <1>5. i \in 1 .. n /\ n \in 1 .. n /\ i <= n /\ i \in Nat
    BY <1>1, <1>2
  <1>6. f[i].start + (n - i) * Slots <= f[n].start
    <2>1. ASSUME NEW j \in 1 .. n - 1 PROVE EndOf(f[j]) <= f[j + 1].start
      <3>1. j \in 1 .. n /\ j + 1 \in 1 .. n /\ Before(j, j + 1, 1)
        BY <1>1 DEF Before
      <3>2. QED
        BY <3>1, StartsIncrease
    <2> HIDE DEF n
    <2>2. QED
      BY <1>1, <1>5, <2>1, Apart
  <1>7. Keep(t) * Slots <= (n - i) * Slots /\ Keep(t) * Slots \in Int /\ (n - i) * Slots \in Int
    BY <1>1, <1>2, <1>5, TimesMore, Z3
  <1>8. Keep(t) * Slots = (Keep(t) - 1) * Slots + Slots /\ (Keep(t) - 1) * Slots \in Int
    BY <1>2, Z3
  <1>9. EndOf(f[i]) = f[i].start + Slots /\ f[i].start \in Nat /\ f[n].start \in Nat
    BY <1>1, <1>5, BlockParts
  <1> DEFINE apart == (n - i) * Slots
             ring0 == (Keep(t) - 1) * Slots
             whole == Keep(t) * Slots
  <1>10. /\ f[i].start + apart <= f[n].start /\ whole <= apart /\ apart \in Int
         /\ whole = ring0 + Slots /\ ring0 >= Capacity[t] /\ ring0 \in Int
    BY <1>2, <1>6, <1>7, <1>8
  <1>11. Slots \in Nat /\ Capacity[t] \in Nat
    BY Sizes
  <1> HIDE DEF apart, ring0, whole
  <1>12. QED
    BY <1>4, <1>9, <1>10, <1>11

\* The blocks after the first d.
Rest(f, d) == [i \in 1 .. Len(f) - d |-> f[d + i]]

LEMMA RestIsOrdered ==
  ASSUME NEW t \in Tier, NEW f, Ordered(t, f, 1), NEW d \in 1 .. Len(f) - 1
  PROVE  /\ Ordered(t, Rest(f, d), 1) /\ Len(Rest(f, d)) = Len(f) - d
         /\ Contents(Rest(f, d)) = {x \in Contents(f) : x > EndOf(f[d]) - 1}
  <1> DEFINE n == Len(f)
             g == Rest(f, d)
  <1>1. n \in Nat /\ DOMAIN f = 1 .. n /\ (\A j \in 1 .. n : f[j] \in Block) /\ n > 1
    BY FileParts
  <1>2. \A j \in 1 .. n : Filled(f[j])
    BY <1>1 DEF Ordered
  <1>3. n - d \in Nat /\ n - d >= 1 /\ \A i \in 1 .. n - d : d + i \in 1 .. n
    BY <1>1
  <1>4. /\ g \in Seq(Block) /\ Len(g) = n - d /\ DOMAIN g = 1 .. n - d
        /\ \A i \in 1 .. n - d : g[i] = f[d + i]
    BY <1>1, <1>3 DEF Rest
  <1>5. ASSUME NEW i \in 1 .. n - d, NEW j \in 1 .. n - d, Before(i, j, 1)
        PROVE  EndOf(g[i]) <= g[j].start
    <2>1. Before(d + i, d + j, 1)
      BY <1>1, <1>5 DEF Before
    <2>2. EndOf(f[d + i]) <= f[d + j].start
      BY <1>3, <2>1, StartsIncrease
    <2>3. QED
      BY <1>4, <2>2
  <1> HIDE DEF g
  <1>6. Ordered(t, g, 1)
    BY <1>2, <1>3, <1>4, <1>5 DEF Ordered
  <1>7. ASSUME NEW x PROVE x \in Contents(g) <=> x \in Contents(f) /\ x > EndOf(f[d]) - 1
    <2>1. x \in Contents(g) <=> \E i \in 1 .. n - d : x \in f[d + i].recs
      BY <1>4, <1>6, InContents
    <2>2. x \in Contents(f) <=> \E i \in 1 .. n : x \in f[i].recs
      BY InContents
    <2>3. d \in 1 .. n /\ f[d] \in Block
      BY <1>1
    <2>4. ASSUME NEW i \in 1 .. n, x \in f[i].recs PROVE x > EndOf(f[d]) - 1 <=> i > d
      <3>1. x \in Nat /\ f[i].start <= x /\ x < EndOf(f[i])
        BY <2>4, RecordsInBlock
      <3>2. EndOf(f[d]) \in Nat /\ EndOf(f[i]) \in Nat /\ f[i].start \in Nat /\ f[d].start \in Nat
            /\ f[d].start < EndOf(f[d])
        BY <1>1, <2>3, BlockParts
      <3>3. CASE i > d
        <4>1. EndOf(f[d]) <= f[i].start
          BY <2>3, <3>3, StartsIncrease DEF Before
        <4>2. QED
          BY <3>1, <3>2, <3>3, <4>1
      <3>4. CASE i = d
        BY <3>1, <3>2, <3>4
      <3>5. CASE i < d
        <4>1. EndOf(f[i]) <= f[d].start
          BY <2>3, <3>5, StartsIncrease DEF Before
        <4>2. QED
          BY <2>3, <3>1, <3>2, <3>5, <4>1
      <3>6. QED
        BY <2>3, <3>3, <3>4, <3>5
    <2>5. ASSUME NEW i \in 1 .. n, x \in f[i].recs, i > d
          PROVE  \E j \in 1 .. n - d : x \in f[d + j].recs
      <3>1. i - d \in 1 .. n - d /\ d + (i - d) = i
        BY <1>1, <2>5
      <3>2. QED
        BY <2>5, <3>1
    <2>6. ASSUME NEW i \in 1 .. n - d, x \in f[d + i].recs
          PROVE  x \in Contents(f) /\ x > EndOf(f[d]) - 1
      <3>1. d + i \in 1 .. n /\ d + i > d
        BY <1>1
      <3>2. QED
        BY <2>2, <2>4, <2>6, <3>1
    <2>7. ASSUME x \in Contents(f), x > EndOf(f[d]) - 1
          PROVE  \E j \in 1 .. n - d : x \in f[d + j].recs
      <3>1. PICK i \in 1 .. n : x \in f[i].recs
        BY <2>2, <2>7
      <3>2. i > d
        BY <2>4, <2>7, <3>1
      <3>3. QED
        BY <2>5, <3>1, <3>2
    <2>8. QED
      BY <2>1, <2>6, <2>7, Zenon
  <1>8. QED
    BY <1>4, <1>6, <1>7 DEF g
-----------------------------------------------------------------------------
(***************************************************************************)
(* A block put into a file.                                                *)
(***************************************************************************)
LEMMA PutIs ==
  ASSUME NEW S, NEW f \in Seq(S), NEW i \in 1 .. Len(f) + 1, NEW b \in S
  PROVE  /\ PutBlock(f, i, b) \in Seq(S)
         /\ Len(PutBlock(f, i, b)) = IF i > Len(f) THEN i ELSE Len(f)
         /\ DOMAIN PutBlock(f, i, b) = 1 .. (IF i > Len(f) THEN i ELSE Len(f))
         /\ PutBlock(f, i, b)[i] = b
         /\ \A j \in 1 .. Len(f) : j # i => PutBlock(f, i, b)[j] = f[j]
  <1>1. CASE i > Len(f)
    BY <1>1 DEF PutBlock
  <1>2. CASE i <= Len(f)
    BY <1>2 DEF PutBlock
  <1>3. QED
    BY <1>1, <1>2

LEMMA PutEquals ==
  ASSUME NEW S, NEW f \in Seq(S), NEW i \in 1 .. Len(f) + 1, NEW b \in S, NEW g \in Seq(S),
         Len(g) = IF i > Len(f) THEN i ELSE Len(f),
         g[i] = b, \A j \in 1 .. Len(f) : j # i => g[j] = f[j]
  PROVE  g = PutBlock(f, i, b)
  <1> DEFINE h == PutBlock(f, i, b)
  <1>1. /\ h \in Seq(S) /\ Len(h) = Len(g) /\ h[i] = b
        /\ \A j \in 1 .. Len(f) : j # i => h[j] = f[j]
    BY PutIs
  <1> HIDE DEF h
  <1>2. ASSUME NEW j \in 1 .. Len(g) PROVE g[j] = h[j]
    <2>1. j = i \/ j \in 1 .. Len(f)
      BY <1>2
    <2>2. QED
      BY <1>1, <2>1
  <1>3. g = h
    BY <1>1, <1>2
  <1>4. QED
    BY <1>3 DEF h

\* Putting a block twice, or over a half written one, is the same as once.
LEMMA PutPut ==
  ASSUME NEW S, NEW f \in Seq(S), NEW i \in 1 .. Len(f) + 1, NEW b \in S, NEW c \in S
  PROVE  /\ PutBlock(PutBlock(f, i, c), i, b) = PutBlock(f, i, b)
         /\ i \in 1 .. Len(PutBlock(f, i, c)) /\ PutBlock(f, i, c) \in Seq(S)
  <1>1. /\ PutBlock(f, i, c) \in Seq(S)
        /\ Len(PutBlock(f, i, c)) = IF i > Len(f) THEN i ELSE Len(f)
        /\ \A j \in 1 .. Len(f) : j # i => PutBlock(f, i, c)[j] = f[j]
    BY PutIs
  <1>2. /\ PutBlock(f, i, b) \in Seq(S)
        /\ Len(PutBlock(f, i, b)) = IF i > Len(f) THEN i ELSE Len(f)
        /\ \A j \in 1 .. Len(f) : j # i => PutBlock(f, i, b)[j] = f[j]
    BY PutIs
  <1>3. PutBlock(f, i, b)[i] = b
    BY PutIs
  <1> DEFINE g == PutBlock(f, i, c)
             h == PutBlock(f, i, b)
  <1>4. /\ g \in Seq(S) /\ Len(g) = IF i > Len(f) THEN i ELSE Len(f)
        /\ \A j \in 1 .. Len(f) : j # i => g[j] = f[j]
    BY <1>1, Zenon
  <1>5. /\ h \in Seq(S) /\ Len(h) = IF i > Len(f) THEN i ELSE Len(f)
        /\ h[i] = b /\ \A j \in 1 .. Len(f) : j # i => h[j] = f[j]
    BY <1>3, <1>2, Zenon
  <1> HIDE DEF g, h
  <1>6. i \in 1 .. Len(g) /\ Len(f) \in Nat
    BY <1>4
  <1>7. Len(h) = (IF i > Len(g) THEN i ELSE Len(g)) /\ i \in 1 .. Len(g) + 1
    BY <1>4, <1>5, <1>6
  <1>8. ASSUME NEW j \in 1 .. Len(g), j # i PROVE h[j] = g[j]
    <2>1. j \in 1 .. Len(f)
      BY <1>4, <1>8
    <2>2. QED
      BY <1>4, <1>5, <1>8, <2>1
  <1>9. h = PutBlock(g, i, b)
    BY <1>4, <1>5, <1>7, <1>8, PutEquals
  <1>10. QED
    BY <1>4, <1>6, <1>9 DEF g, h

LEMMA PutSame ==
  ASSUME NEW S, NEW f \in Seq(S), NEW i \in 1 .. Len(f), NEW b \in S, f[i] = b
  PROVE  PutBlock(f, i, b) = f
  BY DEF PutBlock

Old(f, i) == IF i > Len(f) THEN {} ELSE f[i].recs

LEMMA BlocksAreDisjoint ==
  ASSUME NEW t \in Tier, NEW f, NEW k, Ordered(t, f, k),
         NEW i \in 1 .. Len(f), NEW j \in 1 .. Len(f), i # j,
         NEW x \in f[i].recs
  PROVE  x \notin f[j].recs
  <1>1. SUFFICES ASSUME x \in f[j].recs PROVE FALSE
    OBVIOUS
  <1>2. /\ x \in Nat /\ f[i].start <= x /\ x < EndOf(f[i])
        /\ f[j].start <= x /\ x < EndOf(f[j])
    BY <1>1, RecordsInBlock
  <1>3. /\ f[i].start \in Nat /\ EndOf(f[i]) \in Nat
        /\ f[j].start \in Nat /\ EndOf(f[j]) \in Nat
    BY FileParts, BlockParts
  <1>4. Before(i, j, k) \/ Before(j, i, k)
    BY FileParts DEF Before
  <1>5. EndOf(f[i]) <= f[j].start \/ EndOf(f[j]) <= f[i].start
    BY <1>4, StartsIncrease
  <1>6. QED
    BY <1>2, <1>3, <1>5

LEMMA ContentsPut ==
  ASSUME NEW t \in Tier, NEW f, NEW k, Ordered(t, f, k), NEW i \in 1 .. Len(f) + 1, NEW b \in Block,
         NEW m, Ordered(t, PutBlock(f, i, b), m)
  PROVE  LET g == PutBlock(f, i, b) IN
         /\ Contents(g) = (Contents(f) \ Old(f, i)) \union b.recs
         /\ Cardinality(Old(f, i)) \in Nat /\ Cardinality(b.recs) \in Nat
         /\ Cardinality(Contents(g)) =
              Cardinality(Contents(f)) - Cardinality(Old(f, i)) + Cardinality(b.recs)
         /\ \A x \in b.recs : x \in Contents(g)
  <1> DEFINE g == PutBlock(f, i, b)
             n == IF i > Len(f) THEN i ELSE Len(f)
             C == Contents(f)
             D == C \ Old(f, i)
  <1>1. /\ Len(f) \in Nat /\ f \in Seq(Block) /\ DOMAIN f = 1 .. Len(f)
        /\ \A j \in 1 .. Len(f) : f[j] \in Block
    BY FileParts DEF Ordered
  <1>2. /\ Len(g) = n /\ g[i] = b /\ i \in 1 .. n /\ n \in Nat /\ n >= Len(f)
        /\ \A j \in 1 .. Len(f) : j # i => g[j] = f[j]
    <2>1. f \in Seq(Block)
      BY <1>1
    <2> HIDE DEF n
    <2>2. /\ g[i] = b /\ \A j \in 1 .. Len(f) : j # i => g[j] = f[j]
          /\ Len(g) = IF i > Len(f) THEN i ELSE Len(f)
      BY <2>1, PutIs
    <2> HIDE DEF g
    <2>3. i \in 1 .. n /\ n \in Nat /\ n >= Len(f)
      BY <1>1 DEF n
    <2>4. QED
      BY <2>2, <2>3 DEF n
  <1>3. Ordered(t, g, m)
    OBVIOUS
  <1> HIDE DEF g
  <1>4. ASSUME NEW x PROVE x \in Contents(g) <=> x \in D \/ x \in b.recs
    <2>1. x \in Contents(g) <=> \E j \in 1 .. n : x \in g[j].recs
      BY <1>2, <1>3, InContents
    <2>2. x \in C <=> \E j \in 1 .. Len(f) : x \in f[j].recs
      BY InContents
    <2>3. ASSUME NEW j \in 1 .. n, x \in g[j].recs PROVE x \in D \/ x \in b.recs
      <3>1. CASE j = i
        BY <1>2, <2>3, <3>1
      <3>2. CASE j # i
        <4>1. j \in 1 .. Len(f) /\ x \in f[j].recs
          BY <1>1, <1>2, <2>3, <3>2
        <4>2. i \in 1 .. Len(f) => x \notin f[i].recs
          BY <3>2, <4>1, BlocksAreDisjoint
        <4>3. QED
          BY <1>1, <2>2, <4>1, <4>2 DEF Old
      <3>3. QED
        BY <3>1, <3>2
    <2>4. ASSUME x \in D PROVE \E j \in 1 .. n : x \in g[j].recs
      <3>1. PICK j \in 1 .. Len(f) : x \in f[j].recs
        BY <2>2, <2>4
      <3>2. j # i
        BY <1>1, <2>4, <3>1 DEF Old
      <3>3. QED
        BY <1>1, <1>2, <3>1, <3>2
    <2>5. QED
      BY <1>2, <2>1, <2>3, <2>4
  <1>5. Contents(g) = D \union b.recs
    BY <1>4
  <1>6. D \intersect b.recs = {}
    <2>1. SUFFICES ASSUME NEW x \in D, x \in b.recs PROVE FALSE
      OBVIOUS
    <2>2. PICK j \in 1 .. Len(f) : x \in f[j].recs
      BY <2>1, InContents
    <2>3. j # i
      BY <1>1, <2>1, <2>2 DEF Old
    <2>4. j \in 1 .. Len(g) /\ i \in 1 .. Len(g) /\ x \in g[j].recs /\ x \in g[i].recs
      BY <1>1, <1>2, <2>1, <2>2, <2>3
    <2>5. QED
      BY <1>3, <2>3, <2>4, BlocksAreDisjoint
  <1>7. Old(f, i) \subseteq C /\ C \in SUBSET Time /\ IsFiniteSet(C) /\ Cardinality(C) \in Nat
    <2>1. ASSUME NEW x \in Old(f, i) PROVE x \in C
      <3>1. i \in 1 .. Len(f) /\ x \in f[i].recs
        BY <1>1, <2>1 DEF Old
      <3>2. QED
        BY <3>1, InContents
    <2>2. QED
      BY <2>1, ContentsAreTimes
  <1>8. /\ IsFiniteSet(Old(f, i)) /\ Cardinality(Old(f, i)) \in Nat
        /\ IsFiniteSet(b.recs) /\ Cardinality(b.recs) \in Nat
    <2>1. Old(f, i) \in SUBSET Time /\ b.recs \in SUBSET Time
      BY <1>7, BlockParts
    <2>2. QED
      BY <2>1, TimesAreFinite
  <1>9. IsFiniteSet(D) /\ Cardinality(D) = Cardinality(C) - Cardinality(Old(f, i))
    <2>1. C \intersect Old(f, i) = Old(f, i)
      BY <1>7
    <2>2. QED
      BY <1>7, <2>1, FS_Difference
  <1>10. Cardinality(D \union b.recs) = Cardinality(D) + Cardinality(b.recs) - Cardinality({})
    BY <1>6, <1>8, <1>9, FS_Union
  <1>11. Cardinality({}) = 0
    BY FS_EmptySet
  <1>12. QED
    BY <1>4, <1>5, <1>7, <1>8, <1>9, <1>10, <1>11 DEF g
-----------------------------------------------------------------------------
(***************************************************************************)
(* A record is written.                                                    *)
(***************************************************************************)
\* The tier is within its limit and the firmware knows its file.
Ready(t, k) ==
  /\ Ordered(t, file[t], k) /\ Len(file[t]) <= Keep(t)
  /\ head[t] = Loaded(t, file[t])

LEMMA CapacityIs ==
  ASSUME NEW t \in Tier, NEW f, Len(f) <= Keep(t), Len(f) \in Nat
  PROVE  LoadedCapacity(t, f) = Capacity[t]
  <1>1. ~ (Len(f) > Limit(Capacity[t]))
    BY Sizes
  <1>2. QED
    BY <1>1 DEF LoadedCapacity

LEMMA ReadyParts ==
  ASSUME NEW t \in Tier, NEW k, Ready(t, k)
  PROVE  /\ Ordered(t, file[t], k) /\ Len(file[t]) <= Keep(t)
         /\ head[t].first = k /\ head[t].count = Cardinality(Contents(file[t]))
         /\ head[t].blocks = Len(file[t]) /\ head[t].capacity = Capacity[t]
         /\ head[t].last = LastRecord(file[t])
         /\ Working(t) = Newest(file[t], k)
         /\ head[t].count = 0 <=> Contents(file[t]) = {}
  <1>1. /\ Ordered(t, file[t], k) /\ Len(file[t]) <= Keep(t)
        /\ head[t] = Loaded(t, file[t])
    BY DEF Ready
  <1>2. /\ head[t].first = k /\ head[t].count = Cardinality(Contents(file[t]))
        /\ head[t].blocks = Len(file[t]) /\ head[t].capacity = Capacity[t]
        /\ head[t].last = LastRecord(file[t])
    BY <1>1, FirstIs, FileParts, CapacityIs DEF Loaded
  <1>3. head[t].count = 0 <=> Contents(file[t]) = {}
    BY <1>1, <1>2, ContentsAreTimes, FS_EmptySet
  <1>4. Working(t) = Newest(file[t], k)
    BY <1>2 DEF Working, Newest
  <1>5. QED
    BY <1>1, <1>2, <1>3, <1>4

LEMMA FreshBlock ==
  ASSUME NEW s \in Nat, NEW x \in Time, s <= x, x < s + Slots, NEW b,
         b = [start |-> s, recs |-> {x}]
  PROVE  b \in Block /\ Filled(b) /\ EndOf(b) = s + Slots
  BY Sizes DEF Block, Filled, EndOf, Time

\* The header that is installed is the one that would be loaded.
LEMMA HeaderIs ==
  ASSUME NEW t \in Tier, NEW k, Ready(t, k), NEW x \in Time,
         NEW i \in 1 .. Len(file[t]) + 1, NEW b \in Block, NEW m,
         Target(t, x) = i, NewBlock(t, x) = b,
         Replaced(t, x) = Old(file[t], i), NextFirst(t, x) = m,
         Ordered(t, PutBlock(file[t], i, b), m), Len(PutBlock(file[t], i, b)) <= Keep(t),
         x \in b.recs, \A y \in b.recs : y <= x, \A y \in Contents(file[t]) : y <= x
  PROVE  NextHeader(t, x) = Loaded(t, PutBlock(file[t], i, b))
  <1> DEFINE f == file[t]
             g == PutBlock(f, i, b)
  <1>1. /\ Ordered(t, f, k) /\ head[t].count = Cardinality(Contents(f))
        /\ head[t].capacity = Capacity[t]
    BY ReadyParts
  <1>2. f \in Seq(Block) /\ Len(f) \in Nat /\ i \in 1 .. Len(f) + 1
    BY <1>1, FileParts DEF Ordered
  <1>3. /\ Contents(g) = (Contents(f) \ Old(f, i)) \union b.recs
        /\ Cardinality(Contents(g)) =
              Cardinality(Contents(f)) - Cardinality(Old(f, i)) + Cardinality(b.recs)
    BY <1>1, ContentsPut
  <1>4. Len(g) = IF i > Len(f) THEN i ELSE Len(f)
    BY <1>2, PutIs
  <1>5. Ordered(t, g, m) /\ Len(g) <= Keep(t)
    OBVIOUS
  <1> HIDE DEF g
  <1>6. FirstBlock(g) = m
    BY <1>5, FirstIs
  <1>7. LastRecord(g) = x
    <2>1. x \in Contents(g) /\ \A y \in Contents(g) : y <= x
      BY <1>3
    <2>2. QED
      BY <1>5, <2>1, LastUnique
  <1>8. LoadedCapacity(t, g) = Capacity[t]
    BY <1>5, FileParts, CapacityIs
  <1>9. NextHeader(t, x) =
          [first |-> m, count |-> Cardinality(Contents(g)), blocks |-> Len(g),
           capacity |-> Capacity[t], last |-> x]
    <2>1. NextCount(t, x) = Cardinality(Contents(g))
      BY <1>1, <1>3 DEF NextCount
    <2>2. (IF Target(t, x) > Len(file[t]) THEN Target(t, x) ELSE Len(file[t])) = Len(g)
      BY <1>4
    <2>3. QED
      BY <1>1, <2>1, <2>2, Zenon DEF NextHeader, NextLast
  <1>10. Loaded(t, g) =
           [first |-> m, count |-> Cardinality(Contents(g)), blocks |-> Len(g),
            capacity |-> Capacity[t], last |-> x]
    BY <1>6, <1>7, <1>8, Zenon DEF Loaded
  <1>11. QED
    BY <1>9, <1>10, Zenon DEF g

\* What a write does to the records of the tier.
Adds(t, f, g, x, now) ==
  \/ x \in Contents(f) /\ Contents(g) = Contents(f)
  \/ /\ \A y \in Contents(f) : y < x
     /\ \/ Contents(g) = Contents(f) \union {x}
        \/ \E e \in Time : /\ e + Capacity[t] <= now
                           /\ Contents(g) = {y \in Contents(f) : y > e} \union {x}

Written(t, x, now) ==
  LET g == PutBlock(file[t], Target(t, x), NewBlock(t, x)) IN
  /\ Target(t, x) \in 1 .. Len(file[t]) + 1 /\ NewBlock(t, x) \in Block
  /\ Len(g) <= Keep(t) /\ \E m \in DOMAIN g : Ordered(t, g, m)
  /\ NextHeader(t, x) = Loaded(t, g)
  /\ Adds(t, file[t], g, x, now)
  /\ \A y \in Contents(g) : y <= x

\* What there is to show of a write of block b at i that makes m the first block.
LEMMA WrittenBy ==
  ASSUME NEW t \in Tier, NEW k, Ready(t, k), NEW x \in Time, NEW now,
         NEW i \in 1 .. Len(file[t]) + 1, NEW b \in Block, NEW m,
         Target(t, x) = i, NewBlock(t, x) = b,
         Replaced(t, x) = Old(file[t], i), NextFirst(t, x) = m,
         Ordered(t, PutBlock(file[t], i, b), m), Len(PutBlock(file[t], i, b)) <= Keep(t),
         x \in b.recs, \A y \in b.recs : y <= x, \A y \in Contents(file[t]) : y <= x,
         (Contents(PutBlock(file[t], i, b)) = (Contents(file[t]) \ Old(file[t], i)) \union b.recs)
           => Adds(t, file[t], PutBlock(file[t], i, b), x, now)
  PROVE  Written(t, x, now)
  <1> DEFINE f == file[t]
             g == PutBlock(f, i, b)
  <1>1. Ordered(t, f, k)
    BY ReadyParts
  <1>2. Contents(g) = (Contents(f) \ Old(f, i)) \union b.recs
    BY <1>1, ContentsPut
  <1>3. NextHeader(t, x) = Loaded(t, g)
    BY HeaderIs
  <1>4. m \in DOMAIN g
    BY DEF Ordered
  <1>5. \A y \in Contents(g) : y <= x
    BY <1>2
  <1>6. Adds(t, f, g, x, now)
    BY <1>2
  <1>7. Len(g) <= Keep(t) /\ Ordered(t, g, m)
    OBVIOUS
  <1> HIDE DEF g
  <1>8. g = PutBlock(file[t], Target(t, x), NewBlock(t, x))
    BY DEF g
  <1>9. QED
    BY <1>3, <1>4, <1>5, <1>6, <1>7, <1>8, Zenon DEF Written

\* A record that has room in the newest block is added to it.
LEMMA WriteInPlace ==
  ASSUME NEW t \in Tier, NEW k, Ready(t, k), NEW x \in Time, x >= head[t].last, NEW now,
         ~ NeedsBlock(t, x)
  PROVE  Written(t, x, now)
  <1> DEFINE f == file[t]
             w == Newest(f, k)
             b == [f[w] EXCEPT !.recs = @ \union {x}]
             g == PutBlock(f, w, b)
  <1>1. /\ Ordered(t, f, k) /\ Len(f) <= Keep(t) /\ Working(t) = w
        /\ head[t].first = k /\ head[t].last = LastRecord(f)
        /\ head[t].count = 0 <=> Contents(f) = {}
    BY ReadyParts
  <1>2. /\ f \in Seq(Block) /\ Len(f) \in Nat /\ DOMAIN f = 1 .. Len(f) /\ k \in Nat /\ 1 <= k
        /\ k <= Len(f)
        /\ \A i \in 1 .. Len(f) : f[i] \in Block
    BY <1>1, FileParts DEF Ordered
  <1>3. w \in 1 .. Len(f)
    BY <1>1, NewestIs
  <1>4. Contents(f) # {} /\ ~ (x >= EndOf(f[w]))
    BY <1>1 DEF NeedsBlock
  <1>5. LastRecord(f) \in f[w].recs /\ f[w].start <= LastRecord(f) /\ LastRecord(f) \in Nat
    BY <1>1, <1>4, LastIsInNewest, LastIs DEF Time
  <1> HIDE DEF w
  <1>6. /\ f[w] \in Block /\ f[w].start \in Nat /\ EndOf(f[w]) \in Nat /\ x \in Nat
    BY <1>2, <1>3, BlockParts DEF Time
  <1>7. f[w].start <= x /\ x < EndOf(f[w])
    BY <1>1, <1>4, <1>5, <1>6
  <1>8. /\ b \in Block /\ b.start = f[w].start /\ b.recs = f[w].recs \union {x}
        /\ EndOf(b) = EndOf(f[w])
    BY <1>6 DEF Block, EndOf
  <1>9. \A i \in 1 .. Len(f) : Filled(f[i])
    <2>1. f[1].recs # {} \/ Len(f) # 1
      BY <1>3, <1>5
    <2>2. QED
      BY <1>1, <1>2, <2>1 DEF Ordered
  <1>10. Filled(b)
    <2>1. f[w].recs \subseteq f[w].start .. EndOf(f[w]) - 1
      BY <1>3, <1>9 DEF Filled
    <2>2. x \in f[w].start .. EndOf(f[w]) - 1
      BY <1>6, <1>7
    <2>3. QED
      BY <1>8, <2>1, <2>2 DEF Filled
  <1> HIDE DEF b
  <1>11. /\ g \in Seq(Block) /\ Len(g) = Len(f) /\ DOMAIN g = 1 .. Len(f) /\ g[w] = b
         /\ \A j \in 1 .. Len(f) : j # w => g[j] = f[j]
    <2>1. w \in 1 .. Len(f) + 1 /\ ~ (w > Len(f))
      BY <1>2, <1>3
    <2>2. f \in Seq(Block) /\ b \in Block
      BY <1>2, <1>8
    <2> HIDE DEF f
    <2>3. /\ g \in Seq(Block) /\ g[w] = b /\ \A j \in 1 .. Len(f) : j # w => g[j] = f[j]
          /\ Len(g) = IF w > Len(f) THEN w ELSE Len(f)
      BY <2>1, <2>2, PutIs
    <2> HIDE DEF g
    <2>4. QED
      BY <2>1, <2>3
  <1>12. Ordered(t, g, k)
    <2> HIDE DEF g
    <2>1. ASSUME NEW i \in 1 .. Len(f) PROVE Filled(g[i])
      BY <1>9, <1>10, <1>11
    <2>2. ASSUME NEW i \in 1 .. Len(f), NEW j \in 1 .. Len(f), Before(i, j, k)
          PROVE  EndOf(g[i]) <= g[j].start
      <3>1. EndOf(f[i]) <= f[j].start
        BY <1>1, <2>2, StartsIncrease
      <3>2. EndOf(g[i]) = EndOf(f[i]) /\ g[j].start = f[j].start
        BY <1>8, <1>11
      <3>3. QED
        BY <3>1, <3>2
    <2>3. k # 1 => Len(f) = Keep(t)
      BY <1>1 DEF Ordered
    <2>4. k \in 1 .. Len(f)
      BY <1>2
    <2>5. QED
      BY <1>11, <2>1, <2>2, <2>3, <2>4 DEF Ordered
  <1>13. \A y \in Contents(f) : y <= x /\ (y < x \/ x \in Contents(f))
    <2>1. ASSUME NEW y \in Contents(f) PROVE y <= x /\ (y < x \/ x \in Contents(f))
      <3>1. y <= LastRecord(f) /\ y \in Nat
        BY <1>1, <2>1, LastIs, ContentsAreTimes DEF Time
      <3>2. QED
        BY <1>1, <1>5, <1>6, <2>1, <3>1
    <2>2. QED
      BY <2>1
  <1>14. f[w].recs \subseteq Contents(f)
    BY <1>1, <1>3, InContents
  <1>15. Old(f, w) = f[w].recs
    BY <1>2, <1>3 DEF Old
  <1>16. ASSUME Contents(g) = (Contents(f) \ Old(f, w)) \union b.recs
         PROVE  Adds(t, f, g, x, now)
    <2>1. Contents(g) = Contents(f) \union {x}
      BY <1>8, <1>14, <1>15, <1>16
    <2>2. CASE x \in Contents(f)
      BY <2>1, <2>2 DEF Adds
    <2>3. CASE x \notin Contents(f)
      BY <1>13, <2>1, <2>3 DEF Adds
    <2>4. QED
      BY <2>2, <2>3
  <1>17. Target(t, x) = w /\ NewBlock(t, x) = b /\ Replaced(t, x) = Old(f, w) /\ NextFirst(t, x) = k
    BY <1>1, <1>15 DEF Target, NewBlock, Replaced, NextFirst, b
  <1>18. x \in b.recs /\ (\A y \in b.recs : y <= x) /\ w \in 1 .. Len(f) + 1
    BY <1>2, <1>3, <1>6, <1>8, <1>13, <1>14
  <1>19. Len(g) <= Keep(t)
    BY <1>1, <1>11
  <1>20. QED
    BY <1>8, <1>12, <1>13, <1>16, <1>17, <1>18, <1>19, WrittenBy

\* Where a new block starts: at a multiple of its length, or at the end of the
\* block before it.
LEMMA NewStartIs ==
  ASSUME NEW t \in Tier, NEW k, Ready(t, k), NEW x \in Time,
         head[t].count = 0 \/ x >= EndOf(file[t][Newest(file[t], k)])
  PROVE  /\ NewStart(t, x) \in Nat /\ NewStart(t, x) <= x /\ x < NewStart(t, x) + Slots
         /\ head[t].count # 0 => EndOf(file[t][Newest(file[t], k)]) <= NewStart(t, x)
  <1> DEFINE aligned == x - (x % Slots)
             end == EndOf(file[t][Newest(file[t], k)])
  <1>1. Ordered(t, file[t], k) /\ Working(t) = Newest(file[t], k)
    BY ReadyParts
  <1>2. end \in Nat
    BY <1>1, NewestIs, FileParts, BlockParts
  <1>3. Slots \in Nat /\ Slots >= 1 /\ x \in Nat
    BY Sizes DEF Time
  <1>4. x % Slots \in 0 .. Slots - 1 /\ x % Slots <= x
    BY <1>3, Z3
  <1>5. aligned \in Nat /\ aligned <= x /\ x < aligned + Slots
    BY <1>3, <1>4
  <1> HIDE DEF aligned
  <1>6. NewStart(t, x) = IF head[t].count # 0 /\ aligned < end THEN end ELSE aligned
    BY <1>1 DEF NewStart, aligned
  <1> HIDE DEF end
  <1>7. head[t].count = 0 \/ x >= end
    BY DEF end
  <1>8. QED
    BY <1>2, <1>3, <1>5, <1>6, <1>7 DEF end

LEMMA NewBlockIs ==
  ASSUME NEW t \in Tier, NEW k, Ready(t, k), NEW x \in Time, NeedsBlock(t, x)
  PROVE  LET b == NewBlock(t, x) IN
         /\ b \in Block /\ Filled(b) /\ b.recs = {x}
         /\ head[t].count # 0 =>
              /\ EndOf(file[t][Newest(file[t], k)]) <= b.start
              /\ EndOf(file[t][Newest(file[t], k)]) <= x
              /\ \A i \in 1 .. Len(file[t]) : Filled(file[t][i])
              /\ \A i \in 1 .. Len(file[t]) : EndOf(file[t][i]) <= b.start
              /\ \A y \in Contents(file[t]) : y < x
  <1> DEFINE f == file[t]
             w == Newest(f, k)
             b == NewBlock(t, x)
  <1>1. /\ Ordered(t, f, k) /\ Working(t) = w
        /\ head[t].count = 0 <=> Contents(f) = {}
    BY ReadyParts
  <1>2. head[t].count = 0 \/ x >= EndOf(f[w])
    BY <1>1 DEF NeedsBlock
  <1>3. b = [start |-> NewStart(t, x), recs |-> {x}]
    BY DEF NewBlock
  <1>4. /\ NewStart(t, x) \in Nat /\ NewStart(t, x) <= x /\ x < NewStart(t, x) + Slots
        /\ head[t].count # 0 => EndOf(f[w]) <= NewStart(t, x)
    BY <1>2, NewStartIs
  <1> HIDE DEF b
  <1>5. b \in Block /\ Filled(b) /\ b.recs = {x} /\ b.start = NewStart(t, x)
    BY <1>3, <1>4, FreshBlock
  <1>6. ASSUME head[t].count # 0
        PROVE  /\ EndOf(f[w]) <= b.start /\ EndOf(f[w]) <= x
               /\ \A i \in 1 .. Len(f) : Filled(f[i])
               /\ \A i \in 1 .. Len(f) : EndOf(f[i]) <= b.start
               /\ \A y \in Contents(f) : y < x
    <2>1. Contents(f) # {} /\ EndOf(f[w]) <= NewStart(t, x) /\ EndOf(f[w]) <= x
      BY <1>1, <1>2, <1>4, <1>6
    <2>2. w \in 1 .. Len(f) /\ \A i \in 1 .. Len(f) : i # w => EndOf(f[i]) <= f[w].start
      BY <1>1, NewestIs
    <2>3. LastRecord(f) \in f[w].recs /\ LastRecord(f) < EndOf(f[w])
      BY <1>1, <2>1, LastIsInNewest
    <2> HIDE DEF w
    <2>4. /\ Len(f) \in Nat /\ DOMAIN f = 1 .. Len(f) /\ \A i \in 1 .. Len(f) : f[i] \in Block
      BY <1>1, FileParts
    <2>5. \A i \in 1 .. Len(f) : Filled(f[i])
      <3>1. f[1].recs # {} \/ Len(f) # 1
        BY <2>2, <2>3
      <3>2. QED
        BY <1>1, <2>4, <3>1 DEF Ordered
    <2>6. ASSUME NEW i \in 1 .. Len(f) PROVE EndOf(f[i]) <= b.start
      <3>1. /\ EndOf(f[i]) \in Nat /\ EndOf(f[w]) \in Nat /\ f[w].start < EndOf(f[w])
            /\ f[w].start \in Nat
        BY <2>2, <2>4, BlockParts
      <3>2. EndOf(f[i]) <= EndOf(f[w])
        BY <2>2, <3>1
      <3>3. QED
        BY <1>4, <1>5, <2>1, <3>1, <3>2
    <2>7. ASSUME NEW y \in Contents(f) PROVE y < x
      <3>1. y <= LastRecord(f) /\ y \in Nat /\ LastRecord(f) \in Nat
        BY <1>1, LastIs, ContentsAreTimes DEF Time
      <3>2. EndOf(f[w]) \in Nat /\ x \in Nat
        BY <2>2, <2>4, BlockParts DEF Time
      <3>3. QED
        BY <2>1, <2>3, <3>1, <3>2
    <2>8. QED
      BY <1>5, <2>1, <2>5, <2>6, <2>7
  <1>7. QED
    BY <1>5, <1>6 DEF b

\* The first record of an empty history.
LEMMA WriteFirst ==
  ASSUME NEW t \in Tier, NEW k, Ready(t, k), NEW x \in Time, NEW now, head[t].count = 0
  PROVE  Written(t, x, now)
  <1> DEFINE f == file[t]
             b == NewBlock(t, x)
             g == PutBlock(f, 1, b)
  <1>1. /\ Ordered(t, f, k) /\ Len(f) <= Keep(t) /\ Working(t) = Newest(f, k)
        /\ head[t].first = k /\ Contents(f) = {}
    BY ReadyParts
  <1>2. NeedsBlock(t, x)
    BY DEF NeedsBlock
  <1>3. b \in Block /\ Filled(b) /\ b.recs = {x}
    BY <1>2, NewBlockIs
  <1>4. Len(f) = 1 /\ k = 1 /\ Newest(f, k) = 1 /\ f[1].recs = {} /\ f \in Seq(Block)
    <2>1. Len(f) = 1 /\ k = 1 /\ f[Newest(f, k)].recs = {}
      BY <1>1, LastIsInNewest
    <2>2. Newest(f, k) = 1
      BY <2>1 DEF Newest
    <2>3. QED
      BY <1>1, <2>1, <2>2 DEF Ordered
  <1> HIDE DEF b
  <1>5. 1 \in 1 .. Len(f) + 1 /\ ~ (1 > Len(f))
    BY <1>4
  <1>6. g \in Seq(Block) /\ Len(g) = 1 /\ DOMAIN g = 1 .. 1 /\ g[1] = b
    <2>1. g = [f EXCEPT ![1] = b]
      BY <1>5 DEF PutBlock
    <2>2. QED
      BY <1>3, <1>4, <2>1
  <1>7. Ordered(t, g, 1)
    <2> HIDE DEF g
    <2>1. ASSUME NEW i \in 1 .. 1, NEW j \in 1 .. 1 PROVE ~ Before(i, j, 1)
      BY DEF Before
    <2>2. \A i \in DOMAIN g : Filled(g[i])
      BY <1>3, <1>6
    <2>3. QED
      BY <1>6, <2>1, <2>2 DEF Ordered
  <1>8. /\ Target(t, x) = 1 /\ Replaced(t, x) = Old(f, 1) /\ NextFirst(t, x) = 1
        /\ NewBlock(t, x) = b
    BY <1>1, <1>2, <1>4 DEF Target, NewIndex, Replaced, NextFirst, Old, b
  <1>9. ASSUME Contents(g) = (Contents(f) \ Old(f, 1)) \union b.recs
        PROVE  Adds(t, f, g, x, now)
    BY <1>1, <1>3, <1>9 DEF Adds
  <1>10. x \in b.recs /\ \A y \in b.recs : y <= x
    BY <1>3 DEF Time
  <1>11. Len(g) <= Keep(t)
    BY <1>1, <1>4, <1>6
  <1>12. \A y \in Contents(f) : y <= x
    BY <1>1
  <1>13. QED
    BY <1>3, <1>5, <1>7, <1>8, <1>9, <1>10, <1>11, <1>12, WrittenBy

\* A ring that is not full gets another block.
LEMMA WriteAppended ==
  ASSUME NEW t \in Tier, NEW k, Ready(t, k), NEW x \in Time, NEW now,
         head[t].count # 0, NeedsBlock(t, x), Len(file[t]) < Keep(t)
  PROVE  Written(t, x, now)
  <1> DEFINE f == file[t]
             n == Len(f)
             b == NewBlock(t, x)
             g == PutBlock(f, n + 1, b)
  <1>1. /\ Ordered(t, f, k) /\ head[t].first = k /\ head[t].capacity = Capacity[t]
    BY ReadyParts
  <1>2. /\ f \in Seq(Block) /\ n \in Nat /\ n >= 1 /\ DOMAIN f = 1 .. n
        /\ k = 1 /\ Keep(t) \in Nat
    BY <1>1, FileParts, Sizes DEF Ordered
  <1>3. /\ b \in Block /\ Filled(b) /\ b.recs = {x}
        /\ \A i \in 1 .. n : Filled(f[i]) /\ EndOf(f[i]) <= b.start
        /\ \A y \in Contents(f) : y < x
    BY NewBlockIs
  <1> HIDE DEF b
  <1>4. n + 1 \in 1 .. Len(f) + 1 /\ n + 1 > Len(f)
    BY <1>2
  <1>5. /\ g \in Seq(Block) /\ Len(g) = n + 1 /\ DOMAIN g = 1 .. n + 1 /\ g[n + 1] = b
        /\ \A j \in 1 .. n : g[j] = f[j]
    <2>1. g = Append(f, b)
      BY <1>4 DEF PutBlock
    <2>2. QED
      BY <1>2, <1>3, <2>1
  <1>6. Ordered(t, g, 1)
    <2> HIDE DEF g
    <2>1. ASSUME NEW i \in 1 .. n + 1 PROVE Filled(g[i])
      <3>1. i = n + 1 \/ i \in 1 .. n
        BY <1>2
      <3>2. QED
        BY <1>3, <1>5, <3>1
    <2>2. ASSUME NEW i \in 1 .. n + 1, NEW j \in 1 .. n + 1, Before(i, j, 1)
          PROVE  EndOf(g[i]) <= g[j].start
      <3>1. i \in 1 .. n /\ (j = n + 1 \/ j \in 1 .. n)
        BY <1>2, <2>2 DEF Before
      <3>2. CASE j = n + 1
        BY <1>3, <1>5, <3>1, <3>2
      <3>3. CASE j \in 1 .. n
        <4>1. EndOf(f[i]) <= f[j].start
          BY <1>1, <1>2, <2>2, <3>1, <3>3, StartsIncrease
        <4>2. QED
          BY <1>5, <3>1, <3>3, <4>1
      <3>4. QED
        BY <3>1, <3>2, <3>3
    <2>3. 1 \in 1 .. n + 1
      BY <1>2
    <2>4. QED
      BY <1>5, <2>1, <2>2, <2>3 DEF Ordered
  <1>7. /\ Target(t, x) = n + 1 /\ Replaced(t, x) = Old(f, n + 1) /\ NextFirst(t, x) = 1
        /\ NewBlock(t, x) = b
    <2>1. Keep(t) = Limit(head[t].capacity)
      BY <1>1, Sizes
    <2>2. Target(t, x) = n + 1
      BY <2>1 DEF Target, NewIndex
    <2>3. Replaced(t, x) = {} /\ Old(f, n + 1) = {}
      BY <1>4, <2>2 DEF Replaced, Old
    <2>4. NextFirst(t, x) = 1
      <3>1. ~ (Target(t, x) <= Len(file[t]))
        BY <1>2, <2>2
      <3>2. head[t].first = 1
        BY <1>1, <1>2
      <3>3. QED
        BY <3>1, <3>2, Zenon DEF NextFirst
    <2>5. QED
      BY <2>2, <2>3, <2>4 DEF b
  <1>8. ASSUME Contents(g) = (Contents(f) \ Old(f, n + 1)) \union b.recs
        PROVE  Adds(t, f, g, x, now)
    <2>1. Old(f, n + 1) = {}
      BY <1>4 DEF Old
    <2>2. QED
      BY <1>3, <1>8, <2>1 DEF Adds
  <1>9. x \in b.recs /\ \A y \in b.recs : y <= x
    BY <1>3 DEF Time
  <1>10. Len(g) <= Keep(t)
    BY <1>2, <1>5
  <1>11. \A y \in Contents(f) : y <= x
    <2>1. ASSUME NEW y \in Contents(f) PROVE y <= x
      <3>1. y \in Nat /\ x \in Nat /\ y < x
        BY <1>1, <1>3, ContentsAreTimes DEF Time
      <3>2. QED
        BY <3>1
    <2>2. QED
      BY <2>1
  <1>12. QED
    BY <1>3, <1>4, <1>6, <1>7, <1>8, <1>9, <1>10, <1>11, WrittenBy

LEMMA AroundRing ==
  ASSUME NEW n \in Nat, n >= 1, NEW r \in 0 .. n - 1
  PROVE  r % n = r /\ (r + n) % n = r
  BY Z3

\* The oldest block of a full ring has left the window when the newest is over.
LEMMA OldestIsOld ==
  ASSUME NEW t \in Tier, NEW f, NEW k, Ordered(t, f, k), Len(f) = Keep(t)
  PROVE  EndOf(f[k]) + Capacity[t] <= EndOf(f[Newest(f, k)])
  <1> DEFINE n == Len(f)
             h == [i \in 1 .. n |-> Logical(f, k, i)]
  <1>1. /\ n \in Nat /\ n >= 1 /\ DOMAIN f = 1 .. n /\ k \in Nat /\ 1 <= k /\ k <= n
        /\ \A i \in 1 .. n : f[i] \in Block
    BY FileParts
  <1>2. n >= 2 /\ (n - 1) * Slots >= Capacity[t] /\ Slots \in Nat /\ Capacity[t] \in Nat
    BY KeepIsEnough, Sizes
  <1>3. InOrder(f, k)
    BY OrderedLoads, FirstIs DEF Loadable
  <1>4. ASSUME NEW i \in 1 .. n PROVE ((k - 1 + i - 1) % n) + 1 \in 1 .. n
    BY <1>1
  <1>5. \A i \in 1 .. n : h[i] \in Block
    BY <1>1, <1>4 DEF Logical
  <1>6. \A i \in 1 .. n - 1 : EndOf(h[i]) <= h[i + 1].start
    BY <1>1, <1>3 DEF InOrder
  <1>7. 1 \in 1 .. n /\ n \in 1 .. n /\ 1 <= n
    BY <1>1
  <1>8. h[1] = f[k] /\ h[n] = f[Newest(f, k)]
    <2> HIDE DEF n
    <2>1. (k - 1 + 1 - 1) % n = k - 1
      BY <1>1
    <2>2. (k - 1 + n - 1) % n = IF k = 1 THEN n - 1 ELSE k - 2
      <3>1. CASE k = 1
        <4>1. k - 1 + n - 1 = n - 1 /\ n - 1 \in 0 .. n - 1
          BY <1>1, <3>1
        <4>2. (n - 1) % n = n - 1
          BY <1>1, <4>1, AroundRing
        <4>3. QED
          BY <3>1, <4>1, <4>2
      <3>2. CASE k # 1
        <4>1. k - 1 + n - 1 = (k - 2) + n /\ k - 2 \in 0 .. n - 1
          BY <1>1, <3>2
        <4>2. ((k - 2) + n) % n = k - 2
          BY <1>1, <4>1, AroundRing
        <4>3. QED
          BY <3>2, <4>1, <4>2
      <3>3. QED
        BY <3>1, <3>2
    <2>3. h[1] = f[((k - 1 + 1 - 1) % n) + 1] /\ h[n] = f[((k - 1 + n - 1) % n) + 1]
      BY <1>7 DEF Logical, n
    <2>4. (k - 1) + 1 = k /\ (n - 1) + 1 = n /\ (k - 2) + 1 = k - 1
      BY <1>1
    <2>5. QED
      BY <2>1, <2>2, <2>3, <2>4 DEF Newest, n
  <1> HIDE DEF h, n
  <1>9. h[1].start + (n - 1) * Slots <= h[n].start
    BY <1>1, <1>5, <1>6, <1>7, Apart
  <1>10. /\ h[1].start \in Nat /\ h[n].start \in Nat
         /\ EndOf(h[1]) = h[1].start + Slots /\ EndOf(h[n]) = h[n].start + Slots
    BY <1>5, <1>7, BlockParts
  <1> DEFINE apart == (n - 1) * Slots
  <1>11. apart \in Int /\ apart >= Capacity[t] /\ h[1].start + apart <= h[n].start
    BY <1>1, <1>2, <1>9, Z3
  <1> HIDE DEF apart
  <1>12. EndOf(h[1]) + Capacity[t] <= EndOf(h[n])
    BY <1>2, <1>10, <1>11
  <1>13. QED
    BY <1>8, <1>12

\* A full ring reuses its oldest block, and the next one is the first.
LEMMA WriteReused ==
  ASSUME NEW t \in Tier, NEW k, Ready(t, k), NEW x \in Time, NEW now \in Time, x <= now,
         head[t].count # 0, NeedsBlock(t, x), Len(file[t]) = Keep(t)
  PROVE  Written(t, x, now)
  <1> DEFINE f == file[t]
             n == Len(f)
             m == (k % n) + 1
             b == NewBlock(t, x)
             g == PutBlock(f, k, b)
  <1>1. /\ Ordered(t, f, k) /\ head[t].first = k /\ head[t].capacity = Capacity[t]
    BY ReadyParts
  <1>2. /\ f \in Seq(Block) /\ n \in Nat /\ n >= 2 /\ DOMAIN f = 1 .. n
        /\ k \in Nat /\ 1 <= k /\ k <= n /\ k \in 1 .. n
        /\ \A i \in 1 .. n : f[i] \in Block
    BY <1>1, FileParts, KeepIsEnough DEF Ordered
  <1>3. /\ b \in Block /\ Filled(b) /\ b.recs = {x}
        /\ \A i \in 1 .. n : Filled(f[i]) /\ EndOf(f[i]) <= b.start
        /\ EndOf(f[Newest(f, k)]) <= x
        /\ \A y \in Contents(f) : y < x
    BY NewBlockIs
  <1> HIDE DEF b
  <1>4. k \in 1 .. Len(f) + 1 /\ ~ (k > Len(f)) /\ k <= Len(f)
    BY <1>2
  <1>5. /\ g \in Seq(Block) /\ Len(g) = n /\ DOMAIN g = 1 .. n /\ g[k] = b
        /\ \A j \in 1 .. n : j # k => g[j] = f[j]
    <2>1. g = [f EXCEPT ![k] = b]
      BY <1>4 DEF PutBlock
    <2>2. QED
      BY <1>2, <1>3, <2>1
  <1>6. m = IF k = n THEN 1 ELSE k + 1
    <2> HIDE DEF n
    <2>1. CASE k = n
      <3>1. (0 + n) % n = 0
        BY <1>2, AroundRing
      <3>2. QED
        BY <1>2, <2>1, <3>1
    <2>2. CASE k # n
      <3>1. k \in 0 .. n - 1
        BY <1>2, <2>2
      <3>2. k % n = k
        BY <1>2, <3>1, AroundRing
      <3>3. QED
        BY <2>2, <3>2
    <2>3. QED
      BY <2>1, <2>2
  <1> HIDE DEF m
  <1>7. Ordered(t, g, m)
    <2> HIDE DEF g
    <2>1. ASSUME NEW i \in 1 .. n PROVE Filled(g[i])
      BY <1>3, <1>5
    <2>2. ASSUME NEW i \in 1 .. n, NEW j \in 1 .. n, Before(i, j, m)
          PROVE  EndOf(g[i]) <= g[j].start
      <3>1. i # k
        BY <1>2, <1>6, <2>2 DEF Before
      <3>2. CASE j = k
        BY <1>3, <1>5, <3>1, <3>2
      <3>3. CASE j # k
        <4>1. Before(i, j, k)
          BY <1>2, <1>6, <2>2, <3>1, <3>3 DEF Before
        <4>2. EndOf(f[i]) <= f[j].start
          BY <1>1, <4>1, StartsIncrease
        <4>3. QED
          BY <1>5, <3>1, <3>3, <4>2
      <3>4. QED
        BY <3>2, <3>3
    <2>3. m \in 1 .. n
      BY <1>2, <1>6
    <2>4. QED
      BY <1>5, <2>1, <2>2, <2>3 DEF Ordered
  <1>8. Target(t, x) = k
    <2>1. ~ (Len(f) < Limit(head[t].capacity))
      BY <1>1, <1>2, Sizes
    <2>2. QED
      BY <1>1, <2>1, Zenon DEF Target, NewIndex
  <1>9. /\ Replaced(t, x) = Old(f, k) /\ NextFirst(t, x) = m
        /\ NewBlock(t, x) = b
    <2>1. Replaced(t, x) = f[k].recs /\ Old(f, k) = f[k].recs
      BY <1>4, <1>8, Zenon DEF Replaced, Old
    <2>2. NextFirst(t, x) = m
      BY <1>4, <1>8, Zenon DEF NextFirst, m
    <2>3. QED
      BY <2>1, <2>2 DEF b
  <1>10. ASSUME Contents(g) = (Contents(f) \ Old(f, k)) \union b.recs
         PROVE  Adds(t, f, g, x, now)
    <2> DEFINE e == EndOf(f[k]) - 1
    <2>1. EndOf(f[k]) + Capacity[t] <= EndOf(f[Newest(f, k)])
      BY <1>1, OldestIsOld
    <2>2. /\ EndOf(f[k]) \in Nat /\ EndOf(f[k]) > f[k].start /\ f[k].start \in Nat
          /\ EndOf(f[Newest(f, k)]) \in Nat
      BY <1>1, <1>2, NewestIs, BlockParts
    <2>3. Capacity[t] \in Nat /\ MaxTime \in Nat /\ x \in Nat /\ now \in Nat /\ now <= MaxTime
      BY Sizes DEF Time
    <2>4. e \in Time /\ e + Capacity[t] <= now
      BY <1>3, <2>1, <2>2, <2>3 DEF Time
    <2>5. ASSUME NEW y \in Contents(f) PROVE y > e <=> y \notin Old(f, k)
      <3>1. PICK i \in 1 .. n : y \in f[i].recs
        BY <1>1, <2>5, InContents
      <3>2. y \in Nat /\ f[i].start <= y /\ y < EndOf(f[i]) /\ f[i].start \in Nat
        BY <1>1, <1>2, <3>1, RecordsInBlock, BlockParts
      <3>3. Old(f, k) = f[k].recs
        BY <1>4 DEF Old
      <3>4. CASE i = k
        <4>1. ~ (y > e)
          BY <2>2, <3>2, <3>4
        <4>2. QED
          BY <3>1, <3>3, <3>4, <4>1
      <3>5. CASE i # k
        <4>1. Before(k, i, k)
          BY <1>2, <3>5 DEF Before
        <4>2. EndOf(f[k]) <= f[i].start
          BY <1>1, <1>2, <4>1, StartsIncrease
        <4>3. y > e
          BY <2>2, <3>2, <4>2
        <4>4. y \notin f[k].recs
          BY <1>1, <1>2, <3>1, <3>5, BlocksAreDisjoint
        <4>5. QED
          BY <3>3, <4>3, <4>4
      <3>6. QED
        BY <3>4, <3>5
    <2> HIDE DEF e
    <2>6. Contents(g) = {y \in Contents(f) : y > e} \union {x}
      BY <1>3, <1>10, <2>5
    <2>7. QED
      BY <1>3, <2>4, <2>6 DEF Adds
  <1>11. x \in b.recs /\ \A y \in b.recs : y <= x
    BY <1>3 DEF Time
  <1>12. Len(g) <= Keep(t)
    BY <1>5, Sizes
  <1>13. \A y \in Contents(f) : y <= x
    <2>1. ASSUME NEW y \in Contents(f) PROVE y <= x
      <3>1. y \in Nat /\ x \in Nat /\ y < x
        BY <1>1, <1>3, ContentsAreTimes DEF Time
      <3>2. QED
        BY <3>1
    <2>2. QED
      BY <2>1
  <1>14. QED
    BY <1>3, <1>4, <1>7, <1>8, <1>9, <1>10, <1>11, <1>12, <1>13, WrittenBy

\* Whatever the ring, a record that is not older than the last one is written.
LEMMA WriteKeeps ==
  ASSUME NEW t \in Tier, NEW k, Ready(t, k), NEW x \in Time, NEW now \in Time, x <= now,
         x >= head[t].last
  PROVE  Written(t, x, now)
  <1>1. Len(file[t]) \in Nat /\ Keep(t) \in Nat /\ Len(file[t]) <= Keep(t)
    BY ReadyParts, FileParts, Sizes
  <1>2. CASE ~ NeedsBlock(t, x)
    BY <1>2, WriteInPlace
  <1>3. CASE head[t].count = 0
    BY <1>3, WriteFirst
  <1>4. CASE NeedsBlock(t, x) /\ head[t].count # 0 /\ Len(file[t]) < Keep(t)
    BY <1>4, WriteAppended
  <1>5. CASE NeedsBlock(t, x) /\ head[t].count # 0 /\ Len(file[t]) = Keep(t)
    BY <1>5, WriteReused
  <1>6. QED
    BY <1>1, <1>2, <1>3, <1>4, <1>5
-----------------------------------------------------------------------------
(***************************************************************************)
(* The flash: each durable step leaves what the journals make of the file, *)
(* except the two that commit a record or the removal of old blocks.       *)
(***************************************************************************)
Cell == Block \union {Torn}

Writing == [tier : Tier, index : Nat, block : Block]

Shrinking == [tier : Tier, drop : Nat, total : Nat, cursor : Nat]

LEMMA PlaceOf ==
  ASSUME NEW t \in Tier, NEW f \in Seq(Cell), NEW p \in Writing, NEW s \in Shrinking \union {None},
         NEW now, FlashOK(t, f, p, s, now)
  PROVE  /\ p # None /\ p.index \in 1 .. Len(f) + 1 /\ p.block \in Block
         /\ s # None => /\ Len(f) = s.total /\ p.index \in 1 .. Len(f)
                        /\ p.index = s.cursor + 1 /\ s.cursor < Keep(t)
  <1>1. p # None /\ p.index \in Nat /\ p.block \in Block /\ Len(f) \in Nat /\ Keep(t) \in Nat
    BY KindAssumption, Sizes DEF Writing
  <1>2. CASE s = None
    BY <1>1, <1>2 DEF FlashOK
  <1>3. CASE s # None
    <2>1. s.drop \in Nat /\ s.total \in Nat /\ s.cursor \in Nat
      BY <1>3 DEF Shrinking
    <2>2. /\ s.drop > 0 /\ s.total - s.drop = Keep(t) /\ s.cursor < Keep(t)
          /\ p.index = s.cursor + 1
          /\ Len(f) = s.total \/ (s.cursor = Keep(t) /\ Len(f) = Keep(t))
      BY <1>1, <1>3 DEF FlashOK
    <2>3. QED
      BY <1>1, <1>3, <2>1, <2>2
  <1>4. QED
    BY <1>2, <1>3

LEMMA FlashLater ==
  ASSUME NEW t \in Tier, NEW f, NEW p, NEW s, NEW now \in Time, NEW later \in Time, now <= later,
         FlashOK(t, f, p, s, now)
  PROVE  FlashOK(t, f, p, s, later)
  <1> DEFINE v == Replays(f, p, s)
  <1>1. PICK k \in DOMAIN v : Ordered(t, v, k)
    BY DEF FlashOK
  <1>2. ASSUME NEW x \in Contents(v) PROVE x <= later
    <2>1. x \in Nat /\ now \in Nat /\ later \in Nat
      BY <1>1, ContentsAreTimes DEF Time
    <2>2. x <= now
      BY DEF FlashOK
    <2>3. QED
      BY <2>1, <2>2
  <1>3. QED
    BY <1>1, <1>2 DEF FlashOK

\* A block put in place, or half of it, is still what the journal makes of it.
LEMMA FlashPlaced ==
  ASSUME NEW t \in Tier, NEW f \in Seq(Cell), NEW p \in Writing, NEW s \in Shrinking \union {None},
         NEW now, FlashOK(t, f, p, s, now), NEW c \in {Torn, p.block}
  PROVE  LET g == PutBlock(f, p.index, c) IN
         /\ g \in Seq(Cell) /\ p.index \in 1 .. Len(g) /\ g[p.index] = c
         /\ Replays(g, p, s) = Replays(f, p, s)
         /\ FlashOK(t, g, p, s, now)
  <1> DEFINE i == p.index
             b == p.block
             g == PutBlock(f, i, c)
  <1>1. /\ p # None /\ i \in 1 .. Len(f) + 1 /\ b \in Cell /\ c \in Cell
        /\ s # None => Len(f) = s.total /\ i \in 1 .. Len(f) /\ i = s.cursor + 1 /\ s.cursor < Keep(t)
    BY PlaceOf DEF Cell
  <1> HIDE DEF i, b
  <1>2. /\ g \in Seq(Cell) /\ g[i] = c
        /\ \A j \in 1 .. Len(f) : j # i => g[j] = f[j]
        /\ Len(g) = IF i > Len(f) THEN i ELSE Len(f)
    BY <1>1, PutIs
  <1>3. i \in 1 .. Len(g) /\ PutBlock(g, i, b) = PutBlock(f, i, b)
    BY <1>1, PutPut
  <1> HIDE DEF g
  <1>4. Put(g, p) = Put(f, p)
    BY <1>1, <1>3, Zenon DEF Put, i, b
  <1>5. Replays(g, p, s) = Replays(f, p, s)
    BY <1>4, Zenon DEF Replays
  <1>6. CASE s = None
    <2>1. i \in 1 .. Len(g) + 1
      BY <1>2, <1>3
    <2>2. QED
      BY <1>2, <1>3, <1>5, <1>6, <2>1, Zenon DEF FlashOK, i, g
  <1>7. CASE s # None
    <2>1. Len(g) = Len(f)
      BY <1>1, <1>2, <1>7
    <2>2. s.drop \in Nat /\ s.cursor \in Nat /\ s.total \in Nat
      BY <1>7 DEF Shrinking
    <2>3. /\ s.drop > 0 /\ s.total - s.drop = Keep(t) /\ s.cursor <= Keep(t)
          /\ p.block = f[s.drop + s.cursor + 1]
      BY <1>1, <1>7 DEF FlashOK
    <2>4. s.drop + s.cursor + 1 \in 1 .. Len(f) /\ s.drop + s.cursor + 1 # i
      BY <1>1, <1>7, <2>2, <2>3, Sizes
    <2>5. p.block = g[s.drop + s.cursor + 1]
      BY <1>2, <2>3, <2>4
    <2>6. FlashOK(t, g, p, s, now)
      BY <1>5, <1>7, <2>1, <2>5, Zenon DEF FlashOK
    <2>7. QED
      BY <1>2, <1>3, <1>5, <2>6 DEF i, g
  <1>8. QED
    BY <1>6, <1>7

\* The write journal may go once its block is in place.
LEMMA FlashUnlinked ==
  ASSUME NEW t \in Tier, NEW f \in Seq(Cell), NEW p \in Writing, NEW s \in Shrinking \union {None},
         NEW now, FlashOK(t, f, p, s, now), p.index \in 1 .. Len(f), f[p.index] = p.block
  PROVE  /\ Replays(f, None, s) = Replays(f, p, s)
         /\ FlashOK(t, f, None, s, now)
         /\ s # None => s.cursor < Keep(t) /\ f[s.cursor + 1] = f[s.drop + s.cursor + 1]
  <1>1. p # None /\ p.block \in Cell
    BY PlaceOf DEF Cell
  <1>2. PutBlock(f, p.index, p.block) = f
    BY <1>1, PutSame
  <1>3. Put(f, None) = Put(f, p)
    BY <1>2 DEF Put
  <1>4. Replays(f, None, s) = Replays(f, p, s)
    BY <1>3, Zenon DEF Replays
  <1>5. FlashOK(t, f, None, s, now)
    BY <1>4, Zenon DEF FlashOK
  <1>6. s # None => s.cursor < Keep(t) /\ f[s.cursor + 1] = f[s.drop + s.cursor + 1]
    BY <1>1, Zenon DEF FlashOK
  <1>7. QED
    BY <1>4, <1>5, <1>6

LEMMA ShrinkingIs ==
  ASSUME NEW t \in Tier, NEW f, NEW s, s # None, s.total - s.drop = Keep(t)
  PROVE  Replays(f, None, s) =
           [i \in 1 .. Keep(t) |-> IF i <= s.cursor THEN f[i] ELSE f[s.drop + i]]
  BY DEF Replays, Put

LEMMA ShrinkParts ==
  ASSUME NEW t \in Tier, NEW f \in Seq(Cell), NEW s \in Shrinking,
         NEW now, FlashOK(t, f, None, s, now)
  PROVE  /\ s # None /\ s.drop \in Nat /\ s.total \in Nat /\ s.cursor \in Nat /\ Keep(t) \in Nat
         /\ Keep(t) >= 2 /\ Len(f) \in Nat /\ s.drop > 0 /\ s.total = s.drop + Keep(t)
         /\ s.cursor <= Keep(t)
         /\ Len(f) = s.total \/ (s.cursor = Keep(t) /\ Len(f) = Keep(t))
         /\ Replays(f, None, s) =
              [i \in 1 .. Keep(t) |-> IF i <= s.cursor THEN f[i] ELSE f[s.drop + i]]
  <1>1. s # None /\ s.drop \in Nat /\ s.total \in Nat /\ s.cursor \in Nat
    BY KindAssumption DEF Shrinking
  <1>2. Keep(t) \in Nat /\ Keep(t) >= 2 /\ Len(f) \in Nat
    BY Sizes, KeepIsEnough
  <1>3. /\ s.drop > 0 /\ s.total - s.drop = Keep(t) /\ s.cursor <= Keep(t)
        /\ Len(f) = s.total \/ (s.cursor = Keep(t) /\ Len(f) = Keep(t))
    BY <1>1 DEF FlashOK
  <1>4. Replays(f, None, s) =
              [i \in 1 .. Keep(t) |-> IF i <= s.cursor THEN f[i] ELSE f[s.drop + i]]
    BY <1>1, <1>3 DEF Replays, Put
  <1>5. QED
    BY <1>1, <1>2, <1>3, <1>4

\* The copy of a block that stays is a block, and the file is as long as it was.
LEMMA NextPlace ==
  ASSUME NEW c \in Nat, NEW d \in Nat, NEW n \in Nat, c < n
  PROVE  c + 1 \in 1 .. n /\ ~ (c + 1 <= c) /\ d + (c + 1) = d + c + 1
  OBVIOUS

LEMMA FlashCopied ==
  ASSUME NEW t \in Tier, NEW f \in Seq(Cell), NEW s \in Shrinking, NEW now,
         FlashOK(t, f, None, s, now), s.cursor < Keep(t), NEW p,
         p = [tier |-> t, index |-> s.cursor + 1, block |-> f[s.drop + s.cursor + 1]]
  PROVE  /\ Len(f) = s.total /\ f[s.drop + s.cursor + 1] # Torn /\ p \in Writing
         /\ Replays(f, p, s) = Replays(f, None, s)
         /\ FlashOK(t, f, p, s, now)
  <1> DEFINE v == Replays(f, None, s)
             i == s.cursor + 1
             b == f[s.drop + s.cursor + 1]
  <1>1. /\ s # None /\ s.drop \in Nat /\ s.total \in Nat /\ s.cursor \in Nat /\ Keep(t) \in Nat
        /\ Keep(t) >= 2 /\ Len(f) \in Nat /\ s.drop > 0 /\ s.total = s.drop + Keep(t)
        /\ s.cursor <= Keep(t)
        /\ Len(f) = s.total
        /\ v = [j \in 1 .. Keep(t) |-> IF j <= s.cursor THEN f[j] ELSE f[s.drop + j]]
    BY ShrinkParts
  <1>2. PICK k \in DOMAIN v : Ordered(t, v, k)
    BY DEF FlashOK
  <1>3. b \in Block
    <2>1. i \in 1 .. Keep(t) /\ ~ (i <= s.cursor) /\ s.drop + i = s.drop + s.cursor + 1
      <3>1. s.cursor \in Nat /\ s.drop \in Nat /\ Keep(t) \in Nat /\ s.cursor < Keep(t)
        BY <1>1, Zenon
      <3> HIDE DEF v, b
      <3>2. QED
        BY <3>1, NextPlace, Zenon
    <2>2. v[i] = b
      BY <1>1, <2>1
    <2>3. Len(v) = Keep(t)
      BY <1>1
    <2> HIDE DEF v, i, b
    <2>4. i \in 1 .. Len(v)
      BY <2>1, <2>3
    <2>5. QED
      BY <1>2, <2>2, <2>4, FileParts
  <1>4. p \in Writing /\ p # None /\ p.index = i /\ p.block = b /\ b # Torn
    <2>1. p \in Writing
      BY <1>1, <1>3, Sizes DEF Writing
    <2>2. QED
      BY <1>3, <2>1, KindAssumption DEF Writing
  <1> DEFINE g == PutBlock(f, i, b)
  <1>5. \A j \in 1 .. Len(f) : j # i => g[j] = f[j]
    <2>1. i \in 1 .. Len(f) + 1 /\ b \in Cell
      BY <1>1, <1>3 DEF Cell
    <2> HIDE DEF i, b
    <2>2. QED
      BY <2>1, PutIs
  <1>6. Put(f, p) = g
    BY <1>4 DEF Put
  <1> HIDE DEF g
  <1>7. Replays(f, p, s) = v
    <2>1. Replays(f, p, s) = [j \in 1 .. Keep(t) |-> IF j <= s.cursor THEN g[j] ELSE g[s.drop + j]]
      BY <1>1, <1>6 DEF Replays
    <2>2. ASSUME NEW j \in 1 .. Keep(t)
          PROVE  (IF j <= s.cursor THEN g[j] ELSE g[s.drop + j])
                   = (IF j <= s.cursor THEN f[j] ELSE f[s.drop + j])
      <3>1. CASE j <= s.cursor
        <4>1. j \in 1 .. Len(f) /\ j # i
          BY <1>1, <3>1
        <4>2. QED
          BY <1>5, <3>1, <4>1
      <3>2. CASE ~ (j <= s.cursor)
        <4>1. s.drop + j \in 1 .. Len(f) /\ s.drop + j # i
          BY <1>1, <3>2
        <4>2. QED
          BY <1>5, <3>2, <4>1
      <3>3. QED
        BY <3>1, <3>2
    <2>3. QED
      BY <1>1, <2>1, <2>2
  <1> HIDE DEF v
  <1>8. FlashOK(t, f, p, s, now)
    <2>1. \A x \in Contents(v) : x <= now
      BY DEF FlashOK, v
    <2>2. QED
      BY <1>1, <1>2, <1>4, <1>7, <2>1 DEF FlashOK
  <1>9. QED
    BY <1>1, <1>4, <1>7, <1>8 DEF v

LEMMA FlashAdvanced ==
  ASSUME NEW t \in Tier, NEW f \in Seq(Cell), NEW s \in Shrinking, NEW now,
         FlashOK(t, f, None, s, now), s.cursor < Keep(t),
         f[s.cursor + 1] = f[s.drop + s.cursor + 1],
         NEW r \in Shrinking, r.drop = s.drop, r.total = s.total, r.cursor = s.cursor + 1
  PROVE  /\ Replays(f, None, r) = Replays(f, None, s)
         /\ FlashOK(t, f, None, r, now)
  <1> DEFINE v == Replays(f, None, s)
  <1>1. /\ s # None /\ s.drop \in Nat /\ s.total \in Nat /\ s.cursor \in Nat /\ Keep(t) \in Nat
        /\ Keep(t) >= 2 /\ Len(f) \in Nat /\ s.drop > 0 /\ s.total = s.drop + Keep(t)
        /\ s.cursor <= Keep(t)
        /\ Len(f) = s.total
    BY ShrinkParts
  <1>2. v = [j \in 1 .. Keep(t) |-> IF j <= s.cursor THEN f[j] ELSE f[s.drop + j]]
    BY ShrinkParts
  <1>3. r.drop = s.drop /\ r.total = s.total /\ r.cursor = s.cursor + 1
    OBVIOUS
  <1>4. r # None
    BY KindAssumption DEF Shrinking
  <1>5. Replays(f, None, r) = v
    <2>1. Replays(f, None, r) = [j \in 1 .. Keep(t) |-> IF j <= r.cursor
                                                          THEN f[j] ELSE f[r.drop + j]]
      <3>1. r.total - r.drop = Keep(t)
        BY <1>1, <1>3
      <3>2. QED
        BY <1>4, <3>1, ShrinkingIs
    <2>2. ASSUME NEW j \in 1 .. Keep(t)
          PROVE  (IF j <= r.cursor THEN f[j] ELSE f[r.drop + j])
                   = (IF j <= s.cursor THEN f[j] ELSE f[s.drop + j])
      <3>1. CASE j = s.cursor + 1
        <4> HIDE DEF v
        <4>1. s.cursor \in Nat /\ s.drop \in Nat /\ Keep(t) \in Nat
          BY <1>1, Zenon
        <4>2. /\ s.cursor + 1 <= r.cursor /\ ~ (s.cursor + 1 <= s.cursor)
              /\ s.drop + (s.cursor + 1) = s.drop + s.cursor + 1
          <5>1. ~ (s.cursor + 1 <= s.cursor) /\ s.drop + (s.cursor + 1) = s.drop + s.cursor + 1
            BY <4>1, NextPlace, Zenon
          <5>2. s.cursor + 1 <= r.cursor
            BY <1>3, <4>1
          <5>3. QED
            BY <5>1, <5>2
        <4>3. j <= r.cursor /\ ~ (j <= s.cursor) /\ s.drop + j = s.drop + s.cursor + 1
          BY <3>1, <4>2
        <4>4. QED
          BY <3>1, <4>3
      <3>2. CASE j # s.cursor + 1
        <4>1. j <= r.cursor <=> j <= s.cursor
          BY <1>1, <1>3, <3>2
        <4>2. QED
          BY <1>3, <4>1
      <3>3. QED
        BY <3>1, <3>2
    <2>3. QED
      BY <1>2, <2>1, <2>2
  <1>6. /\ \E k \in DOMAIN v : Ordered(t, v, k)
        /\ \A x \in Contents(v) : x <= now
    BY DEF FlashOK
  <1> HIDE DEF v
  <1>7. FlashOK(t, f, None, r, now)
    <2>1. r.drop > 0 /\ r.total - r.drop = Keep(t) /\ r.cursor <= Keep(t) /\ Len(f) = r.total
      BY <1>1, <1>3
    <2>2. QED
      BY <1>5, <1>6, <2>1, Zenon DEF FlashOK
  <1>8. QED
    BY <1>5, <1>7 DEF v

LEMMA FlashTruncated ==
  ASSUME NEW t \in Tier, NEW f \in Seq(Cell), NEW s \in Shrinking, NEW now,
         FlashOK(t, f, None, s, now), s.cursor = Keep(t)
  PROVE  LET g == SubSeq(f, 1, Keep(t)) IN
         /\ g \in Seq(Cell) /\ Len(g) = Keep(t)
         /\ Replays(g, None, s) = Replays(f, None, s)
         /\ FlashOK(t, g, None, s, now)
  <1> DEFINE v == Replays(f, None, s)
             g == SubSeq(f, 1, Keep(t))
  <1>1. /\ s # None /\ s.drop \in Nat /\ s.total \in Nat /\ s.cursor \in Nat /\ Keep(t) \in Nat
        /\ Keep(t) >= 2 /\ Len(f) \in Nat /\ s.drop > 0 /\ s.total = s.drop + Keep(t)
        /\ Len(f) >= Keep(t)
    BY ShrinkParts
  <1>2. v = [j \in 1 .. Keep(t) |-> IF j <= s.cursor THEN f[j] ELSE f[s.drop + j]]
    BY ShrinkParts
  <1>3. g \in Seq(Cell) /\ Len(g) = Keep(t) /\ \A j \in 1 .. Keep(t) : g[j] = f[j]
    BY <1>1
  <1> HIDE DEF g
  <1>4. Replays(g, None, s) = v
    <2>1. Replays(g, None, s) = [j \in 1 .. Keep(t) |-> IF j <= s.cursor
                                                          THEN g[j] ELSE g[s.drop + j]]
      BY <1>1 DEF Replays, Put
    <2>2. ASSUME NEW j \in 1 .. Keep(t)
          PROVE  (IF j <= s.cursor THEN g[j] ELSE g[s.drop + j])
                   = (IF j <= s.cursor THEN f[j] ELSE f[s.drop + j])
      BY <1>1, <1>3
    <2>3. QED
      BY <1>2, <2>1, <2>2
  <1>5. /\ \E k \in DOMAIN v : Ordered(t, v, k)
        /\ \A x \in Contents(v) : x <= now
    BY DEF FlashOK
  <1> HIDE DEF v
  <1>6. FlashOK(t, g, None, s, now)
    <2>1. s.drop > 0 /\ s.total - s.drop = Keep(t) /\ s.cursor <= Keep(t)
      BY <1>1
    <2>2. QED
      BY <1>3, <1>4, <1>5, <2>1, Zenon DEF FlashOK
  <1>7. QED
    BY <1>3, <1>4, <1>6 DEF g, v

LEMMA FlashForgotten ==
  ASSUME NEW t \in Tier, NEW f \in Seq(Cell), NEW s \in Shrinking, NEW now,
         FlashOK(t, f, None, s, now), s.cursor = Keep(t), Len(f) = Keep(t)
  PROVE  /\ Replays(f, None, None) = Replays(f, None, s)
         /\ FlashOK(t, f, None, None, now)
  <1> DEFINE v == Replays(f, None, s)
  <1>1. v = [j \in 1 .. Keep(t) |-> IF j <= s.cursor THEN f[j] ELSE f[s.drop + j]]
    BY ShrinkParts
  <1>2. v = [j \in 1 .. Keep(t) |-> f[j]]
    BY <1>1
  <1>3. v = f
    BY <1>2
  <1>4. Replays(f, None, None) = f
    BY DEF Replays, Put
  <1>5. /\ \E k \in DOMAIN v : Ordered(t, v, k)
        /\ \A x \in Contents(v) : x <= now
    BY DEF FlashOK
  <1> HIDE DEF v
  <1>6. FlashOK(t, f, None, None, now)
    BY <1>3, <1>4, <1>5, Zenon DEF FlashOK
  <1>7. QED
    BY <1>3, <1>4, <1>6 DEF v

\* A file without journals is in order itself.
LEMMA FlashPlain ==
  ASSUME NEW t \in Tier, NEW f, NEW now, FlashOK(t, f, None, None, now)
  PROVE  /\ Replays(f, None, None) = f
         /\ \A x \in Contents(f) : x <= now
         /\ f \in Seq(Block) /\ \E k \in DOMAIN f : Ordered(t, f, k)
  <1>1. Replays(f, None, None) = f
    BY DEF Replays, Put
  <1>2. /\ \E k \in DOMAIN f : Ordered(t, f, k)
        /\ \A x \in Contents(f) : x <= now
    BY <1>1, Zenon DEF FlashOK
  <1>3. QED
    BY <1>1, <1>2 DEF Ordered

\* The blocks that are dropped are those the ring has no room for.
Shortens(t, f, s, now) ==
  /\ s \in Shrinking /\ FirstBlock(f) = 1
  /\ \A i \in 1 .. Len(f) - Keep(t) : EndOf(f[i]) + Capacity[t] <= now
  /\ FlashOK(t, f, None, s, now)
  /\ Replays(f, None, s) = Rest(f, s.drop)
  /\ s.drop \in 1 .. Len(f) - 1
  /\ Contents(Rest(f, s.drop)) = {x \in Contents(f) : x > EndOf(f[s.drop]) - 1}

LEMMA FlashShrunk ==
  ASSUME NEW t \in Tier, NEW f,
         NEW now \in Time, FlashOK(t, f, None, None, now), Len(f) > Keep(t), NEW s,
         s = [tier |-> t, drop |-> Len(f) - Keep(t), total |-> Len(f), cursor |-> 0]
  PROVE  Shortens(t, f, s, now)
  <1> DEFINE d == Len(f) - Keep(t)
             v == Rest(f, d)
  <1>1. PICK k \in DOMAIN f : Ordered(t, f, k)
    BY FlashPlain
  <1>2. Len(f) \in Nat /\ Keep(t) \in Nat /\ Keep(t) >= 2 /\ k = 1
    BY <1>1, FileParts, Sizes, KeepIsEnough DEF Ordered
  <1>3. d \in 1 .. Len(f) - 1 /\ d \in Nat /\ Len(f) - d = Keep(t)
    BY <1>2
  <1>4. Ordered(t, f, 1) /\ FirstBlock(f) = 1
    BY <1>1, <1>2, FirstIs
  <1>5. (\A x \in Contents(f) : x <= now) /\ now \in Nat
    BY FlashPlain DEF Time
  <1>6. \A i \in 1 .. Len(f) - Keep(t) : EndOf(f[i]) + Capacity[t] <= now
    BY <1>4, <1>5, SurplusIsOld
  <1>7. s \in Shrinking /\ s.drop = d /\ s.total = Len(f) /\ s.cursor = 0
    BY <1>2, <1>3, Sizes DEF Shrinking
  <1> HIDE DEF d
  <1>8. /\ Ordered(t, v, 1) /\ Len(v) = Len(f) - d
        /\ Contents(v) = {x \in Contents(f) : x > EndOf(f[d]) - 1}
    BY <1>3, <1>4, RestIsOrdered
  <1>9. s # None
    BY <1>7, KindAssumption DEF Shrinking
  <1>10. Replays(f, None, s) = v
    <2>1. Replays(f, None, s) = [j \in 1 .. Keep(t) |-> IF j <= 0 THEN f[j] ELSE f[d + j]]
      BY <1>3, <1>7, <1>9 DEF Replays, Put, d
    <2>2. \A j \in 1 .. Keep(t) : ~ (j <= 0)
      OBVIOUS
    <2>3. QED
      BY <1>3, <2>1, <2>2 DEF Rest
  <1> HIDE DEF v
  <1>11. FlashOK(t, f, None, s, now)
    <2>1. /\ s.drop > 0 /\ s.total - s.drop = Keep(t) /\ s.cursor <= Keep(t) /\ Len(f) = s.total
      BY <1>2, <1>3, <1>7 DEF d
    <2>2. \A x \in Contents(v) : x <= now
      BY <1>5, <1>8
    <2>3. 1 \in DOMAIN v
      BY <1>8 DEF Ordered
    <2>4. QED
      BY <1>8, <1>9, <1>10, <2>1, <2>2, <2>3, Zenon DEF FlashOK
  <1>12. QED
    BY <1>3, <1>4, <1>6, <1>7, <1>8, <1>10, <1>11 DEF v, d, Shortens

\* A record is committed by its journal.
LEMMA FlashWritten ==
  ASSUME NEW t \in Tier, NEW f, NEW now \in Time, FlashOK(t, f, None, None, now), NEW p \in Writing,
         NEW x \in Time, x <= now, NEW g,
         g = PutBlock(f, p.index, p.block), p.index \in 1 .. Len(f) + 1,
         Len(g) <= Keep(t), \E m \in DOMAIN g : Ordered(t, g, m), \A y \in Contents(g) : y <= x
  PROVE  Replays(f, p, None) = g /\ FlashOK(t, f, p, None, now)
  <1>1. p # None
    BY KindAssumption DEF Writing
  <1>2. Replays(f, p, None) = g
    BY <1>1 DEF Replays, Put
  <1>3. ASSUME NEW y \in Contents(g) PROVE y <= now
    <2>1. PICK m \in DOMAIN g : Ordered(t, g, m)
      OBVIOUS
    <2>2. y \in Nat /\ x \in Nat /\ now \in Nat
      BY <2>1, ContentsAreTimes DEF Time
    <2>3. y <= x
      OBVIOUS
    <2>4. QED
      BY <2>2, <2>3
  <1>4. FlashOK(t, f, p, None, now)
    BY <1>2, <1>3, Zenon DEF FlashOK
  <1>5. QED
    BY <1>2, <1>4
-----------------------------------------------------------------------------
(***************************************************************************)
(* Steps that only change what the firmware knows.                         *)
(***************************************************************************)
LEMMA Types ==
  ASSUME TypeOK
  PROVE  /\ tier \in Tier /\ DOMAIN file = Tier /\ DOMAIN ring = Tier
         /\ \A t \in Tier : /\ file[t] \in Seq(Cell) /\ ring[t] \in Nat /\ head[t] \in Header
                            /\ WriteOf(t) \in Writing \union {None}
                            /\ ShrinkOf(t) \in Shrinking \union {None}
         /\ pending # None => /\ pending \in Writing /\ pending.tier \in Tier
                              /\ pending.block \in Block
         /\ shrink # None => shrink \in Shrinking /\ shrink.tier \in Tier
         /\ pending \in Writing \union {None} /\ shrink \in Shrinking \union {None}
         /\ head \in [Tier -> Header]
         /\ clock \in Time /\ buffer \in Time /\ clock \in Nat /\ buffer \in Nat
  <1>1. pending \in Writing \union {None} /\ shrink \in Shrinking \union {None}
    BY DEF TypeOK, Writing, Shrinking
  <1>2. /\ pending # None => /\ pending \in Writing /\ pending.tier \in Tier
                             /\ pending.block \in Block
        /\ shrink # None => shrink \in Shrinking /\ shrink.tier \in Tier
    BY <1>1 DEF Writing, Shrinking
  <1>3. ASSUME NEW t \in Tier
        PROVE  WriteOf(t) \in Writing \union {None} /\ ShrinkOf(t) \in Shrinking \union {None}
    BY <1>1, Zenon DEF WriteOf, ShrinkOf
  <1>4. /\ tier \in Tier /\ DOMAIN file = Tier /\ DOMAIN ring = Tier
        /\ \A t \in Tier : file[t] \in Seq(Cell) /\ ring[t] \in Nat /\ head[t] \in Header
        /\ head \in [Tier -> Header]
    BY DEF TypeOK, Cell
  <1>5. clock \in Time /\ buffer \in Time /\ clock \in Nat /\ buffer \in Nat
    BY DEF TypeOK, Time
  <1>6. QED
    BY <1>1, <1>2, <1>3, <1>4, <1>5

LEMMA LoadedType ==
  ASSUME NEW t \in Tier, NEW f, NEW k, Ordered(t, f, k)
  PROVE  Loaded(t, f) \in Header
  <1>1. FirstBlock(f) \in Nat /\ Len(f) \in Nat
    BY FirstIs, FileParts
  <1>2. Cardinality(Contents(f)) \in Nat /\ LastRecord(f) \in Time
    BY ContentsAreTimes, LastIs
  <1>3. LoadedCapacity(t, f) \in Nat
    BY <1>2, Sizes DEF LoadedCapacity
  <1>4. QED
    BY <1>1, <1>2, <1>3 DEF Loaded, Header

LEMMA BlankType ==
  ASSUME MinuteAndFive
  PROVE  /\ \A t \in Tier : BlankHeader(t) \in Header
         /\ [t \in Tier |-> BlankHeader(t)] \in [Tier -> Header]
         /\ FirstOf(Tier) \in Tier
         /\ FirstOf(Tier) = M => \A t \in Tier : t = M
  <1>1. \A t \in Tier : BlankHeader(t) \in Header
    BY Sizes DEF BlankHeader, Header, Time
  <1>2. [t \in Tier |-> BlankHeader(t)] \in [Tier -> Header]
    BY <1>1
  <1>3. Tier # {} /\ Tier \subseteq {"minute", "five"}
    BY SizeAssumption DEF MinuteAndFive
  <1>4. FirstOf(Tier) \in Tier /\ (FirstOf(Tier) = M => \A t \in Tier : t = M)
    BY <1>3 DEF FirstOf, M
  <1>5. QED
    BY <1>1, <1>2, <1>4

\* What TypeOK says of the flash and of the firmware.
FlashTypes ==
  /\ file \in [Tier -> Seq(Block \union {Torn})]
  /\ ring \in [Tier -> Nat]
  /\ pending \in [tier : Tier, index : Nat, block : Block] \union {None}
  /\ shrink \in [tier : Tier, drop : Nat, total : Nat, cursor : Nat] \union {None}

ControlTypes ==
  /\ pc \in Pc /\ task \in {"begin", "update", "flush"} /\ tier \in Tier
  /\ after \in {"recoverShrink", "copy", "advance", "acknowledge"}
  /\ next \in Header /\ faults \in 0 .. MaxFaults

LEMMA TypeParts ==
  /\ TypeOK => /\ FlashTypes /\ ControlTypes /\ head \in [Tier -> Header]
                /\ buffer \in Time /\ clock \in Time
  /\ /\ FlashTypes' /\ ControlTypes' /\ head' \in [Tier -> Header]
     /\ buffer' \in Time /\ clock' \in Time
     => TypeOK'
  BY DEF TypeOK, FlashTypes, ControlTypes

\* A part of update() or a flush that ends leaves the firmware idle.
LEMMA EndsIdle ==
  ASSUME MinuteAndFive, PartEnds
  PROVE  pc' = "idle" /\ tier' = tier /\ task' = task /\ after' = after /\ next' = next
  <1>1. "hour" \notin Tier
    BY DEF MinuteAndFive
  <1>2. QED
    BY <1>1 DEF PartEnds

LEMMA FailsWhere ==
  ASSUME MinuteAndFive, Fails
  PROVE  /\ pc' = IF task = "begin" THEN "unmounted" ELSE "idle"
         /\ tier' = tier /\ task' = task /\ after' = after /\ next' = next
  BY EndsIdle DEF Fails, Goto

SameWhole == \A t \in Tier : Whole(t)' = Whole(t)

LEMMA JournalsStay ==
  ASSUME pending' = pending, shrink' = shrink
  PROVE  \A t : WriteOf(t)' = WriteOf(t) /\ ShrinkOf(t)' = ShrinkOf(t)
  BY DEF WriteOf, ShrinkOf

\* A step keeps what it does not touch.
LEMMA TierStays ==
  ASSUME NEW t \in Tier, TierOK(t), file'[t] = file[t], ring'[t] = ring[t],
         WriteOf(t)' = WriteOf(t), ShrinkOf(t)' = ShrinkOf(t), clock' = clock
  PROVE  TierOK(t)' /\ Whole(t)' = Whole(t)
  BY Zenon DEF TierOK, Whole

LEMMA FlashStays ==
  ASSUME TypeOK, FlashInv, UNCHANGED flash, clock' \in Time, clock <= clock'
  PROVE  FlashInv' /\ SameWhole /\ FlashTypes'
  <1>1. file' = file /\ ring' = ring /\ pending' = pending /\ shrink' = shrink
    BY DEF flash
  <1>2. ASSUME NEW t \in Tier PROVE TierOK(t)' /\ Whole(t)' = Whole(t)
    <2>1. WriteOf(t)' = WriteOf(t) /\ ShrinkOf(t)' = ShrinkOf(t)
      BY <1>1, JournalsStay, Zenon
    <2>2. FlashOK(t, file[t], WriteOf(t), ShrinkOf(t), clock) /\ ring[t] = 0
      BY DEF FlashInv, TierOK
    <2>3. clock \in Time
      BY Types
    <2>4. FlashOK(t, file[t], WriteOf(t), ShrinkOf(t), clock')
      BY <2>2, <2>3, FlashLater
    <2>5. QED
      BY <1>1, <2>1, <2>2, <2>4, Zenon DEF TierOK, Whole
  <1>3. FlashInv' /\ SameWhole
    BY <1>1, <1>2 DEF FlashInv, SameWhole
  <1>4. FlashTypes'
    BY <1>1, TypeParts DEF FlashTypes
  <1>5. QED
    BY <1>3, <1>4

\* So do the headers, unless a step starts or ends that installs one.
LEMMA HeadsStay ==
  ASSUME HeadInv, file' = file, pending' = pending, shrink' = shrink, head' = head,
         Running' => Running, \A t \in Tier : Stale(t) => Stale(t)'
  PROVE  Running' => \A t \in Tier : HeadOK(t)'
  <1>1. ASSUME Running', NEW t \in Tier PROVE HeadOK(t)'
    <2>1. WriteOf(t)' = WriteOf(t) /\ ShrinkOf(t)' = ShrinkOf(t)
      BY JournalsStay, Zenon
    <2>2. HeadOK(t)
      BY <1>1 DEF HeadInv
    <2>3. Stale(t) => Stale(t)'
      OBVIOUS
    <2>4. QED
      BY <2>1, <2>2, <2>3, Zenon DEF HeadOK
  <1>2. QED
    BY <1>1

\* A step of the firmware that touches neither flash nor header.
Quiet == UNCHANGED <<flash, head, buffer, clock>>

LEMMA QuietParts ==
  ASSUME Quiet
  PROVE  /\ UNCHANGED flash /\ file' = file /\ ring' = ring /\ pending' = pending
         /\ shrink' = shrink /\ head' = head /\ buffer' = buffer /\ clock' = clock
  BY DEF Quiet, flash

LEMMA QuietKeeps ==
  ASSUME CompactInv, Quiet, ControlTypes', StepInv', PlaceInv', HeadInv', OwedInv'
  PROVE  CompactInv' /\ SameWhole
  <1>1. TypeOK /\ FlashInv /\ BufferInv
    BY DEF CompactInv
  <1>2. clock \in Time /\ clock <= clock' /\ head \in [Tier -> Header] /\ buffer \in Time
    BY <1>1, QuietParts, Types
  <1>3. FlashInv' /\ SameWhole /\ FlashTypes'
    BY <1>1, <1>2, QuietParts, FlashStays
  <1>4. TypeOK'
    BY <1>2, <1>3, QuietParts, TypeParts
  <1>5. BufferInv'
    BY <1>1, <1>3, QuietParts DEF BufferInv, SameWhole
  <1>6. QED
    BY <1>3, <1>4, <1>5 DEF CompactInv

\* Without power nothing is left but the flash.
LEMMA PowerOffKeeps ==
  ASSUME MinuteAndFive, FlashTypes', FlashInv', clock' \in Time, faults' \in 0 .. MaxFaults,
         PowerOff
  PROVE  CompactInv'
  <1>1. /\ head' = [t \in Tier |-> BlankHeader(t)] /\ buffer' = 0 /\ pc' = "off" /\ task' = "begin"
        /\ tier' = FirstOf(Tier) /\ after' = "recoverShrink" /\ next' = BlankHeader(FirstOf(Tier))
    BY DEF PowerOff
  <1>2. ControlTypes'
    BY <1>1, BlankType DEF ControlTypes, Pc
  <1>3. head' \in [Tier -> Header] /\ buffer' \in Time /\ 0 <= clock'
    BY <1>1, BlankType, Sizes DEF Time
  <1>4. TypeOK'
    BY <1>2, <1>3, TypeParts
  <1>5. BufferInv'
    BY <1>1, <1>3 DEF BufferInv
  <1>6. StepInv' /\ PlaceInv'
    BY <1>1 DEF StepInv, PlaceInv, Shrinks
  <1>7. HeadInv' /\ OwedInv'
    BY <1>1 DEF HeadInv, NextInv, OwedInv, Running
  <1>8. QED
    BY <1>4, <1>5, <1>6, <1>7 DEF CompactInv

LEMMA BootKeeps ==
  ASSUME CompactInv, Boot
  PROVE  CompactInv' /\ SameWhole
  <1>1. /\ pc = "off" /\ pc' = "replay" /\ task' = task /\ tier' = tier /\ after' = after
        /\ next' = next /\ faults' = faults /\ Quiet
    BY DEF Boot, Goto, Quiet
  <1>2. TypeOK /\ StepInv
    BY DEF CompactInv
  <1>3. task' = "begin"
    BY <1>1, <1>2 DEF StepInv
  <1>4. ControlTypes'
    BY <1>1, <1>2, TypeParts DEF ControlTypes, Pc
  <1>5. StepInv' /\ PlaceInv' /\ HeadInv' /\ OwedInv'
    BY <1>1, <1>3 DEF StepInv, Shrinks, PlaceInv, HeadInv, NextInv, OwedInv, Running
  <1>6. QED
    BY <1>1, <1>4, <1>5, QuietKeeps

\* A block to write always fits its file.
LEMMA PendingFits ==
  ASSUME CompactInv, pending # None
  PROVE  /\ pending \in Writing /\ pending.tier \in Tier /\ pending.block \in Block
         /\ WriteOf(pending.tier) = pending
         /\ pending.index \in 1 .. Len(file[pending.tier]) + 1
         /\ ~ (pending.index > Len(file[pending.tier]) + 1)
  <1> DEFINE t == pending.tier
             p == pending
  <1>1. p \in Writing /\ t \in Tier /\ p.block \in Block /\ TypeOK /\ FlashInv
    BY Types DEF CompactInv
  <1>2. WriteOf(t) = p
    BY DEF WriteOf
  <1>3. /\ FlashOK(t, file[t], WriteOf(t), ShrinkOf(t), clock) /\ file[t] \in Seq(Cell)
        /\ ShrinkOf(t) \in Shrinking \union {None}
    BY <1>1, Types DEF FlashInv, TierOK
  <1> HIDE DEF t, p
  <1>4. p.index \in 1 .. Len(file[t]) + 1 /\ Len(file[t]) \in Nat
    <2>1. FlashOK(t, file[t], p, ShrinkOf(t), clock)
      BY <1>2, <1>3, Zenon
    <2>2. p.index \in 1 .. Len(file[t]) + 1
      BY <1>1, <1>3, <2>1, PlaceOf, Zenon
    <2>3. QED
      BY <1>3, <2>2
  <1>5. ~ (p.index > Len(file[t]) + 1)
    BY <1>4
  <1>6. QED
    BY <1>1, <1>2, <1>4, <1>5 DEF t, p

LEMMA ReplayKeeps ==
  ASSUME CompactInv, Replay
  PROVE  CompactInv' /\ SameWhole
  <1>1. TypeOK /\ StepInv /\ pc = "replay" /\ task = "begin"
    BY DEF CompactInv, StepInv, Replay
  <1>2. Quiet /\ faults' = faults
    BY DEF Replay, Quiet, flash
  <1>3. CASE pending = None
    <2>1. /\ pc' = "recoverShrink" /\ task' = task /\ tier' = tier /\ after' = after /\ next' = next
      BY <1>3 DEF Replay, Replayable, Goto
    <2>2. ControlTypes'
      BY <1>1, <1>2, <2>1, TypeParts DEF ControlTypes, Pc
    <2>3. StepInv' /\ PlaceInv' /\ HeadInv' /\ OwedInv'
      BY <1>1, <1>2, <1>3, <2>1, QuietParts
         DEF StepInv, Shrinks, PlaceInv, HeadInv, NextInv, OwedInv, Running
    <2>4. QED
      BY <1>2, <2>2, <2>3, QuietKeeps
  <1>4. CASE pending # None
    <2>1. /\ pc' = "place" /\ after' = "recoverShrink" /\ task' = task /\ tier' = tier
          /\ next' = next
      BY <1>4, PendingFits DEF Replay, Replayable, WriteThen
    <2>2. ControlTypes'
      BY <1>1, <1>2, <2>1, TypeParts DEF ControlTypes, Pc
    <2>3. StepInv' /\ PlaceInv' /\ HeadInv' /\ OwedInv'
      BY <1>1, <1>2, <1>4, <2>1, QuietParts
         DEF StepInv, Shrinks, PlaceInv, HeadInv, NextInv, OwedInv, Running
    <2>4. QED
      BY <1>2, <2>2, <2>3, QuietKeeps
  <1>5. QED
    BY <1>3, <1>4

\* The cursor of a shrink that is under way.
LEMMA ShrinkingState ==
  ASSUME CompactInv, shrink # None
  PROVE  /\ Kept = Keep(M) /\ Source = shrink.drop + shrink.cursor + 1 /\ shrink.tier = M
         /\ M \in Tier /\ ShrinkOf(M) = shrink
         /\ shrink \in Shrinking /\ shrink.cursor \in Nat /\ shrink.cursor <= Keep(M)
         /\ shrink.drop \in Nat /\ Keep(M) \in Nat
  <1>1. shrink \in Shrinking /\ shrink.tier = M /\ M \in Tier
    BY Types DEF CompactInv, FlashInv
  <1>2. ShrinkOf(M) = shrink
    BY <1>1 DEF ShrinkOf
  <1>3. FlashOK(M, file[M], WriteOf(M), shrink, clock)
    BY <1>1, <1>2 DEF CompactInv, FlashInv, TierOK
  <1>4. shrink.total - shrink.drop = Keep(M) /\ shrink.cursor <= Keep(M)
    BY <1>3 DEF FlashOK
  <1>5. QED
    BY <1>1, <1>2, <1>4, Sizes DEF Kept, Source, Shrinking

LEMMA RecoverShrinkKeeps ==
  ASSUME CompactInv, RecoverShrink
  PROVE  CompactInv' /\ SameWhole
  <1>1. /\ TypeOK /\ StepInv /\ HeadInv /\ OwedInv /\ pc = "recoverShrink"
        /\ task = "begin" \/ (task = "update" /\ tier = M)
        /\ pending = None
        /\ task = "update" => shrink # None
    BY DEF CompactInv, StepInv, Shrinks, RecoverShrink
  <1>2. Quiet /\ faults' = faults
    BY DEF RecoverShrink, Quiet, flash
  <1>3. /\ task' = task /\ tier' = tier /\ after' = after /\ next' = next
        /\ pc' = IF shrink = None THEN "load" ELSE IF shrink.cursor = Kept THEN "truncate" ELSE "copy"
    BY <1>1 DEF RecoverShrink, Goto
  <1>4. ControlTypes'
    BY <1>1, <1>2, <1>3, TypeParts DEF ControlTypes, Pc
  <1>5. shrink # None =>
          Kept = Keep(M) /\ shrink.cursor \in Nat /\ shrink.cursor <= Keep(M) /\ Keep(M) \in Nat
    BY ShrinkingState
  <1>6. shrink # None /\ shrink.cursor # Kept => shrink.cursor < Keep(M)
    BY <1>5
  <1>7. StepInv' /\ PlaceInv'
    BY <1>1, <1>2, <1>3, <1>5, <1>6, QuietParts DEF StepInv, Shrinks, PlaceInv
  <1>8. HeadInv' /\ OwedInv'
    <2>1. (Running' => Running) /\ \A t \in Tier : Stale(t) => Stale(t)'
      BY <1>1, <1>3 DEF Running, Stale
    <2>2. Running' => \A t \in Tier : HeadOK(t)'
      BY <1>1, <1>2, <2>1, QuietParts, HeadsStay
    <2>3. NextInv' /\ OwedInv'
      BY <1>1, <1>2, <1>3, QuietParts DEF NextInv, OwedInv
    <2>4. QED
      BY <2>2, <2>3 DEF HeadInv
  <1>9. QED
    BY <1>2, <1>4, <1>7, <1>8, QuietKeeps

LEMMA DowngradedNever ==
  ASSUME FlashInv
  PROVE  ~ Downgraded /\ Updated = Tier
  BY DEF Downgraded, Updated, FlashInv, TierOK

LEMMA UpdateKeeps ==
  ASSUME MinuteAndFive, CompactInv, Update
  PROVE  CompactInv' /\ SameWhole
  <1>1. TypeOK /\ StepInv /\ HeadInv /\ OwedInv /\ FlashInv /\ pc = "idle"
    BY DEF CompactInv, Update
  <1>2. /\ Quiet /\ faults' = faults /\ pc' = "prune" /\ task' = "update"
        /\ tier' = FirstOf(Tier) /\ after' = after /\ next' = next
    BY <1>1, DowngradedNever DEF Update, Quiet, flash
  <1>3. ControlTypes'
    BY <1>1, <1>2, BlankType, TypeParts DEF ControlTypes, Pc
  <1>4. StepInv' /\ PlaceInv'
    BY <1>2 DEF StepInv, Shrinks, PlaceInv
  <1>5. HeadInv'
    <2>1. Running /\ \A t \in Tier : Stale(t) => Stale(t)'
      BY <1>1, <1>2 DEF Running, Stale
    <2>2. \A t \in Tier : HeadOK(t)'
      BY <1>1, <1>2, <2>1, QuietParts, HeadsStay DEF Running
    <2>3. QED
      BY <1>2, <2>2 DEF HeadInv, NextInv
  <1>6. OwedInv'
    <2>1. Running
      BY <1>1 DEF Running
    <2>2. pending # None => pending.tier \in Tier
      BY <1>1, Types
    <2>3. tier' = M /\ pending # None => pending.tier = M
      BY <1>2, <2>2, BlankType
    <2>4. QED
      BY <1>1, <1>2, <2>1, <2>3, QuietParts DEF OwedInv
  <1>7. QED
    BY <1>2, <1>3, <1>4, <1>5, <1>6, QuietKeeps

\* With no shrink under way, the firmware that takes the ring for short enough
\* is right.
LEMMA WithinLimit ==
  ASSUME MinuteAndFive, CompactInv, pc = "prune", tier = M
  PROVE  /\ ~ Oversized(M) => shrink = None /\ Len(Whole(M)) <= Keep(M)
         /\ Oversized(M) /\ shrink = None =>
              /\ pending = None /\ Len(file[M]) > Keep(M) /\ buffer = 0 /\ Whole(M) = file[M]
              /\ FlashOK(M, file[M], None, None, clock)
  <1>1. /\ TypeOK /\ HeadInv /\ BufferInv /\ OwedInv /\ task = "update" /\ M \in Tier
        /\ FlashOK(M, file[M], WriteOf(M), ShrinkOf(M), clock) /\ ring[M] = 0
    BY Types DEF CompactInv, FlashInv, TierOK, StepInv
  <1>2. HeadOK(M) /\ ~ Stale(M)
    BY <1>1 DEF HeadInv, Running, Stale
  <1>3. Oversized(M) <=> head[M].first = 1 /\ head[M].blocks > Keep(M)
    BY <1>1 DEF Oversized, MinuteAndFive, Keep, M
  <1>4. head[M].blocks \in Nat /\ Keep(M) \in Nat
    BY <1>1, Types, Sizes DEF Header
  <1>5. (shrink = None <=> ShrinkOf(M) = None) /\ (pending = None <=> WriteOf(M) = None)
    BY <1>1 DEF CompactInv, FlashInv, OwedInv, ShrinkOf, WriteOf
  <1>6. CASE shrink # None
    BY <1>2, <1>3, <1>5, <1>6 DEF HeadOK
  <1>7. CASE shrink = None /\ pending # None
    <2>1. head[M].blocks <= Keep(M)
      BY <1>2, <1>5, <1>7 DEF HeadOK
    <2>2. Len(Whole(M)) <= Keep(M)
      BY <1>1, <1>5, <1>7 DEF FlashOK, Whole
    <2>3. ~ Oversized(M)
      BY <1>3, <1>4, <2>1
    <2>4. QED
      BY <1>7, <2>2, <2>3
  <1>8. CASE shrink = None /\ pending = None
    <2>1. head[M] = Loaded(M, file[M])
      BY <1>2, <1>5, <1>8 DEF HeadOK
    <2>2. FlashOK(M, file[M], None, None, clock) /\ WriteOf(M) = None /\ ShrinkOf(M) = None
      BY <1>1, <1>5, <1>8
    <2>3. Whole(M) = file[M]
      BY <1>1, <2>2, FlashPlain DEF Whole
    <2>4. PICK k \in DOMAIN file[M] : Ordered(M, file[M], k)
      BY <1>1, <2>2, FlashPlain
    <2>5. head[M].first = k /\ head[M].blocks = Len(file[M])
      BY <1>1, <2>1, <2>4, FirstIs DEF Loaded
    <2>6. Len(file[M]) \in Nat /\ k \in Nat
      BY <1>1, <2>4, FileParts
    <2>7. Len(file[M]) > Keep(M) => k = 1
      BY <1>4, <2>4, <2>6 DEF Ordered
    <2>8. Oversized(M) <=> Len(file[M]) > Keep(M)
      BY <1>3, <1>4, <2>5, <2>6, <2>7
    <2>9. Len(file[M]) > Keep(M) => buffer = 0
      BY <1>1, <1>4, <2>3, <2>6 DEF BufferInv
    <2>10. QED
      BY <1>4, <1>8, <2>2, <2>3, <2>6, <2>8, <2>9
  <1>9. QED
    BY <1>6, <1>7, <1>8

\* Exactly the blocks the ring has no room for are dropped.
LEMMA DroppedIs ==
  ASSUME MinuteAndFive, M \in Tier, file[M] \in Seq(Cell), clock \in Time,
         FlashOK(M, file[M], None, None, clock), Len(file[M]) > Keep(M)
  PROVE  Dropped(M) = Len(file[M]) - Keep(M) /\ Len(file[M]) - Keep(M) \in Nat \ {0}
  <1> DEFINE n == Len(file[M]) - Keep(M)
             droppable == {d \in 0 .. Surplus(M) : \A i \in 1 .. d : Expired(M, file[M][i])}
  <1>1. n \in Nat \ {0} /\ Surplus(M) = n
    <2>1. KeepBlocks[M] = Keep(M)
      BY DEF MinuteAndFive, Keep, M
    <2>2. QED
      BY <2>1, Sizes DEF Surplus
  <1>2. ASSUME NEW i \in 1 .. n PROVE Expired(M, file[M][i])
    <2> DEFINE s == [tier |-> M, drop |-> n, total |-> Len(file[M]), cursor |-> 0]
    <2>1. Shortens(M, file[M], s, clock)
      BY FlashShrunk
    <2>2. EndOf(file[M][i]) + Capacity[M] <= clock
      BY <2>1 DEF Shortens
    <2>3. QED
      BY <2>2 DEF Expired, M
  <1> HIDE DEF n
  <1>3. n \in droppable /\ \A d \in droppable : d \in 0 .. n
    BY <1>1, <1>2
  <1>4. Dropped(M) = CHOOSE d \in droppable : \A e \in droppable : e <= d
    BY DEF Dropped
  <1> HIDE DEF droppable
  <1>5. \A d \in droppable : d <= n
    BY <1>1, <1>3
  <1>6. \A d \in droppable : (\A e \in droppable : e <= d) => d = n
    BY <1>1, <1>3
  <1>7. Dropped(M) = n
    BY <1>3, <1>4, <1>5, <1>6
  <1>8. QED
    BY <1>1, <1>7 DEF n
-----------------------------------------------------------------------------
(***************************************************************************)
(* Steps that change the flash.                                            *)
(***************************************************************************)
LEMMA FlashStepKeeps ==
  ASSUME CompactInv, UNCHANGED <<head, clock>>, buffer' \in Time,
         FlashTypes', FlashInv', BufferInv', ControlTypes', StepInv', PlaceInv', HeadInv', OwedInv'
  PROVE  CompactInv'
  <1>1. head' \in [Tier -> Header] /\ clock' \in Time
    BY TypeParts DEF CompactInv
  <1>2. TypeOK'
    BY <1>1, TypeParts
  <1>3. QED
    BY <1>2 DEF CompactInv

\* A block put in place, or half of it, leaves every tier what it was.
LEMMA PlacedKeeps ==
  ASSUME CompactInv, pending # None, NEW c \in {Torn, pending.block},
         file' = [file EXCEPT ![pending.tier] = PutBlock(@, pending.index, c)],
         ring' = [ring EXCEPT ![pending.tier] = 0],
         pending' = pending, shrink' = shrink, clock' = clock
  PROVE  /\ FlashTypes' /\ FlashInv' /\ SameWhole
         /\ pending.index \in 1 .. Len(file'[pending.tier])
         /\ file'[pending.tier][pending.index] = c
  <1> DEFINE u == pending.tier
             p == pending
             g == PutBlock(file[u], p.index, c)
  <1>1. /\ p \in Writing /\ u \in Tier /\ p # None /\ WriteOf(u) = p /\ c \in {Torn, p.block}
        /\ TypeOK /\ FlashInv /\ p.block \in Block
    BY PendingFits DEF CompactInv
  <1>2. /\ file[u] \in Seq(Cell) /\ ShrinkOf(u) \in Shrinking \union {None} /\ ring[u] = 0
        /\ FlashOK(u, file[u], WriteOf(u), ShrinkOf(u), clock)
    BY <1>1, Types DEF FlashInv, TierOK
  <1>3. /\ file' = [file EXCEPT ![u] = g] /\ ring' = [ring EXCEPT ![u] = 0]
        /\ file'[u] = g /\ ring'[u] = 0
        /\ \A t \in Tier : t # u => file'[t] = file[t] /\ ring'[t] = ring[t]
    BY <1>1, Types
  <1> HIDE DEF u, p
  <1>4. FlashOK(u, file[u], p, ShrinkOf(u), clock)
    BY <1>1, <1>2, Zenon
  <1>5. /\ g \in Seq(Cell) /\ p.index \in 1 .. Len(g) /\ g[p.index] = c
        /\ Replays(g, p, ShrinkOf(u)) = Replays(file[u], p, ShrinkOf(u))
        /\ FlashOK(u, g, p, ShrinkOf(u), clock)
    <2> DEFINE f == file[u]
               s == ShrinkOf(u)
               h == PutBlock(f, p.index, c)
    <2>1. /\ u \in Tier /\ f \in Seq(Cell) /\ p \in Writing /\ s \in Shrinking \union {None}
          /\ FlashOK(u, f, p, s, clock) /\ c \in {Torn, p.block}
      BY <1>1, <1>2, <1>4
    <2> HIDE DEF f, s
    <2>2. /\ h \in Seq(Cell) /\ p.index \in 1 .. Len(h) /\ h[p.index] = c
          /\ Replays(h, p, s) = Replays(f, p, s)
          /\ FlashOK(u, h, p, s, clock)
      BY <2>1, FlashPlaced
    <2>3. QED
      BY <2>2 DEF f, s
  <1> HIDE DEF g
  <1>6. ASSUME NEW t \in Tier PROVE TierOK(t)' /\ Whole(t)' = Whole(t)
    <2>1. WriteOf(t)' = WriteOf(t) /\ ShrinkOf(t)' = ShrinkOf(t)
      BY JournalsStay, Zenon
    <2>2. CASE t = u
      <3>1. file'[t] = g /\ ring'[t] = 0 /\ WriteOf(t)' = p /\ ShrinkOf(t)' = ShrinkOf(u)
        BY <1>1, <1>3, <2>1, <2>2, Zenon
      <3>2. FlashOK(t, file'[t], WriteOf(t)', ShrinkOf(t)', clock')
        BY <1>5, <2>2, <3>1, Zenon
      <3>3. Whole(t)' = Replays(g, p, ShrinkOf(u))
        BY <3>1, Zenon DEF Whole
      <3>4. Whole(t) = Replays(file[u], p, ShrinkOf(u))
        BY <1>1, <2>2, Zenon DEF Whole
      <3>5. QED
        BY <1>5, <3>1, <3>2, <3>3, <3>4, Zenon DEF TierOK
    <2>3. CASE t # u
      BY <1>1, <1>3, <2>1, <2>3, TierStays DEF FlashInv
    <2>4. QED
      BY <2>2, <2>3
  <1>7. FlashInv' /\ SameWhole
    BY <1>1, <1>6 DEF FlashInv, SameWhole
  <1>8. FlashTypes'
    <2>1. file' \in [Tier -> Seq(Cell)]
      BY <1>1, <1>3, <1>5 DEF TypeOK, Cell
    <2>2. ring' \in [Tier -> Nat]
      BY <1>1, <1>3 DEF TypeOK
    <2>3. QED
      BY <1>1, <2>1, <2>2, TypeParts DEF FlashTypes, Cell
  <1>9. QED
    BY <1>3, <1>5, <1>7, <1>8 DEF u, p

LEMMA PlaceKeeps ==
  ASSUME CompactInv, Place
  PROVE  CompactInv' /\ SameWhole
  <1>1. /\ TypeOK /\ StepInv /\ HeadInv /\ BufferInv /\ PlaceInv /\ OwedInv /\ FlashInv
        /\ pc = "place" /\ pending # None
    BY DEF CompactInv, PlaceInv, Place
  <1>2. /\ pending' = pending /\ shrink' = shrink /\ head' = head /\ buffer' = buffer
        /\ clock' = clock /\ faults' = faults
        /\ pc' = "unlink" /\ task' = task /\ tier' = tier /\ after' = after /\ next' = next
    BY DEF Place, Goto
  <1>3. /\ FlashTypes' /\ FlashInv' /\ SameWhole
        /\ pending.index \in 1 .. Len(file'[pending.tier])
        /\ file'[pending.tier][pending.index] = pending.block
    <2>1. /\ file' = [file EXCEPT ![pending.tier] = PutBlock(@, pending.index, pending.block)]
          /\ ring' = [ring EXCEPT ![pending.tier] = 0]
      BY DEF Place
    <2>2. QED
      BY <1>1, <1>2, <2>1, PlacedKeeps
  <1>4. BufferInv'
    BY <1>1, <1>2, <1>3 DEF BufferInv, SameWhole
  <1>5. ControlTypes'
    BY <1>1, <1>2, TypeParts DEF ControlTypes, Pc
  <1>6. StepInv'
    BY <1>1, <1>2 DEF StepInv, Shrinks
  <1>7. PlaceInv'
    BY <1>1, <1>2, <1>3 DEF PlaceInv
  <1>8. HeadInv'
    <2>1. ASSUME Running', NEW t \in Tier PROVE HeadOK(t)'
      <3>1. HeadOK(t) /\ Running
        BY <1>1, <1>2, <2>1 DEF HeadInv, Running
      <3>2. WriteOf(t)' = WriteOf(t) /\ ShrinkOf(t)' = ShrinkOf(t)
        BY <1>2, JournalsStay, Zenon
      <3>3. file'[t] = file[t] \/ WriteOf(t) # None
        <4>1. pending.tier \in Tier
          BY <1>1, Types
        <4>2. t # pending.tier => file'[t] = file[t]
          BY <1>1, <4>1, Types DEF Place
        <4>3. QED
          BY <1>1, <4>2 DEF WriteOf
      <3>4. ~ Stale(t)
        BY <1>1 DEF Stale
      <3>5. QED
        BY <1>2, <3>1, <3>2, <3>3, <3>4, Zenon DEF HeadOK
    <2>2. NextInv'
      <3>1. ASSUME after = "acknowledge" PROVE next' = Loaded(tier, Whole(tier))'
        BY <1>1, <1>2, <1>3, <3>1, Types DEF HeadInv, NextInv, SameWhole
      <3>2. QED
        BY <1>2, <3>1 DEF NextInv
    <2>3. QED
      BY <2>1, <2>2 DEF HeadInv
  <1>9. OwedInv'
    BY <1>1, <1>2 DEF OwedInv, Running
  <1>10. buffer' \in Time
    BY <1>1, <1>2, Types
  <1>11. QED
    BY <1>2, <1>3, <1>4, <1>5, <1>6, <1>7, <1>8, <1>9, <1>10, FlashStepKeeps

LEMMA UnlinkKeeps ==
  ASSUME CompactInv, Unlink
  PROVE  CompactInv' /\ SameWhole
  <1> DEFINE u == pending.tier
             p == pending
             s == ShrinkOf(u)
             f == file[u]
  <1>1. /\ TypeOK /\ StepInv /\ HeadInv /\ BufferInv /\ PlaceInv /\ FlashInv /\ pc = "unlink"
        /\ p # None /\ p.index \in 1 .. Len(f) /\ f[p.index] = p.block
    BY DEF CompactInv, PlaceInv, Unlink
  <1>2. /\ file' = file /\ ring' = ring /\ pending' = None /\ shrink' = shrink /\ head' = head
        /\ buffer' = buffer /\ clock' = clock /\ faults' = faults
        /\ pc' = after /\ task' = task /\ tier' = tier /\ after' = after /\ next' = next
    BY DEF Unlink, Goto
  <1>3. /\ p \in Writing /\ u \in Tier /\ WriteOf(u) = p /\ f \in Seq(Cell)
        /\ s \in Shrinking \union {None} /\ buffer \in Time /\ TierOK(u)
    BY <1>1, PendingFits, Types DEF FlashInv
  <1>4. FlashOK(u, f, p, s, clock) /\ ring[u] = 0
    BY <1>3, Zenon DEF TierOK
  <1>5. \A t : ShrinkOf(t)' = ShrinkOf(t) /\ WriteOf(t)' = None /\ (t # u => WriteOf(t) = None)
    BY <1>2 DEF ShrinkOf, WriteOf
  <1>6. /\ \/ after = "recoverShrink" /\ task = "begin"
           \/ /\ after = "advance" /\ shrink # None /\ u = M
              /\ task = "begin" \/ (task = "update" /\ tier = M)
           \/ /\ after = "acknowledge" /\ task # "begin" /\ u = tier
              /\ tier = M => shrink = None
    BY <1>1 DEF PlaceInv
  <1> HIDE DEF u, p, s, f
  <1>7. /\ Replays(f, None, s) = Replays(f, p, s)
        /\ FlashOK(u, f, None, s, clock)
        /\ s # None => s.cursor < Keep(u) /\ f[s.cursor + 1] = f[s.drop + s.cursor + 1]
    BY <1>1, <1>3, <1>4, FlashUnlinked
  <1>8. ASSUME NEW t \in Tier PROVE TierOK(t)' /\ Whole(t)' = Whole(t)
    <2>1. CASE t = u
      <3>1. /\ file'[t] = f /\ ring'[t] = 0 /\ WriteOf(t)' = None /\ ShrinkOf(t)' = s
        BY <1>2, <1>4, <1>5, <2>1, Zenon DEF f, s
      <3>2. Whole(t)' = Replays(f, None, s)
        BY <3>1, Zenon DEF Whole
      <3>3. Whole(t) = Replays(f, p, s)
        BY <1>3, <2>1, Zenon DEF Whole, f, s
      <3>4. FlashOK(t, file'[t], WriteOf(t)', ShrinkOf(t)', clock')
        BY <1>2, <1>7, <2>1, <3>1, Zenon
      <3>5. QED
        BY <1>7, <3>1, <3>2, <3>3, <3>4, Zenon DEF TierOK
    <2>2. CASE t # u
      BY <1>1, <1>2, <1>5, <2>2, TierStays DEF FlashInv
    <2>3. QED
      BY <2>1, <2>2
  <1>9. FlashInv' /\ SameWhole
    BY <1>1, <1>2, <1>8 DEF FlashInv, SameWhole
  <1>10. FlashTypes'
    BY <1>1, <1>2, TypeParts DEF FlashTypes
  <1>11. BufferInv'
    BY <1>1, <1>2, <1>9 DEF BufferInv, SameWhole
  <1>12. ControlTypes'
    BY <1>1, <1>2, <1>6, TypeParts DEF ControlTypes, Pc
  <1>13. ASSUME after = "acknowledge"
         PROVE  s = None /\ u = tier /\ Len(Whole(tier)) <= Keep(tier) /\ Whole(tier) = file[tier]
    <2>1. u = tier /\ s = None
      BY <1>1, <1>6, <1>13 DEF s, ShrinkOf, FlashInv
    <2>2. Len(Replays(f, p, None)) <= Keep(u)
      BY <1>1, <1>4, <2>1 DEF FlashOK
    <2>3. Whole(tier) = Replays(f, p, None)
      BY <1>3, <2>1, Zenon DEF Whole, f, s
    <2>4. Replays(f, None, None) = f
      BY DEF Replays, Put
    <2>5. QED
      BY <1>7, <2>1, <2>2, <2>3, <2>4 DEF f
  <1>14. StepInv'
    <2>1. CASE after = "recoverShrink" /\ task = "begin"
      BY <1>1, <1>2, <2>1 DEF StepInv, Shrinks
    <2>2. CASE after = "advance" /\ shrink # None /\ u = M
      <3>1. s = shrink /\ f = file[M]
        BY <1>1, <2>2 DEF s, f, ShrinkOf, FlashInv
      <3>2. /\ shrink.cursor < Keep(M)
            /\ file[M][shrink.cursor + 1] = file[M][shrink.drop + shrink.cursor + 1]
        BY <1>7, <2>2, <3>1, Zenon
      <3>3. QED
        BY <1>1, <1>2, <1>6, <2>2, <3>2 DEF StepInv, Shrinks
    <2>3. CASE after = "acknowledge" /\ task # "begin"
      <3>1. tier = M => shrink = None /\ Len(Whole(M))' <= Keep(M)
        <4>1. M \in Tier => Whole(M)' = Whole(M)
          BY <1>9, Zenon DEF SameWhole
        <4>2. QED
          BY <1>3, <1>6, <1>13, <2>3, <4>1
      <3>2. QED
        BY <1>1, <1>2, <2>3, <3>1 DEF StepInv, Shrinks
    <2>4. QED
      BY <1>6, <2>1, <2>2, <2>3
  <1>15. PlaceInv' /\ OwedInv'
    BY <1>2, <1>6 DEF PlaceInv, OwedInv
  <1>16. HeadInv'
    <2>1. ASSUME Running', NEW t \in Tier PROVE HeadOK(t)'
      <3>1. Running /\ after # "recoverShrink"
        BY <1>2, <1>6, <2>1 DEF Running
      <3>2. HeadOK(t) /\ ~ Stale(t)
        BY <1>1, <3>1 DEF HeadInv, Stale
      <3>3. t = u => ShrinkOf(t) # None \/ Stale(t)'
        BY <1>2, <1>6, <3>1 DEF Stale, ShrinkOf, FlashInv, CompactInv
      <3>4. CASE t = u
        BY <1>2, <1>5, <3>2, <3>3, <3>4, Zenon DEF HeadOK
      <3>5. CASE t # u
        BY <1>2, <1>5, <3>2, <3>5, Zenon DEF HeadOK
      <3>6. QED
        BY <3>4, <3>5
    <2>2. NextInv'
      <3>1. ASSUME after = "acknowledge" PROVE next = Loaded(tier, file[tier])
        BY <1>1, <1>13, <3>1 DEF HeadInv, NextInv
      <3>2. pc' \notin {"place", "unlink"}
        BY <1>2, <1>6
      <3>3. QED
        BY <1>2, <3>1, <3>2 DEF NextInv
    <2>3. QED
      BY <2>1, <2>2 DEF HeadInv
  <1>17. QED
    BY <1>2, <1>3, <1>9, <1>10, <1>11, <1>12, <1>14, <1>15, <1>16, FlashStepKeeps

\* A step of the shrink changes the minute tier only, and what is written there
\* is what the journals made of it before.
LEMMA ShrinkStep ==
  ASSUME CompactInv, M \in Tier, pending = None, shrink # None, clock' = clock, ring' = ring,
         \A t \in Tier : t # M => file'[t] = file[t],
         \A t \in Tier : t # M => WriteOf(t)' = WriteOf(t) /\ ShrinkOf(t)' = ShrinkOf(t),
         NEW g, NEW p, NEW s, file'[M] = g, WriteOf(M)' = p, ShrinkOf(M)' = s,
         shrink' # None => shrink'.tier = M,
         Replays(g, p, s) = Replays(file[M], None, shrink), FlashOK(M, g, p, s, clock)
  PROVE  FlashInv' /\ SameWhole
  <1>1. FlashInv /\ WriteOf(M) = None /\ ShrinkOf(M) = shrink
    BY ShrinkingState DEF CompactInv, WriteOf
  <1>2. ASSUME NEW t \in Tier PROVE TierOK(t)' /\ Whole(t)' = Whole(t)
    <2>1. CASE t = M
      <3>1. Whole(M)' = Replays(g, p, s) /\ Whole(M) = Replays(file[M], None, shrink)
        BY <1>1, Zenon DEF Whole
      <3>2. ring[M] = 0
        BY <1>1 DEF FlashInv, TierOK
      <3>3. QED
        BY <2>1, <3>1, <3>2, Zenon DEF TierOK
    <2>2. CASE t # M
      BY <1>1, <2>2, TierStays DEF FlashInv
    <2>3. QED
      BY <2>1, <2>2
  <1>3. QED
    BY <1>1, <1>2 DEF FlashInv, SameWhole

LEMMA ShrinkFlash ==
  ASSUME CompactInv, shrink # None, pending = None
  PROVE  /\ M \in Tier /\ shrink \in Shrinking /\ file[M] \in Seq(Cell) /\ buffer \in Time
         /\ FlashOK(M, file[M], None, shrink, clock)
         /\ \A t : WriteOf(t) = None /\ (t # M => ShrinkOf(t) = None)
  <1>1. ShrinkOf(M) = shrink /\ M \in Tier /\ shrink \in Shrinking /\ shrink.tier = M
    BY ShrinkingState
  <1>2. WriteOf(M) = None
    BY DEF WriteOf
  <1>3. FlashOK(M, file[M], WriteOf(M), ShrinkOf(M), clock)
    BY <1>1 DEF CompactInv, FlashInv, TierOK
  <1>4. file[M] \in Seq(Cell) /\ buffer \in Time
    BY <1>1, Types DEF CompactInv
  <1>5. QED
    BY <1>1, <1>2, <1>3, <1>4 DEF WriteOf, ShrinkOf

LEMMA CopyKeeps ==
  ASSUME CompactInv, Copy
  PROVE  CompactInv' /\ SameWhole
  <1>1. /\ TypeOK /\ StepInv /\ HeadInv /\ BufferInv /\ FlashInv /\ pc = "copy" /\ pending = None
        /\ shrink # None /\ shrink.cursor < Keep(M)
        /\ task = "begin" \/ (task = "update" /\ tier = M)
    BY DEF CompactInv, StepInv, Shrinks, Copy
  <1>2. /\ Kept = Keep(M) /\ Source = shrink.drop + shrink.cursor + 1 /\ shrink.tier = M
        /\ shrink \in Shrinking /\ file[M] \in Seq(Cell) /\ buffer \in Time /\ M \in Tier
        /\ FlashOK(M, file[M], None, shrink, clock)
    BY <1>1, ShrinkingState, ShrinkFlash
  <1> DEFINE p == [tier |-> M, index |-> shrink.cursor + 1,
                   block |-> file[M][shrink.drop + shrink.cursor + 1]]
  <1>3. /\ Len(file[M]) = shrink.total /\ file[M][shrink.drop + shrink.cursor + 1] # Torn
        /\ p \in Writing
        /\ Replays(file[M], p, shrink) = Replays(file[M], None, shrink)
        /\ FlashOK(M, file[M], p, shrink, clock)
    BY <1>1, <1>2, FlashCopied
  <1>4. /\ file' = file /\ ring' = ring /\ shrink' = shrink /\ head' = head
        /\ buffer' = buffer /\ clock' = clock /\ faults' = faults
    BY DEF Copy
  <1>5. /\ pending' = p /\ pc' = "place" /\ after' = "advance" /\ task' = task /\ tier' = tier
        /\ next' = next
    BY <1>2, <1>3 DEF Copy, WriteThen
  <1>6. p.tier = M
    OBVIOUS
  <1> HIDE DEF p
  <1>7. p # None
    BY <1>3, KindAssumption DEF Writing
  <1>8. /\ \A t : ShrinkOf(t)' = ShrinkOf(t) /\ (t # M => WriteOf(t)' = WriteOf(t))
        /\ WriteOf(M)' = p /\ ShrinkOf(M)' = shrink
    BY <1>1, <1>2, <1>4, <1>5, <1>6, <1>7 DEF ShrinkOf, WriteOf
  <1>9. FlashTypes'
    BY <1>1, <1>3, <1>4, <1>5, TypeParts DEF FlashTypes, Writing
  <1>10. FlashInv' /\ SameWhole
    BY <1>1, <1>2, <1>3, <1>4, <1>8, ShrinkStep
  <1>11. BufferInv'
    BY <1>1, <1>4, <1>10 DEF BufferInv, SameWhole
  <1>12. ControlTypes'
    BY <1>1, <1>4, <1>5, TypeParts DEF ControlTypes, Pc
  <1>13. StepInv' /\ PlaceInv' /\ OwedInv'
    BY <1>1, <1>4, <1>5, <1>6, <1>7 DEF StepInv, Shrinks, PlaceInv, OwedInv
  <1>14. HeadInv'
    <2>1. ASSUME Running', NEW t \in Tier PROVE HeadOK(t)'
      <3>1. HeadOK(t) /\ ~ Stale(t)
        BY <1>1, <1>5, <2>1 DEF HeadInv, Running, Stale
      <3>2. t = M => ShrinkOf(t) # None
        BY <1>1, <1>2 DEF ShrinkOf
      <3>3. QED
        BY <1>4, <1>8, <3>1, <3>2, Zenon DEF HeadOK
    <2>2. QED
      BY <1>5, <2>1 DEF HeadInv, NextInv
  <1>15. QED
    BY <1>2, <1>4, <1>9, <1>10, <1>11, <1>12, <1>13, <1>14, FlashStepKeeps

LEMMA AdvanceKeeps ==
  ASSUME CompactInv, Advance
  PROVE  CompactInv' /\ SameWhole
  <1>1. /\ TypeOK /\ StepInv /\ HeadInv /\ BufferInv /\ FlashInv /\ pc = "advance" /\ pending = None
        /\ shrink # None /\ shrink.cursor < Keep(M)
        /\ task = "begin" \/ (task = "update" /\ tier = M)
        /\ file[M][shrink.cursor + 1] = file[M][shrink.drop + shrink.cursor + 1]
    BY DEF CompactInv, StepInv, Shrinks, Advance
  <1>2. /\ shrink.tier = M /\ M \in Tier /\ shrink \in Shrinking /\ file[M] \in Seq(Cell)
        /\ buffer \in Time /\ FlashOK(M, file[M], None, shrink, clock)
    BY <1>1, ShrinkingState, ShrinkFlash
  <1> DEFINE s == [shrink EXCEPT !.cursor = @ + 1]
  <1>3. /\ s \in Shrinking /\ s.drop = shrink.drop /\ s.total = shrink.total
        /\ s.cursor = shrink.cursor + 1 /\ s.tier = M
    BY <1>2 DEF Shrinking
  <1>4. /\ file' = file /\ ring' = ring /\ pending' = None /\ shrink' = s /\ head' = head
        /\ buffer' = buffer /\ clock' = clock /\ faults' = faults
        /\ pc' = "recoverShrink" /\ task' = task /\ tier' = tier /\ after' = after /\ next' = next
    BY <1>1 DEF Advance, Goto
  <1> HIDE DEF s
  <1>5. /\ Replays(file[M], None, s) = Replays(file[M], None, shrink)
        /\ FlashOK(M, file[M], None, s, clock)
    BY <1>1, <1>2, <1>3, FlashAdvanced
  <1>6. s # None
    BY <1>3, KindAssumption DEF Shrinking
  <1>7. /\ \A t : WriteOf(t)' = None /\ WriteOf(t) = None /\ (t # M => ShrinkOf(t)' = ShrinkOf(t))
        /\ ShrinkOf(M)' = s
    BY <1>1, <1>2, <1>3, <1>4, <1>6 DEF ShrinkOf, WriteOf
  <1>8. FlashTypes'
    BY <1>1, <1>3, <1>4, TypeParts DEF FlashTypes, Shrinking
  <1>9. FlashInv' /\ SameWhole
    BY <1>1, <1>2, <1>3, <1>4, <1>5, <1>7, ShrinkStep
  <1>10. BufferInv'
    BY <1>1, <1>4 DEF BufferInv
  <1>11. ControlTypes'
    BY <1>1, <1>4, TypeParts DEF ControlTypes, Pc
  <1>12. StepInv' /\ PlaceInv' /\ OwedInv'
    BY <1>1, <1>4, <1>6 DEF StepInv, Shrinks, PlaceInv, OwedInv
  <1>13. HeadInv'
    <2>1. ASSUME Running', NEW t \in Tier PROVE HeadOK(t)'
      <3>1. HeadOK(t) /\ ~ Stale(t)
        BY <1>1, <1>4, <2>1 DEF HeadInv, Running, Stale
      <3>2. t = M => ShrinkOf(t) # None
        BY <1>1, <1>2 DEF ShrinkOf
      <3>3. QED
        BY <1>4, <1>6, <1>7, <3>1, <3>2, Zenon DEF HeadOK
    <2>2. QED
      BY <1>4, <2>1 DEF HeadInv, NextInv
  <1>14. QED
    BY <1>2, <1>4, <1>8, <1>9, <1>10, <1>11, <1>12, <1>13, FlashStepKeeps

LEMMA TruncateKeeps ==
  ASSUME CompactInv, Truncate
  PROVE  CompactInv' /\ SameWhole
  <1>1. /\ TypeOK /\ StepInv /\ HeadInv /\ BufferInv /\ FlashInv /\ pc = "truncate"
        /\ pending = None /\ shrink # None /\ shrink.cursor = Keep(M)
        /\ task = "begin" \/ (task = "update" /\ tier = M)
    BY DEF CompactInv, StepInv, Shrinks, Truncate
  <1>2. /\ Kept = Keep(M) /\ shrink.tier = M /\ M \in Tier
        /\ shrink \in Shrinking /\ file[M] \in Seq(Cell) /\ buffer \in Time
        /\ FlashOK(M, file[M], None, shrink, clock) /\ ring[M] = 0
    BY <1>1, ShrinkingState, ShrinkFlash DEF FlashInv, TierOK
  <1> DEFINE g == SubSeq(file[M], 1, Keep(M))
  <1>3. /\ g \in Seq(Cell) /\ Len(g) = Keep(M)
        /\ Replays(g, None, shrink) = Replays(file[M], None, shrink)
        /\ FlashOK(M, g, None, shrink, clock)
    BY <1>1, <1>2, FlashTruncated
  <1> HIDE DEF g
  <1>4. /\ file' = [file EXCEPT ![M] = g] /\ ring' = ring /\ pending' = None /\ shrink' = shrink
        /\ head' = head /\ buffer' = buffer /\ clock' = clock /\ faults' = faults
        /\ pc' = "forget" /\ task' = task /\ tier' = tier /\ after' = after /\ next' = next
    BY <1>1, <1>2 DEF Truncate, Goto, g
  <1>5. file'[M] = g /\ \A t \in Tier : t # M => file'[t] = file[t]
    BY <1>1, <1>2, <1>4, Types
  <1>6. /\ \A t : WriteOf(t)' = None /\ WriteOf(t) = None /\ ShrinkOf(t)' = ShrinkOf(t)
        /\ ShrinkOf(M)' = shrink
    BY <1>1, <1>2, <1>4 DEF ShrinkOf, WriteOf
  <1>7. FlashTypes'
    <2>1. file' \in [Tier -> Seq(Cell)]
      BY <1>1, <1>2, <1>3, <1>4 DEF TypeOK, Cell
    <2>2. QED
      BY <1>1, <1>4, <2>1, TypeParts DEF FlashTypes, Cell
  <1>8. FlashInv' /\ SameWhole
    BY <1>1, <1>2, <1>3, <1>4, <1>5, <1>6, ShrinkStep
  <1>9. BufferInv'
    BY <1>1, <1>4 DEF BufferInv
  <1>10. ControlTypes'
    BY <1>1, <1>4, TypeParts DEF ControlTypes, Pc
  <1>11. StepInv' /\ PlaceInv' /\ OwedInv'
    BY <1>1, <1>3, <1>4, <1>5 DEF StepInv, Shrinks, PlaceInv, OwedInv
  <1>12. HeadInv'
    <2>1. ASSUME Running', NEW t \in Tier PROVE HeadOK(t)'
      <3>1. HeadOK(t) /\ ~ Stale(t)
        BY <1>1, <1>4, <2>1 DEF HeadInv, Running, Stale
      <3>2. t = M => ShrinkOf(t) # None
        BY <1>1, <1>2 DEF ShrinkOf
      <3>3. t # M => file'[t] = file[t]
        BY <1>5
      <3>4. QED
        BY <1>4, <1>6, <3>1, <3>2, <3>3, Zenon DEF HeadOK
    <2>2. QED
      BY <1>4, <2>1 DEF HeadInv, NextInv
  <1>13. QED
    BY <1>2, <1>4, <1>7, <1>8, <1>9, <1>10, <1>11, <1>12, FlashStepKeeps

LEMMA ForgetKeeps ==
  ASSUME CompactInv, Forget
  PROVE  CompactInv' /\ SameWhole
  <1>1. /\ TypeOK /\ StepInv /\ HeadInv /\ BufferInv /\ FlashInv /\ pc = "forget"
        /\ pending = None /\ shrink # None /\ shrink.cursor = Keep(M)
        /\ task = "begin" \/ (task = "update" /\ tier = M)
        /\ Len(file[M]) = Keep(M)
    BY DEF CompactInv, StepInv, Shrinks, Forget
  <1>2. /\ shrink.tier = M /\ M \in Tier /\ shrink \in Shrinking /\ file[M] \in Seq(Cell)
        /\ buffer \in Time /\ FlashOK(M, file[M], None, shrink, clock) /\ Keep(M) \in Nat
    BY <1>1, ShrinkingState, ShrinkFlash
  <1>3. /\ Replays(file[M], None, None) = Replays(file[M], None, shrink)
        /\ FlashOK(M, file[M], None, None, clock)
    BY <1>1, <1>2, FlashForgotten
  <1>4. /\ file' = file /\ ring' = ring /\ pending' = None /\ shrink' = None /\ head' = head
        /\ buffer' = buffer /\ clock' = clock /\ faults' = faults
        /\ pc' = "load" /\ task' = task /\ tier' = tier /\ after' = after /\ next' = next
    BY <1>1 DEF Forget, Goto
  <1>5. /\ \A t : WriteOf(t)' = None /\ WriteOf(t) = None /\ ShrinkOf(t)' = None
        /\ \A t : t # M => ShrinkOf(t) = None
    BY <1>1, <1>2, <1>4 DEF ShrinkOf, WriteOf
  <1>6. FlashTypes'
    BY <1>1, <1>4, TypeParts DEF FlashTypes
  <1>7. FlashInv' /\ SameWhole
    BY <1>1, <1>2, <1>3, <1>4, <1>5, ShrinkStep
  <1>8. BufferInv'
    BY <1>1, <1>4 DEF BufferInv
  <1>9. ControlTypes'
    BY <1>1, <1>4, TypeParts DEF ControlTypes, Pc
  <1>10. Len(file'[M]) <= Keep(M)
    BY <1>1, <1>2, <1>4
  <1>11. StepInv' /\ PlaceInv' /\ OwedInv'
    BY <1>1, <1>4, <1>10 DEF StepInv, Shrinks, PlaceInv, OwedInv
  <1>12. HeadInv'
    <2>1. ASSUME Running', NEW t \in Tier PROVE HeadOK(t)'
      <3>1. HeadOK(t) /\ ~ Stale(t)
        BY <1>1, <1>4, <2>1 DEF HeadInv, Running, Stale
      <3>2. t = M => Stale(t)'
        BY <1>1, <1>4, <2>1 DEF Stale, Running
      <3>3. QED
        BY <1>4, <1>5, <3>1, <3>2, Zenon DEF HeadOK
    <2>2. QED
      BY <1>4, <2>1 DEF HeadInv, NextInv
  <1>13. QED
    BY <1>2, <1>4, <1>6, <1>7, <1>8, <1>9, <1>11, <1>12, FlashStepKeeps

\* Records that are forgotten have left the window.
Forgets(t) ==
  /\ \E e \in Time : /\ e + Capacity[t] <= clock
                     /\ Contents(Whole(t))' = {x \in Contents(Whole(t)) : x > e}
  /\ \A u \in Tier : u # t => Whole(u)' = Whole(u)

LEMMA PruneStarts ==
  ASSUME MinuteAndFive, CompactInv, Prune, tier = M, Oversized(M), shrink = None,
         shrink' = [tier |-> tier, drop |-> Dropped(tier), total |-> Len(file[tier]), cursor |-> 0],
         Goto("recoverShrink")
  PROVE  CompactInv' /\ Forgets(M)
  <1>1. /\ TypeOK /\ StepInv /\ HeadInv /\ FlashInv /\ pc = "prune" /\ task = "update"
        /\ M \in Tier /\ ring[M] = 0
    BY Types DEF CompactInv, StepInv, Prune, FlashInv, TierOK
  <1>2. /\ pending = None /\ Len(file[M]) > Keep(M) /\ buffer = 0 /\ Whole(M) = file[M]
        /\ FlashOK(M, file[M], None, None, clock)
    BY <1>1, WithinLimit
  <1>3. file[M] \in Seq(Cell) /\ clock \in Time /\ clock \in Nat
    BY <1>1, Types
  <1>4. Dropped(M) = Len(file[M]) - Keep(M)
    BY <1>1, <1>2, <1>3, DroppedIs
  <1> DEFINE s == [tier |-> M, drop |-> Len(file[M]) - Keep(M),
                   total |-> Len(file[M]), cursor |-> 0]
  <1>5. shrink' = s
    BY <1>4
  <1>6. s.drop = Len(file[M]) - Keep(M) /\ s.tier = M
    OBVIOUS
  <1>7. /\ s \in Shrinking /\ FirstBlock(file[M]) = 1
        /\ \A i \in 1 .. Len(file[M]) - Keep(M) : EndOf(file[M][i]) + Capacity[M] <= clock
        /\ FlashOK(M, file[M], None, s, clock)
        /\ Replays(file[M], None, s) = Rest(file[M], s.drop)
        /\ s.drop \in 1 .. Len(file[M]) - 1
        /\ Contents(Rest(file[M], s.drop)) =
             {x \in Contents(file[M]) : x > EndOf(file[M][s.drop]) - 1}
    <2> DEFINE f == file[M]
    <2>1. /\ M \in Tier /\ clock \in Time /\ FlashOK(M, f, None, None, clock) /\ Len(f) > Keep(M)
          /\ s = [tier |-> M, drop |-> Len(f) - Keep(M), total |-> Len(f), cursor |-> 0]
      BY <1>1, <1>2, <1>3
    <2> HIDE DEF f, s
    <2>2. QED
      <3>1. Shortens(M, f, s, clock)
        BY <2>1, FlashShrunk, Zenon
      <3>2. QED
        BY <3>1 DEF Shortens, f
  <1> HIDE DEF s
  <1>9. s # None
    BY <1>7, KindAssumption DEF Shrinking
  <1>10. /\ file' = file /\ ring' = ring /\ pending' = None /\ shrink' = s /\ head' = head
         /\ buffer' = 0 /\ clock' = clock /\ faults' = faults
         /\ pc' = "recoverShrink" /\ task' = task /\ tier' = tier /\ after' = after /\ next' = next
    BY <1>2, <1>5 DEF Prune, Goto
  <1>11. /\ \A t : WriteOf(t)' = None /\ WriteOf(t) = None /\ ShrinkOf(t) = None
         /\ \A t : t # M => ShrinkOf(t)' = None
         /\ ShrinkOf(M)' = s
    BY <1>2, <1>6, <1>9, <1>10 DEF ShrinkOf, WriteOf
  <1>12. FlashTypes'
    BY <1>1, <1>7, <1>10, TypeParts DEF FlashTypes, Shrinking
  <1>13. ASSUME NEW t \in Tier, t # M PROVE TierOK(t)' /\ Whole(t)' = Whole(t)
    BY <1>1, <1>10, <1>11, <1>13, TierStays DEF FlashInv
  <1>14. TierOK(M)' /\ Whole(M)' = Rest(file[M], s.drop)
    <2>1. FlashOK(M, file'[M], WriteOf(M)', ShrinkOf(M)', clock')
      BY <1>7, <1>10, <1>11, Zenon
    <2>2. Whole(M)' = Replays(file[M], None, s)
      BY <1>10, <1>11, Zenon DEF Whole
    <2>3. QED
      BY <1>1, <1>7, <1>10, <2>1, <2>2 DEF TierOK
  <1>15. FlashInv'
    BY <1>1, <1>6, <1>10, <1>13, <1>14 DEF FlashInv
  <1>16. BufferInv'
    BY <1>3, <1>10 DEF BufferInv
  <1>17. ControlTypes'
    BY <1>1, <1>10, TypeParts DEF ControlTypes, Pc
  <1>18. StepInv' /\ PlaceInv' /\ OwedInv'
    BY <1>1, <1>9, <1>10 DEF StepInv, Shrinks, PlaceInv, OwedInv
  <1>19. head[M].first = 1 /\ head[M].blocks > Keep(M)
    BY <1>1 DEF Oversized, MinuteAndFive, Keep, M
  <1>20. HeadInv'
    <2>1. ASSUME NEW t \in Tier PROVE HeadOK(t)'
      <3>1. HeadOK(t) /\ ~ Stale(t)
        BY <1>1 DEF HeadInv, Running, Stale
      <3>2. CASE t = M
        BY <1>9, <1>10, <1>11, <1>19, <3>2, Zenon DEF HeadOK
      <3>3. CASE t # M
        BY <1>10, <1>11, <3>1, <3>3, Zenon DEF HeadOK
      <3>4. QED
        BY <3>2, <3>3
    <2>2. QED
      BY <1>10, <2>1 DEF HeadInv, NextInv
  <1>21. 0 \in Time
    BY Sizes DEF Time
  <1>22. CompactInv'
    BY <1>10, <1>12, <1>15, <1>16, <1>17, <1>18, <1>20, <1>21, FlashStepKeeps
  <1>23. Forgets(M)
    <2> DEFINE e == EndOf(file[M][s.drop]) - 1
    <2>1. s.drop \in 1 .. Len(file[M]) /\ s.drop \in 1 .. Len(file[M]) - Keep(M)
      BY <1>6, <1>7
    <2>2. file[M][s.drop] \in Block
      BY <1>1, <1>2, <2>1, FlashPlain
    <2>3. EndOf(file[M][s.drop]) \in Nat /\ EndOf(file[M][s.drop]) > file[M][s.drop].start
          /\ file[M][s.drop].start \in Nat
      BY <2>2, BlockParts
    <2>4. EndOf(file[M][s.drop]) + Capacity[M] <= clock
      BY <1>7, <2>1
    <2>5. e \in Time /\ e + Capacity[M] <= clock
      BY <1>1, <1>3, <2>3, <2>4, Sizes DEF Time
    <2>6. Contents(Whole(M))' = {x \in Contents(Whole(M)) : x > e}
      <3>1. Contents(Whole(M))' = Contents(Rest(file[M], s.drop))
        BY <1>14 DEF Contents
      <3>2. QED
        BY <1>2, <1>7, <3>1
    <2> HIDE DEF e
    <2>7. QED
      BY <1>13, <2>5, <2>6 DEF Forgets
  <1>24. QED
    BY <1>22, <1>23

\* A step of update() that changes only where the firmware is.
LEMMA MovesOn ==
  ASSUME MinuteAndFive, CompactInv, Quiet, faults' = faults, pc \in {"prune", "record"},
         task' = task, after' = after, next' = next,
         pc' \in {"idle", "record"}, tier' = tier,
         pc' = "record" => (tier = M => shrink = None /\ Len(Whole(M)) <= Keep(M)),
         pc' = "record" => pc = "prune"
  PROVE  CompactInv' /\ SameWhole
  <1>1. TypeOK /\ StepInv /\ HeadInv /\ OwedInv /\ FlashInv /\ task = "update"
    BY DEF CompactInv, StepInv
  <1>2. /\ file' = file /\ pending' = pending /\ shrink' = shrink /\ head' = head
        /\ UNCHANGED flash /\ clock' = clock /\ clock \in Time /\ clock \in Nat
    BY <1>1, QuietParts, Types
  <1>3. ControlTypes'
    BY <1>1, TypeParts DEF ControlTypes, Pc
  <1>4. M \in Tier => Whole(M)' = Whole(M)
    BY <1>1, <1>2, FlashStays DEF SameWhole
  <1>5. StepInv' /\ PlaceInv'
    <2>1. tier \in Tier
      BY <1>1, Types
    <2>2. QED
      BY <1>1, <1>2, <1>4, <2>1 DEF StepInv, Shrinks, PlaceInv
  <1>6. HeadInv'
    <2>1. Running /\ \A t \in Tier : Stale(t) => Stale(t)'
      BY <1>1 DEF Running, Stale
    <2>2. \A t \in Tier : HeadOK(t)'
      <3>1. Running'
        BY <1>1 DEF Running
      <3>2. QED
        BY <1>1, <1>2, <2>1, <3>1, HeadsStay
    <2>3. QED
      BY <2>2 DEF HeadInv, NextInv
  <1>7. OwedInv'
    BY <1>1, <1>2 DEF OwedInv, Running
  <1>8. QED
    BY <1>3, <1>5, <1>6, <1>7, QuietKeeps

LEMMA PruneKeeps ==
  ASSUME MinuteAndFive, CompactInv, Prune
  PROVE  CompactInv' /\ (SameWhole \/ \E t \in Tier : Forgets(t))
  <1>1. /\ TypeOK /\ FlashInv /\ pc = "prune" /\ ~ Downgraded /\ tier \in Tier
        /\ file[tier] \in Seq(Cell) /\ clock \in Time
        /\ UNCHANGED <<file, ring, pending, head, buffer, clock, faults>>
    BY DowngradedNever, Types DEF CompactInv, Prune
  <1>2. CASE ~ Oversized(tier)
    <2>1. /\ shrink' = shrink
          /\ pc' = "record" /\ task' = task /\ tier' = tier /\ after' = after /\ next' = next
      BY <1>1, <1>2 DEF Prune, Goto
    <2>2. tier = M => shrink = None /\ Len(Whole(M)) <= Keep(M)
      BY <1>1, <1>2, WithinLimit
    <2>3. Quiet
      BY <1>1, <2>1 DEF Quiet, flash
    <2>4. QED
      BY <1>1, <2>1, <2>2, <2>3, MovesOn
  <1>3. ASSUME PartEnds, shrink' = shrink PROVE CompactInv' /\ SameWhole
    <2>1. /\ pc' = "idle" /\ task' = task /\ tier' = tier /\ after' = after /\ next' = next
      BY <1>3, EndsIdle
    <2>2. Quiet
      BY <1>1, <1>3 DEF Quiet, flash
    <2>3. QED
      BY <1>1, <2>1, <2>2, MovesOn
  <1>4. ASSUME Oversized(tier) PROVE tier = M
    BY <1>1, <1>4 DEF Oversized, MinuteAndFive, M
  <1>5. CASE Oversized(tier) /\ shrink # None
    <2>1. PartEnds /\ shrink' = shrink
      BY <1>1, <1>4, <1>5 DEF Prune, Unfinished, M
    <2>2. QED
      BY <1>3, <2>1
  <1>6. CASE Oversized(tier) /\ shrink = None
    <2>1. tier = M /\ Len(file[M]) > Keep(M) /\ FlashOK(M, file[M], None, None, clock)
      BY <1>1, <1>4, <1>6, WithinLimit
    <2>2. Dropped(tier) # 0
      <3>1. Dropped(M) = Len(file[M]) - Keep(M) /\ Len(file[M]) - Keep(M) \in Nat \ {0}
        BY <1>1, <2>1, DroppedIs
      <3>2. QED
        BY <2>1, <3>1
    <2>3. \/ PartEnds /\ shrink' = shrink
          \/ /\ Goto("recoverShrink")
             /\ shrink' = [tier |-> tier, drop |-> Dropped(tier),
                           total |-> Len(file[tier]), cursor |-> 0]
      BY <1>1, <1>6, <2>2 DEF Prune, Unfinished
    <2>4. QED
      BY <1>1, <1>3, <1>6, <2>1, <2>3, PruneStarts
  <1>7. QED
    BY <1>2, <1>5, <1>6

\* A step that leaves the flash alone.
LEMMA RamStepKeeps ==
  ASSUME CompactInv, UNCHANGED flash, clock' \in Time, clock <= clock',
         head' \in [Tier -> Header], buffer' \in Time,
         BufferInv', ControlTypes', StepInv', PlaceInv', HeadInv', OwedInv'
  PROVE  CompactInv' /\ SameWhole
  <1>1. TypeOK /\ FlashInv
    BY DEF CompactInv
  <1>2. FlashInv' /\ SameWhole /\ FlashTypes'
    BY <1>1, FlashStays
  <1>3. TypeOK'
    BY <1>2, TypeParts
  <1>4. QED
    BY <1>2, <1>3 DEF CompactInv

\* The file of a tier without journals.
LEMMA PlainTier ==
  ASSUME CompactInv, NEW t \in Tier, WriteOf(t) = None, ShrinkOf(t) = None
  PROVE  /\ FlashOK(t, file[t], None, None, clock) /\ Whole(t) = file[t]
         /\ ring[t] = 0 /\ \E k \in DOMAIN file[t] : Ordered(t, file[t], k)
  <1>1. FlashOK(t, file[t], WriteOf(t), ShrinkOf(t), clock) /\ ring[t] = 0
    BY DEF CompactInv, FlashInv, TierOK
  <1>2. FlashOK(t, file[t], None, None, clock) /\ Whole(t) = Replays(file[t], None, None)
    BY <1>1, Zenon DEF Whole
  <1>3. QED
    BY <1>1, <1>2, FlashPlain

LEMMA LoadKeeps ==
  ASSUME CompactInv, Load
  PROVE  CompactInv' /\ SameWhole
  <1>1. /\ TypeOK /\ StepInv /\ HeadInv /\ BufferInv /\ FlashInv /\ pc = "load"
        /\ pending = None /\ shrink = None
        /\ task = "begin" \/ (task = "update" /\ tier = M)
        /\ task = "update" => Len(file[M]) <= Keep(M)
    BY DEF CompactInv, StepInv, Shrinks, Load
  <1>2. /\ file' = file /\ pending' = None /\ shrink' = None /\ UNCHANGED flash
        /\ buffer' = buffer /\ clock' = clock /\ faults' = faults
    BY <1>1 DEF Load, flash
  <1>3. /\ tier \in Tier /\ buffer \in Time /\ clock \in Time /\ clock \in Nat
        /\ head \in [Tier -> Header]
    BY <1>1, Types
  <1>4. \A t : WriteOf(t) = None /\ ShrinkOf(t) = None /\ WriteOf(t)' = None /\ ShrinkOf(t)' = None
    BY <1>1, <1>2 DEF WriteOf, ShrinkOf
  <1>5. ASSUME NEW t \in Tier
        PROVE  /\ Readable(t) /\ LoadedHeader(t) = Loaded(t, file[t]) /\ LoadedHeader(t) \in Header
               /\ Whole(t) = file[t]
    <2>1. ring[t] = 0 /\ Whole(t) = file[t]
      BY <1>4, PlainTier
    <2>2. PICK k \in DOMAIN file[t] : Ordered(t, file[t], k)
      BY <1>4, PlainTier
    <2>3. Loadable(file[t]) /\ Loaded(t, file[t]) \in Header
      BY <2>2, OrderedLoads, LoadedType
    <2>4. QED
      BY <2>1, <2>3 DEF Readable, LoadedHeader
  <1>6. /\ task' = task /\ tier' = tier /\ after' = after /\ next' = next
        /\ pc' = IF task = "begin" THEN "idle" ELSE "record"
        /\ head' = IF task = "begin" THEN [t \in Tier |-> LoadedHeader(t)]
                   ELSE [head EXCEPT ![tier] = LoadedHeader(tier)]
    BY <1>1, <1>3, <1>5 DEF Load, Goto
  <1>7. head' \in [Tier -> Header]
    BY <1>3, <1>5, <1>6
  <1>8. SameWhole
    BY <1>1, <1>2, <1>3, FlashStays
  <1>9. ControlTypes'
    BY <1>1, <1>2, <1>6, TypeParts DEF ControlTypes, Pc
  <1>10. StepInv' /\ PlaceInv' /\ OwedInv'
    <2>1. task = "update" => Len(Whole(M))' <= Keep(M)
      BY <1>1, <1>3, <1>5, <1>8 DEF SameWhole
    <2>2. QED
      BY <1>1, <1>2, <1>6, <2>1 DEF StepInv, Shrinks, PlaceInv, OwedInv
  <1>11. HeadInv'
    <2>1. ASSUME NEW t \in Tier PROVE head'[t] = Loaded(t, file[t])
      <3>1. CASE task = "begin"
        BY <1>5, <1>6, <3>1
      <3>2. CASE task # "begin" /\ t = tier
        BY <1>3, <1>5, <1>6, <3>2
      <3>3. CASE task # "begin" /\ t # tier
        <4>1. head[t] = Loaded(t, file[t])
          BY <1>1, <1>4, <3>3 DEF HeadInv, HeadOK, Running, Stale
        <4>2. QED
          BY <1>3, <1>6, <3>3, <4>1
      <3>4. QED
        BY <3>1, <3>2, <3>3
    <2>2. ASSUME NEW t \in Tier PROVE HeadOK(t)'
      BY <1>2, <1>4, <2>1, Zenon DEF HeadOK
    <2>3. QED
      BY <1>6, <2>2 DEF HeadInv, NextInv
  <1>12. BufferInv'
    BY <1>1, <1>2, <1>8 DEF BufferInv, SameWhole
  <1>13. clock <= clock'
    BY <1>2, <1>3
  <1>14. QED
    BY <1>2, <1>3, <1>7, <1>9, <1>10, <1>11, <1>12, <1>13, RamStepKeeps

\* A record is added to a tier.
Adding(t) ==
  /\ \E x \in Time : x <= clock /\ Adds(t, Whole(t), Whole(t)', x, clock)
  /\ \A u \in Tier : u # t => Whole(u)' = Whole(u)

\* The record's journal commits it.
LEMMA WriteCommits ==
  ASSUME CompactInv, NEW t \in Tier, NEW x \in Time, x <= clock, Writable(t, x), Write(t, x),
         t = M => shrink = None /\ Len(Whole(M)) <= Keep(M), t # M => x > head[t].last,
         Running, pc \notin {"load", "acknowledge"},
         task' = "update" \/ (task' = "flush" /\ t = M), tier' = t,
         UNCHANGED <<file, ring, shrink, head, buffer, clock, faults>>
  PROVE  CompactInv' /\ Adding(t)
  <1>1. /\ TypeOK /\ FlashInv /\ HeadInv /\ BufferInv /\ pending = None /\ x >= head[t].last
    BY DEF CompactInv, Writable, JournalFree
  <1>2. \A u : WriteOf(u) = None
    BY <1>1 DEF WriteOf
  <1>3. ShrinkOf(t) = None /\ Len(Whole(t)) <= Keep(t) /\ (t = M => shrink = None)
    BY <1>1 DEF ShrinkOf, FlashInv
  <1>4. /\ FlashOK(t, file[t], None, None, clock) /\ Whole(t) = file[t] /\ ring[t] = 0
    BY <1>2, <1>3, PlainTier
  <1>5. PICK k \in DOMAIN file[t] : Ordered(t, file[t], k)
    BY <1>2, <1>3, PlainTier
  <1>6. \A u \in Tier : HeadOK(u) /\ ~ Stale(u)
    BY <1>1 DEF HeadInv, Stale
  <1>7. Ready(t, k)
    BY <1>2, <1>3, <1>4, <1>5, <1>6 DEF Ready, HeadOK
  <1>8. clock \in Time /\ file[t] \in Seq(Cell) /\ buffer \in Time
    BY <1>1, Types
  <1>9. Written(t, x, clock)
    BY <1>1, <1>7, <1>8, WriteKeeps
  <1> DEFINE p == [tier |-> t, index |-> Target(t, x), block |-> NewBlock(t, x)]
             g == PutBlock(file[t], Target(t, x), NewBlock(t, x))
  <1>10. /\ Target(t, x) \in 1 .. Len(file[t]) + 1 /\ NewBlock(t, x) \in Block
         /\ Len(g) <= Keep(t) /\ \E m \in DOMAIN g : Ordered(t, g, m)
         /\ NextHeader(t, x) = Loaded(t, g)
         /\ Adds(t, file[t], g, x, clock)
         /\ \A y \in Contents(g) : y <= x
    BY <1>9 DEF Written
  <1> HIDE DEF g
  <1>11. /\ p \in Writing /\ p.tier = t /\ p.index = Target(t, x) /\ p.block = NewBlock(t, x)
         /\ g = PutBlock(file[t], p.index, p.block) /\ p.index \in 1 .. Len(file[t]) + 1
    <2>1. Target(t, x) \in Nat
      BY <1>8, <1>10
    <2>2. QED
      BY <1>10, <2>1 DEF Writing, g
  <1>12. /\ pending' = p /\ next' = NextHeader(t, x) /\ pc' = "place" /\ after' = "acknowledge"
         /\ file' = file /\ ring' = ring /\ shrink' = shrink /\ head' = head /\ buffer' = buffer
         /\ clock' = clock /\ faults' = faults
    BY DEF Write
  <1>13. x \in p.block.recs
    BY <1>11 DEF NewBlock
  <1> HIDE DEF p
  <1>14. Replays(file[t], p, None) = g /\ FlashOK(t, file[t], p, None, clock)
    <2> DEFINE f == file[t]
    <2>1. FlashOK(t, f, None, None, clock) /\ clock \in Time /\ p \in Writing
      BY <1>4, <1>8, <1>11
    <2>2. g = PutBlock(f, p.index, p.block) /\ p.index \in 1 .. Len(f) + 1
      BY <1>11
    <2>3. /\ Len(g) <= Keep(t) /\ \E m \in DOMAIN g : Ordered(t, g, m)
          /\ \A y \in Contents(g) : y <= x
      BY <1>10
    <2> HIDE DEF f
    <2>4. Replays(f, p, None) = g /\ FlashOK(t, f, p, None, clock)
      BY <2>1, <2>2, <2>3, FlashWritten
    <2>5. QED
      BY <2>4 DEF f
  <1>15. p # None
    BY <1>11, KindAssumption DEF Writing
  <1>16. /\ WriteOf(t)' = p /\ \A u : ShrinkOf(u)' = ShrinkOf(u)
         /\ \A u : u # t => WriteOf(u)' = None
    BY <1>11, <1>12, <1>15 DEF WriteOf, ShrinkOf
  <1>17. TierOK(t)' /\ Whole(t)' = g
    <2>1. FlashOK(t, file'[t], WriteOf(t)', ShrinkOf(t)', clock')
      BY <1>3, <1>12, <1>14, <1>16, Zenon
    <2>2. Whole(t)' = Replays(file[t], p, None)
      BY <1>3, <1>12, <1>16, Zenon DEF Whole
    <2>3. QED
      BY <1>4, <1>12, <1>14, <2>1, <2>2 DEF TierOK
  <1>18. ASSUME NEW u \in Tier, u # t PROVE TierOK(u)' /\ Whole(u)' = Whole(u)
    BY <1>1, <1>2, <1>12, <1>16, <1>18, TierStays DEF FlashInv
  <1>19. FlashTypes'
    BY <1>1, <1>11, <1>12, TypeParts DEF FlashTypes, Writing
  <1>20. FlashInv'
    BY <1>1, <1>10, <1>12, <1>17, <1>18 DEF FlashInv
  <1>21. BufferInv'
    BY <1>1, <1>10, <1>12, <1>17, <1>18 DEF BufferInv
  <1>22. next' \in Header
    BY <1>10, <1>12, LoadedType
  <1>23. ControlTypes'
    BY <1>1, <1>12, <1>22, TypeParts DEF ControlTypes, Pc
  <1>24. StepInv' /\ PlaceInv'
    BY <1>3, <1>11, <1>12, <1>15 DEF StepInv, Shrinks, PlaceInv
  <1>25. OwedInv'
    BY <1>11, <1>12, <1>13 DEF OwedInv
  <1>26. HeadInv'
    <2>1. head[t].blocks <= Keep(t)
      BY <1>7, ReadyParts
    <2>2. ASSUME NEW u \in Tier PROVE HeadOK(u)'
      <3>1. CASE u = t
        BY <1>3, <1>12, <1>15, <1>16, <2>1, <3>1, Zenon DEF HeadOK
      <3>2. CASE u # t
        BY <1>2, <1>6, <1>12, <1>16, <3>2, Zenon DEF HeadOK
      <3>3. QED
        BY <3>1, <3>2
    <2>3. next' = Loaded(t, Whole(t)')
      BY <1>10, <1>12, <1>17
    <2>4. NextInv'
      BY <1>12, <2>3 DEF NextInv
    <2>5. QED
      BY <2>2, <2>4 DEF HeadInv
  <1>27. CompactInv'
    BY <1>8, <1>12, <1>19, <1>20, <1>21, <1>23, <1>24, <1>25, <1>26, FlashStepKeeps
  <1>28. Adding(t)
    <2>1. Adds(t, Whole(t), Whole(t)', x, clock)
      BY <1>4, <1>10, <1>17
    <2>2. QED
      BY <1>18, <2>1 DEF Adding
  <1>29. QED
    BY <1>27, <1>28

LEMMA CloseBucketKeeps ==
  ASSUME MinuteAndFive, CompactInv, CloseBucket
  PROVE  CompactInv' /\ (SameWhole \/ \E t \in Tier : Adding(t))
  <1>1. /\ pc = "record" /\ task = "update" /\ shrink = None /\ Len(Whole(M)) <= Keep(M)
        /\ tier = M /\ M \in Tier /\ buffer \in Time /\ buffer <= clock
    BY Types DEF CompactInv, StepInv, BufferInv, CloseBucket, M
  <1>2. UNCHANGED <<file, ring, shrink, head, buffer, clock, faults>>
    BY DEF CloseBucket
  <1>3. CASE Writable(M, buffer)
    <2>1. Write(M, buffer) /\ task' = task /\ tier' = tier
      BY <1>1, <1>3 DEF CloseBucket, WriteOrEnd
    <2>2. Running
      BY <1>1 DEF Running
    <2>3. QED
      BY <1>1, <1>2, <1>3, <2>1, <2>2, WriteCommits
  <1>4. CASE ~ Writable(M, buffer)
    <2>1. PartEnds /\ pending' = pending
      BY <1>1, <1>4 DEF CloseBucket, WriteOrEnd
    <2>2. pc' = "idle" /\ task' = task /\ tier' = tier /\ after' = after /\ next' = next
      BY <2>1, EndsIdle
    <2>3. Quiet
      BY <1>2, <2>1 DEF Quiet, flash
    <2>4. QED
      BY <1>1, <1>2, <2>2, <2>3, MovesOn
  <1>5. QED
    BY <1>3, <1>4

LEMMA RequestFlushKeeps ==
  ASSUME CompactInv, RequestFlush
  PROVE  CompactInv' /\ \E t \in Tier : Adding(t)
  <1>1. /\ pc = "idle" /\ buffer # 0 /\ buffer \in Time
        /\ Writable(M, buffer) /\ Write(M, buffer) /\ task' = "flush" /\ tier' = M
        /\ UNCHANGED <<file, ring, shrink, head, buffer, clock, faults>>
    BY Types DEF CompactInv, RequestFlush, M
  <1>2. M \in Tier /\ shrink = None /\ Len(Whole(M)) <= Keep(M) /\ buffer <= clock
    BY <1>1 DEF CompactInv, BufferInv
  <1>3. Running
    BY <1>1 DEF Running
  <1>4. CompactInv' /\ Adding(M)
    BY <1>1, <1>2, <1>3, WriteCommits
  <1>5. QED
    BY <1>2, <1>4

LEMMA OpenBucketKeeps ==
  ASSUME MinuteAndFive, CompactInv, OpenBucket
  PROVE  CompactInv' /\ SameWhole
  <1>1. /\ TypeOK /\ FlashInv /\ HeadInv /\ BufferInv /\ OwedInv /\ pc = "record" /\ task = "update"
        /\ tier = M /\ M \in Tier /\ shrink = None /\ Len(Whole(M)) <= Keep(M)
        /\ buffer \in Time /\ clock \in Time /\ buffer <= clock /\ clock \in Nat
        /\ head \in [Tier -> Header]
    BY Types DEF CompactInv, StepInv, BufferInv, OpenBucket, M
  <1>2. /\ UNCHANGED flash /\ file' = file /\ pending' = pending /\ shrink' = shrink
        /\ head' = head /\ clock' = clock /\ faults' = faults
        /\ pc' = "idle" /\ task' = task /\ tier' = tier /\ after' = after /\ next' = next
        /\ buffer' \in {buffer, clock}
    BY EndsIdle DEF OpenBucket, flash
  <1>3. SameWhole
    BY <1>1, <1>2, FlashStays
  <1>4. buffer' \in Time /\ buffer' <= clock /\ clock <= clock'
    BY <1>1, <1>2
  <1>5. BufferInv'
    BY <1>1, <1>2, <1>3, <1>4 DEF BufferInv, SameWhole
  <1>6. ControlTypes'
    BY <1>1, <1>2, TypeParts DEF ControlTypes, Pc
  <1>7. StepInv' /\ PlaceInv' /\ OwedInv'
    BY <1>1, <1>2 DEF StepInv, Shrinks, PlaceInv, OwedInv, Running
  <1>8. HeadInv'
    <2>1. Running /\ Running' /\ \A t \in Tier : Stale(t) => Stale(t)'
      BY <1>1, <1>2 DEF Running, Stale
    <2>2. \A t \in Tier : HeadOK(t)'
      BY <1>1, <1>2, <2>1, HeadsStay
    <2>3. QED
      BY <1>2, <2>2 DEF HeadInv, NextInv
  <1>9. QED
    BY <1>1, <1>2, <1>4, <1>5, <1>6, <1>7, <1>8, RamStepKeeps

\* A record that waits in the journal is among those the promotion looks for.
LEMMA NothingOwed ==
  ASSUME MinuteAndFive, CompactInv, tier # M, Running, Owed = {}
  PROVE  pending = None \/ pending.tier = M
  <1>1. SUFFICES ASSUME pending # None, pending.tier # M PROVE FALSE
    OBVIOUS
  <1>2. /\ TypeOK /\ FlashInv /\ OwedInv /\ tier \in Tier /\ pending.tier = tier
    <2>1. TypeOK /\ FlashInv /\ OwedInv /\ tier \in Tier /\ pending.tier \in Tier
      BY <1>1, Types DEF CompactInv
    <2>2. QED
      BY <1>1, <2>1 DEF MinuteAndFive, M
  <1>3. PICK x \in pending.block.recs : x > head[tier].last
    BY <1>1, <1>2 DEF OwedInv
  <1> DEFINE f == PutBlock(file[tier], pending.index, pending.block)
  <1>4. Replayed(tier) = f
    BY <1>1, <1>2 DEF Replayed, FlashInv
  <1>5. /\ file[tier] \in Seq(Cell) /\ pending.index \in 1 .. Len(file[tier]) + 1
        /\ pending.block \in Cell /\ pending.block # Torn
    <2>1. file[tier] \in Seq(Cell)
      BY <1>2, Types
    <2>2. pending.index \in 1 .. Len(file[tier]) + 1 /\ pending.block \in Block
      BY <1>1, <1>2, PendingFits
    <2>3. QED
      BY <2>1, <2>2, KindAssumption DEF Cell
  <1>6. pending.index \in DOMAIN f /\ f[pending.index] = pending.block
    BY <1>5, PutIs
  <1> HIDE DEF f
  <1>7. x \in Contents(f)
    BY <1>3, <1>5, <1>6 DEF Contents
  <1>8. QED
    BY <1>3, <1>4, <1>7 DEF Owed

LEMMA PromoteKeeps ==
  ASSUME MinuteAndFive, CompactInv, Promote
  PROVE  CompactInv' /\ (SameWhole \/ \E t \in Tier : Adding(t))
  <1>1. /\ TypeOK /\ StepInv /\ HeadInv /\ OwedInv /\ FlashInv /\ BufferInv
        /\ pc = "record" /\ task = "update" /\ tier # M /\ tier \in Tier
        /\ clock \in Time /\ clock \in Nat /\ head \in [Tier -> Header] /\ buffer \in Time
        /\ UNCHANGED <<file, ring, shrink, head, buffer, clock, faults>>
    BY Types DEF CompactInv, StepInv, Promote, M
  <1>2. Running
    BY <1>1 DEF Running
  <1>3. ASSUME PartEnds, pending' = pending PROVE CompactInv' /\ SameWhole
    <2>1. pc' = "idle" /\ task' = task /\ tier' = tier /\ after' = after /\ next' = next
      BY <1>3, EndsIdle
    <2>2. Quiet
      BY <1>1, <1>3 DEF Quiet, flash
    <2>3. QED
      BY <1>1, <2>1, <2>2, MovesOn
  <1>4. ASSUME Owed = {}, pending' = pending, pc' = "prune", tier' = M, M \in Tier,
               task' = task, after' = after, next' = next
        PROVE  CompactInv' /\ SameWhole
    <2>1. Quiet /\ faults' = faults /\ shrink' = shrink /\ file' = file /\ head' = head
      BY <1>1, <1>4 DEF Quiet, flash
    <2>2. ControlTypes'
      BY <1>1, <1>4, TypeParts DEF ControlTypes, Pc
    <2>3. StepInv' /\ PlaceInv'
      BY <1>1, <1>4 DEF StepInv, Shrinks, PlaceInv
    <2>4. OwedInv'
      BY <1>1, <1>2, <1>4, NothingOwed DEF OwedInv
    <2>5. HeadInv'
      <3>1. Running' /\ \A t \in Tier : Stale(t) => Stale(t)'
        BY <1>1, <1>4 DEF Running, Stale
      <3>2. \A t \in Tier : HeadOK(t)'
        BY <1>1, <1>2, <1>4, <2>1, <3>1, HeadsStay
      <3>3. QED
        BY <1>4, <3>2 DEF HeadInv, NextInv
    <2>6. QED
      BY <2>1, <2>2, <2>3, <2>4, <2>5, QuietKeeps
  <1>5. ASSUME Owed = {}, PartSucceeds, pending' = pending PROVE CompactInv' /\ SameWhole
    BY <1>1, <1>3, <1>4, <1>5 DEF PartSucceeds, M
  <1>6. ASSUME NEW x \in head[tier].last + 1 .. clock, WriteOrEnd(x)
        PROVE  CompactInv' /\ (SameWhole \/ Adding(tier))
    <2>1. x \in Time /\ x <= clock /\ x > head[tier].last
      <3>1. head[tier].last \in Nat /\ clock <= MaxTime /\ MaxTime \in Nat
        BY <1>1, Sizes DEF Header, Time
      <3>2. QED
        BY <1>1, <3>1 DEF Time
    <2>2. CASE Writable(tier, x)
      <3>1. Write(tier, x) /\ task' = task /\ tier' = tier
        BY <1>6, <2>2 DEF WriteOrEnd
      <3>2. QED
        BY <1>1, <1>2, <2>1, <2>2, <3>1, WriteCommits
    <2>3. CASE ~ Writable(tier, x)
      BY <1>3, <1>6, <2>3 DEF WriteOrEnd
    <2>4. QED
      BY <2>2, <2>3
  <1>7. QED
    BY <1>1, <1>5, <1>6 DEF Promote

LEMMA AcknowledgeKeeps ==
  ASSUME MinuteAndFive, CompactInv, Acknowledge
  PROVE  CompactInv' /\ SameWhole
  <1>1. /\ TypeOK /\ StepInv /\ HeadInv /\ BufferInv /\ FlashInv /\ pc = "acknowledge"
        /\ task \in {"update", "flush"} /\ pending = None
        /\ tier = M => shrink = None /\ Len(Whole(M)) <= Keep(M)
        /\ task = "flush" => tier = M
        /\ next = Loaded(tier, file[tier]) /\ next \in Header /\ faults \in 0 .. MaxFaults
        /\ tier \in Tier /\ clock \in Time /\ clock \in Nat /\ buffer \in Time
        /\ head \in [Tier -> Header]
    BY Types DEF CompactInv, StepInv, HeadInv, NextInv, Acknowledge, TypeOK
  <1>2. /\ UNCHANGED flash /\ file' = file /\ pending' = None /\ shrink' = shrink
        /\ clock' = clock /\ faults' = faults /\ clock <= clock'
    BY <1>1 DEF Acknowledge, flash
  <1>3. SameWhole
    BY <1>1, <1>2, FlashStays
  <1>4. ASSUME head' = [head EXCEPT ![tier] = next], BufferInv', buffer' \in Time,
               task' = task, tier' = tier, after' = after, next' = next,
               pc' = "idle" \/ (pc' = "record" /\ tier # M /\ task = "update")
        PROVE  CompactInv'
    <2>1. head' \in [Tier -> Header]
      BY <1>1, <1>4
    <2>2. ControlTypes'
      BY <1>1, <1>2, <1>4, TypeParts DEF ControlTypes, Pc
    <2>3. StepInv' /\ PlaceInv' /\ OwedInv'
      BY <1>1, <1>2, <1>4 DEF StepInv, Shrinks, PlaceInv, OwedInv
    <2>4. HeadInv'
      <3>1. \A t : ShrinkOf(t)' = ShrinkOf(t) /\ WriteOf(t)' = None /\ WriteOf(t) = None
        BY <1>1, <1>2 DEF ShrinkOf, WriteOf
      <3>2. ShrinkOf(tier) = None
        BY <1>1 DEF ShrinkOf, FlashInv
      <3>3. ASSUME NEW t \in Tier PROVE HeadOK(t)'
        <4>1. HeadOK(t)
          BY <1>1 DEF HeadInv, Running
        <4>2. CASE t = tier
          <5>1. head'[t] = Loaded(t, file[t])
            BY <1>1, <1>4, <4>2
          <5>2. QED
            BY <1>2, <3>1, <3>2, <4>2, <5>1, Zenon DEF HeadOK
        <4>3. CASE t # tier
          <5>1. head'[t] = head[t] /\ ~ Stale(t)
            BY <1>1, <1>4, <4>3 DEF Stale
          <5>2. QED
            BY <1>2, <3>1, <4>1, <5>1, Zenon DEF HeadOK
        <4>4. QED
          BY <4>2, <4>3
      <3>4. QED
        BY <1>4, <3>3 DEF HeadInv, NextInv
    <2>5. QED
      BY <1>1, <1>2, <1>4, <2>1, <2>2, <2>3, <2>4, RamStepKeeps
  <1>5. tier = M => Len(Whole(M))' <= Keep(M)
    BY <1>1, <1>3 DEF SameWhole
  <1>6. CASE /\ task = "update" /\ tier = M /\ head' = [head EXCEPT ![tier] = next]
             /\ buffer' = clock /\ PartEnds
    <2>1. BufferInv'
      BY <1>1, <1>2, <1>5, <1>6 DEF BufferInv
    <2>2. QED
      BY <1>1, <1>3, <1>4, <1>6, <2>1, EndsIdle
  <1>7. CASE /\ task = "update" /\ tier # M /\ head' = [head EXCEPT ![tier] = next]
             /\ Goto("record") /\ buffer' = buffer
    <2>1. BufferInv'
      BY <1>1, <1>2, <1>3, <1>7 DEF BufferInv, SameWhole
    <2>2. QED
      BY <1>1, <1>3, <1>4, <1>7, <2>1 DEF Goto
  <1>8. CASE /\ task = "flush" /\ head' = [head EXCEPT ![tier] = next] /\ buffer' = 0 /\ PartEnds
    <2>1. BufferInv' /\ 0 \in Time
      BY <1>1, <1>2, <1>8, Sizes DEF BufferInv, Time
    <2>2. QED
      BY <1>1, <1>3, <1>4, <1>8, <2>1, EndsIdle
  <1>9. CASE PowerOff
    <2>1. FlashInv' /\ FlashTypes'
      BY <1>1, <1>2, FlashStays
    <2>2. QED
      BY <1>1, <1>2, <1>3, <1>9, <2>1, PowerOffKeeps
  <1>10. QED
    BY <1>6, <1>7, <1>8, <1>9 DEF Acknowledge, M

LEMMA TickKeeps ==
  ASSUME CompactInv, Tick
  PROVE  CompactInv' /\ SameWhole /\ clock' \in Time /\ clock' > clock
  <1>1. /\ TypeOK /\ StepInv /\ PlaceInv /\ HeadInv /\ BufferInv /\ OwedInv /\ FlashInv
        /\ pc = "idle"
        /\ clock \in Nat /\ buffer \in Time /\ buffer \in Nat /\ head \in [Tier -> Header]
    BY Types DEF CompactInv, Tick
  <1>2. /\ UNCHANGED flash /\ file' = file /\ pending' = pending /\ shrink' = shrink
        /\ head' = head /\ buffer' = buffer /\ clock' = clock + 1 /\ clock < MaxTime
        /\ faults' = faults
        /\ pc' = pc /\ task' = task /\ tier' = tier /\ after' = after /\ next' = next
    BY DEF Tick, flash
  <1>3. clock' \in Time /\ clock' > clock /\ clock <= clock'
    BY <1>1, <1>2, Sizes DEF Time
  <1>4. SameWhole
    BY <1>1, <1>2, <1>3, FlashStays
  <1>5. BufferInv'
    <2>1. M \in Tier => Whole(M)' = Whole(M)
      BY <1>4 DEF SameWhole
    <2>2. buffer' <= clock'
      BY <1>1, <1>2, <1>3 DEF BufferInv
    <2>3. QED
      BY <1>1, <1>2, <2>1, <2>2 DEF BufferInv
  <1>6. ControlTypes'
    BY <1>1, <1>2, TypeParts DEF ControlTypes
  <1>7. StepInv' /\ PlaceInv' /\ OwedInv'
    BY <1>1, <1>2 DEF StepInv, Shrinks, PlaceInv, OwedInv, Running
  <1>8. HeadInv'
    <2>1. Running /\ Running' /\ \A t \in Tier : Stale(t) => Stale(t)'
      BY <1>1, <1>2 DEF Running, Stale
    <2>2. \A t \in Tier : HeadOK(t)'
      BY <1>1, <1>2, <2>1, HeadsStay
    <2>3. QED
      BY <1>1, <1>2, <2>2 DEF HeadInv, NextInv
  <1>9. QED
    BY <1>1, <1>2, <1>3, <1>4, <1>5, <1>6, <1>7, <1>8, RamStepKeeps
-----------------------------------------------------------------------------
(***************************************************************************)
(* Restarts and faults.                                                    *)
(***************************************************************************)
LEMMA SwitchedOffKeeps ==
  ASSUME MinuteAndFive, CompactInv, PowerOff, UNCHANGED <<flash, clock>>, faults' \in 0 .. MaxFaults
  PROVE  CompactInv' /\ SameWhole
  <1>1. TypeOK /\ FlashInv /\ clock \in Time /\ clock \in Nat
    BY Types DEF CompactInv
  <1>2. FlashInv' /\ FlashTypes' /\ SameWhole
    BY <1>1, FlashStays
  <1>3. QED
    BY <1>1, <1>2, PowerOffKeeps

LEMMA FaultCounted ==
  ASSUME TypeOK, NEW kind, Fault(kind)
  PROVE  faults' \in 0 .. MaxFaults
  BY SizeAssumption DEF TypeOK, Fault

\* An interrupted write in place leaves what the journals make of the file.
LEMMA InterruptedKeeps ==
  ASSUME CompactInv, Interrupted, UNCHANGED <<pending, shrink, clock>>
  PROVE  /\ FlashInv' /\ FlashTypes' /\ SameWhole
         /\ \A t \in Tier : file'[t] = file[t] \/ WriteOf(t) # None
  <1>1. /\ TypeOK /\ FlashInv /\ clock \in Time /\ clock \in Nat
        /\ pc = "place" => pending # None
    BY Types DEF CompactInv, PlaceInv
  <1>2. CASE UNCHANGED <<file, ring>>
    <2>1. UNCHANGED flash
      BY <1>2 DEF flash
    <2>2. QED
      BY <1>1, <1>2, <2>1, FlashStays
  <1>3. CASE pc = "place" /\ ~ UNCHANGED <<file, ring>>
    <2>1. PICK b \in {Torn, pending.block} :
            /\ file' = [file EXCEPT ![pending.tier] = PutBlock(@, pending.index, b)]
            /\ ring' = [ring EXCEPT ![pending.tier] = 0]
      BY <1>3 DEF Interrupted
    <2>2. FlashInv' /\ FlashTypes' /\ SameWhole
      BY <1>1, <1>3, <2>1, PlacedKeeps
    <2>3. ASSUME NEW t \in Tier PROVE file'[t] = file[t] \/ WriteOf(t) # None
      <3>1. t # pending.tier => file'[t] = file[t]
        BY <1>1, <2>1, Types
      <3>2. QED
        BY <1>1, <1>3, <3>1 DEF WriteOf
    <2>4. QED
      BY <2>2, <2>3
  <1>4. QED
    BY <1>2, <1>3 DEF Interrupted

LEMMA PowerCutKeeps ==
  ASSUME MinuteAndFive, CompactInv, PowerCut
  PROVE  CompactInv' /\ SameWhole
  <1>1. TypeOK /\ clock \in Time
    BY Types DEF CompactInv
  <1>2. /\ Interrupted /\ UNCHANGED <<pending, shrink, clock>> /\ PowerOff
        /\ faults' \in 0 .. MaxFaults
    BY <1>1, FaultCounted DEF PowerCut
  <1>3. FlashInv' /\ FlashTypes' /\ SameWhole
    BY <1>2, InterruptedKeeps
  <1>4. clock' \in Time
    BY <1>1, <1>2
  <1>5. QED
    BY <1>2, <1>3, <1>4, PowerOffKeeps

LEMMA IoFailureKeeps ==
  ASSUME MinuteAndFive, CompactInv, IoFailure
  PROVE  CompactInv' /\ SameWhole
  <1>1. /\ TypeOK /\ StepInv /\ HeadInv /\ BufferInv /\ PlaceInv /\ OwedInv /\ buffer \in Time
    BY Types DEF CompactInv
  <1>2. /\ Interrupted /\ pending' = pending /\ shrink' = shrink /\ head' = head
        /\ buffer' = buffer /\ clock' = clock /\ faults' \in 0 .. MaxFaults /\ Fails
        /\ pc \in {"place", "unlink", "copy", "advance", "truncate", "forget"}
    BY <1>1, FaultCounted DEF IoFailure
  <1>3. /\ FlashInv' /\ FlashTypes' /\ SameWhole
        /\ \A t \in Tier : file'[t] = file[t] \/ WriteOf(t) # None
    BY <1>2, InterruptedKeeps
  <1>4. /\ pc' = IF task = "begin" THEN "unmounted" ELSE "idle"
        /\ task' = task /\ tier' = tier /\ after' = after /\ next' = next
    BY <1>2, FailsWhere
  <1>5. BufferInv'
    BY <1>1, <1>2, <1>3 DEF BufferInv, SameWhole
  <1>6. ControlTypes'
    BY <1>1, <1>2, <1>4, TypeParts DEF ControlTypes, Pc
  <1>7. StepInv' /\ PlaceInv'
    BY <1>1, <1>4 DEF StepInv, Shrinks, PlaceInv
  <1>8. OwedInv'
    BY <1>1, <1>2, <1>4 DEF OwedInv, Running
  <1>9. HeadInv'
    <2>1. ASSUME Running', NEW t \in Tier PROVE HeadOK(t)'
      <3>1. HeadOK(t) /\ ~ Stale(t)
        BY <1>1, <1>2, <1>4, <2>1 DEF HeadInv, Running, Stale
      <3>2. WriteOf(t)' = WriteOf(t) /\ ShrinkOf(t)' = ShrinkOf(t)
        BY <1>2, JournalsStay, Zenon
      <3>3. file'[t] = file[t] \/ WriteOf(t) # None
        BY <1>3
      <3>4. QED
        BY <1>2, <3>1, <3>2, <3>3, Zenon DEF HeadOK
    <2>2. QED
      BY <1>4, <2>1 DEF HeadInv, NextInv
  <1>10. QED
    BY <1>1, <1>2, <1>3, <1>5, <1>6, <1>7, <1>8, <1>9, FlashStepKeeps

LEMMA ReadFailureKeeps ==
  ASSUME MinuteAndFive, CompactInv, ReadFailure
  PROVE  CompactInv' /\ SameWhole
  <1>1. TypeOK /\ task = "begin"
    BY DEF CompactInv, ReadFailure
  <1>2. Quiet /\ Fails /\ faults' \in 0 .. MaxFaults
    BY <1>1, FaultCounted DEF ReadFailure, Quiet
  <1>3. /\ pc' = "unmounted" /\ task' = task /\ tier' = tier /\ after' = after /\ next' = next
    BY <1>1, <1>2, FailsWhere
  <1>4. ControlTypes'
    BY <1>1, <1>2, <1>3, TypeParts DEF ControlTypes, Pc
  <1>5. StepInv' /\ PlaceInv' /\ HeadInv' /\ OwedInv'
    BY <1>1, <1>3 DEF StepInv, Shrinks, PlaceInv, HeadInv, NextInv, OwedInv, Running
  <1>6. QED
    BY <1>2, <1>4, <1>5, QuietKeeps

LEMMA SwitchOffs ==
  ASSUME MinuteAndFive, CompactInv, Restart \/ Unplug
  PROVE  CompactInv' /\ SameWhole
  <1>1. /\ PowerOff /\ UNCHANGED <<flash, clock>> /\ faults' = faults
    BY DEF Restart, Unplug
  <1>2. faults' \in 0 .. MaxFaults
    BY <1>1 DEF CompactInv, TypeOK
  <1>3. QED
    BY <1>1, <1>2, SwitchedOffKeeps
-----------------------------------------------------------------------------
(***************************************************************************)
(* The invariant.                                                          *)
(***************************************************************************)
LEMMA InitHolds ==
  ASSUME MinuteAndFive, Init
  PROVE  CompactInv
  <1>1. /\ file \in Archive /\ file \in [Tier -> Seq(Block)]
        /\ \A t \in Tier : Staged(file[t], LegacyCapacity[t])
    BY ArchiveAssumption DEF Init
  <1>2. /\ ring = [t \in Tier |-> 0] /\ pending = None /\ shrink = None /\ clock \in Time
        /\ (\A t \in Tier : LastRecord(file[t]) <= clock) /\ faults = 0
        /\ head = [t \in Tier |-> BlankHeader(t)] /\ buffer = 0 /\ pc = "off" /\ task = "begin"
        /\ tier = FirstOf(Tier) /\ after = "recoverShrink" /\ next = BlankHeader(FirstOf(Tier))
    BY DEF Init
  <1>3. \A t : WriteOf(t) = None /\ ShrinkOf(t) = None
    BY <1>2 DEF WriteOf, ShrinkOf
  <1>4. ASSUME NEW t \in Tier PROVE TierOK(t) /\ Whole(t) = file[t]
    <2>1. file[t] \in Seq(Block) /\ Ordered(t, file[t], 1)
      BY <1>1, StagedIsOrdered
    <2>2. ASSUME NEW x \in Contents(file[t]) PROVE x <= clock
      <3>1. x <= LastRecord(file[t]) /\ x \in Nat /\ LastRecord(file[t]) \in Nat /\ clock \in Nat
        BY <1>2, <2>1, LastIs, ContentsAreTimes DEF Time
      <3>2. LastRecord(file[t]) <= clock
        BY <1>2
      <3>3. QED
        BY <3>1, <3>2
    <2>3. Replays(file[t], None, None) = file[t]
      BY DEF Replays, Put
    <2>4. 1 \in DOMAIN file[t]
      BY <2>1 DEF Ordered
    <2>5. FlashOK(t, file[t], None, None, clock)
      BY <2>1, <2>2, <2>3, <2>4, Zenon DEF FlashOK
    <2>6. QED
      BY <1>2, <1>3, <2>3, <2>5 DEF TierOK, Whole
  <1>5. ASSUME NEW t \in Tier, t # M PROVE Len(Whole(t)) <= Keep(t)
    <2>1. t = "five"
      BY <1>5 DEF MinuteAndFive, M
    <2>2. QED
      BY <1>1, <1>4, <2>1 DEF MinuteAndFive, Keep
  <1>6. FlashInv
    BY <1>2, <1>4, <1>5 DEF FlashInv
  <1>7. TypeOK
    <2>1. file \in [Tier -> Seq(Block \union {Torn})]
      BY <1>1
    <2>2. ring \in [Tier -> Nat] /\ head \in [Tier -> Header] /\ next \in Header /\ tier \in Tier
      BY <1>2, BlankType
    <2>3. 0 \in Time /\ 0 \in 0 .. MaxFaults
      BY SizeAssumption DEF Time
    <2>4. QED
      BY <1>2, <2>1, <2>2, <2>3 DEF TypeOK, Pc
  <1>8. BufferInv
    BY <1>2 DEF BufferInv, Time
  <1>9. StepInv /\ PlaceInv /\ HeadInv /\ OwedInv
    BY <1>2 DEF StepInv, Shrinks, PlaceInv, HeadInv, NextInv, OwedInv, Running
  <1>10. QED
    BY <1>6, <1>7, <1>8, <1>9 DEF CompactInv

LEMMA UnchangedKeeps ==
  ASSUME CompactInv, UNCHANGED vars
  PROVE  CompactInv' /\ SameWhole /\ clock' = clock
  <1>1. /\ UNCHANGED flash /\ clock' = clock /\ head' = head /\ buffer' = buffer
        /\ file' = file /\ ring' = ring /\ pending' = pending /\ shrink' = shrink
        /\ faults' = faults
        /\ pc' = pc /\ task' = task /\ tier' = tier /\ after' = after /\ next' = next
    BY DEF vars, flash
  <1>2. /\ TypeOK /\ BufferInv /\ StepInv /\ PlaceInv /\ HeadInv /\ OwedInv /\ FlashInv
        /\ tier \in Tier
        /\ clock \in Time /\ clock \in Nat /\ buffer \in Time /\ head \in [Tier -> Header]
    BY Types DEF CompactInv
  <1>3. SameWhole
    BY <1>1, <1>2, FlashStays
  <1>4. BufferInv'
    BY <1>1, <1>2, <1>3 DEF BufferInv, SameWhole
  <1>5. ControlTypes'
    BY <1>1, <1>2, TypeParts DEF ControlTypes
  <1>6. StepInv' /\ PlaceInv' /\ OwedInv'
    <2>1. tier = M => Whole(M)' = Whole(M)
      BY <1>2, <1>3 DEF SameWhole
    <2>2. QED
      BY <1>1, <1>2, <2>1 DEF StepInv, Shrinks, PlaceInv, OwedInv, Running
  <1>7. HeadInv'
    <2>1. (Running' => Running) /\ \A t \in Tier : Stale(t) => Stale(t)'
      BY <1>1 DEF Running, Stale
    <2>2. Running' => \A t \in Tier : HeadOK(t)'
      BY <1>1, <1>2, <2>1, HeadsStay
    <2>3. NextInv'
      BY <1>1, <1>2, <1>3 DEF HeadInv, NextInv, SameWhole
    <2>4. QED
      BY <2>2, <2>3 DEF HeadInv
  <1>8. clock' \in Time /\ clock <= clock' /\ head' \in [Tier -> Header] /\ buffer' \in Time
    BY <1>1, <1>2
  <1>9. QED
    BY <1>1, <1>3, <1>4, <1>5, <1>6, <1>7, <1>8, RamStepKeeps

\* What a step does to the records of the tiers: nothing, or one of the three
\* things the record log allows.
Does ==
  \/ SameWhole /\ (clock' = clock \/ (clock' \in Time /\ clock' > clock))
  \/ clock' = clock /\ \E t \in Tier : Forgets(t) \/ Adding(t)

LEMMA NextHolds ==
  ASSUME MinuteAndFive, CompactInv, [Next]_vars, \A t \in Tier : ~ RequestClear(t)
  PROVE  CompactInv' /\ Does
  <1> USE DEF Does
  <1>1. CASE Boot
    BY <1>1, BootKeeps DEF Boot
  <1>2. CASE Replay
    BY <1>2, ReplayKeeps DEF Replay
  <1>3. CASE Place
    BY <1>3, PlaceKeeps DEF Place
  <1>4. CASE Unlink
    BY <1>4, UnlinkKeeps DEF Unlink
  <1>5. CASE RecoverShrink
    BY <1>5, RecoverShrinkKeeps DEF RecoverShrink
  <1>6. CASE Copy
    BY <1>6, CopyKeeps DEF Copy
  <1>7. CASE Advance
    BY <1>7, AdvanceKeeps DEF Advance
  <1>8. CASE Truncate
    BY <1>8, TruncateKeeps DEF Truncate
  <1>9. CASE Forget
    BY <1>9, ForgetKeeps DEF Forget
  <1>10. CASE Load
    BY <1>10, LoadKeeps DEF Load
  <1>11. CASE Prune
    BY <1>11, PruneKeeps DEF Prune
  <1>12. CASE OpenBucket
    BY <1>12, OpenBucketKeeps DEF OpenBucket
  <1>13. CASE CloseBucket
    BY <1>13, CloseBucketKeeps DEF CloseBucket
  <1>14. CASE Promote
    BY <1>14, PromoteKeeps DEF Promote
  <1>15. CASE Acknowledge
    BY <1>15, AcknowledgeKeeps DEF Acknowledge
  <1>16. CASE Update
    BY <1>16, UpdateKeeps DEF Update
  <1>17. CASE Tick
    BY <1>17, TickKeeps
  <1>18. CASE RequestFlush
    BY <1>18, RequestFlushKeeps DEF RequestFlush
  <1>19. CASE Restart
    BY <1>19, SwitchOffs DEF Restart
  <1>20. CASE PowerCut
    BY <1>20, PowerCutKeeps DEF PowerCut
  <1>21. CASE IoFailure
    BY <1>21, IoFailureKeeps DEF IoFailure
  <1>22. CASE ReadFailure
    BY <1>22, ReadFailureKeeps DEF ReadFailure
  <1>23. CASE Unplug
    BY <1>23, SwitchOffs DEF Unplug
  <1>24. CASE UNCHANGED vars
    BY <1>24, UnchangedKeeps
  <1>25. QED
    BY <1>1, <1>2, <1>3, <1>4, <1>5, <1>6, <1>7, <1>8, <1>9, <1>10, <1>11, <1>12, <1>13,
       <1>14, <1>15, <1>16, <1>17, <1>18, <1>19, <1>20, <1>21, <1>22, <1>23, <1>24, Zenon
    DEF Next, Firmware
-----------------------------------------------------------------------------
(***************************************************************************)
(* A tier that is deleted stays so.                                        *)
(***************************************************************************)
LEMMA FirstOfSome ==
  ASSUME NEW S \in SUBSET Tier, S # {}
  PROVE  FirstOf(S) \in Tier
  BY SizeAssumption DEF FirstOf

LEMMA LegacyIsSome ==
  ASSUME NEW t \in Tier
  PROVE  /\ "capacity" \in DOMAIN BlankHeader(t) /\ BlankHeader(t).capacity = LegacyCapacity[t]
         /\ LegacyCapacity[t] # 0
  BY SizeAssumption DEF BlankHeader

LEMMA LoadedIsSome ==
  ASSUME NEW t \in Tier
  PROVE  "capacity" \in DOMAIN LoadedHeader(t) /\ LoadedHeader(t).capacity # 0
  <1>1. LoadedCapacity(t, file[t]) # 0
    <2>1. Capacity[t] \in Nat \ {0}
      BY SizeAssumption
    <2>2. SUFFICES ASSUME Cardinality(Contents(file[t])) = 0, 0 > Capacity[t] PROVE FALSE
      BY <2>1 DEF LoadedCapacity
    <2>3. QED
      BY <2>1, <2>2
  <1>2. /\ "capacity" \in DOMAIN Loaded(t, file[t])
        /\ Loaded(t, file[t]).capacity = LoadedCapacity(t, file[t])
    BY DEF Loaded
  <1>3. QED
    BY <1>1, <1>2, LegacyIsSome DEF LoadedHeader

\* The parts of ClearInv.
HeadsAreSome ==
  /\ DOMAIN head = Tier
  /\ \A t \in Tier : "capacity" \in DOMAIN head[t] /\ head[t].capacity # 0
  /\ "capacity" \in DOMAIN next /\ next.capacity # 0

ControlIsSome ==
  /\ tier \in Tier /\ after \in {"recoverShrink", "copy", "advance", "acknowledge"}
  /\ buffer # 0 => M \in Tier

WriteIsThere ==
  pending # None \/ pc \in {"place", "unlink"} =>
    pending.tier \in Tier /\ ring[pending.tier] = 0

ShrinkIsThere ==
  \/ shrink # None \/ pc \in {"copy", "advance", "truncate", "forget"}
  \/ (pc \in {"place", "unlink"} /\ after \in {"copy", "advance"})
  => "tier" \in DOMAIN shrink /\ shrink.tier \in Tier /\ ring[shrink.tier] = 0

LEMMA ClearParts ==
  /\ ClearInv <=> DOMAIN ring = Tier /\ HeadsAreSome /\ ControlIsSome /\ WriteIsThere /\ ShrinkIsThere
  /\ ClearInv' <=> /\ DOMAIN ring' = Tier /\ HeadsAreSome' /\ ControlIsSome'
                   /\ WriteIsThere' /\ ShrinkIsThere'
  BY DEF ClearInv, HeadsAreSome, ControlIsSome, WriteIsThere, ShrinkIsThere

SameRings == DOMAIN ring' = Tier /\ \A t \in Tier : ring'[t] = ring[t]

\* Where a part of update() ends.
LEMMA PartLeads ==
  ASSUME tier \in Tier, PartEnds \/ PartSucceeds
  PROVE  pc' \in {"idle", "prune"} /\ tier' \in Tier /\ after' = after /\ next' = next
  BY DEF PartEnds, PartSucceeds

\* A step of the firmware between the durable ones.
LEMMA RamClear ==
  ASSUME ClearInv, ring' = ring, pending' = pending, shrink' = shrink, ControlIsSome', HeadsAreSome',
         pc' \in {"place", "unlink"} => pending # None,
         pc' \in {"copy", "advance", "truncate", "forget"} => shrink # None,
         pc' \in {"place", "unlink"} /\ after' \in {"copy", "advance"} => shrink # None
  PROVE  ClearInv' /\ SameRings
  <1>1. DOMAIN ring = Tier /\ WriteIsThere /\ ShrinkIsThere
    BY ClearParts
  <1>2. WriteIsThere' /\ ShrinkIsThere'
    BY <1>1 DEF WriteIsThere, ShrinkIsThere
  <1>3. QED
    BY <1>1, <1>2, ClearParts DEF SameRings

LEMMA EndClear ==
  ASSUME ClearInv, PartEnds \/ PartSucceeds \/ Goto("dead") \/ Goto("unmounted"),
         ring' = ring, pending' = pending, shrink' = shrink, head' = head, buffer' = buffer
  PROVE  ClearInv' /\ SameRings
  <1>1. HeadsAreSome /\ ControlIsSome
    BY ClearParts
  <1>2. /\ pc' \in {"idle", "prune", "dead", "unmounted"} /\ tier' \in Tier
        /\ after' = after /\ next' = next
    BY <1>1, PartLeads DEF Goto, ControlIsSome
  <1>3. HeadsAreSome' /\ ControlIsSome'
    BY <1>1, <1>2 DEF HeadsAreSome, ControlIsSome
  <1>4. QED
    BY <1>2, <1>3, RamClear

LEMMA OffClear ==
  ASSUME ClearInv, PowerOff, SameRings, pending' = pending, shrink' = shrink
  PROVE  ClearInv' /\ SameRings
  <1>1. WriteIsThere /\ ShrinkIsThere
    BY ClearParts
  <1>2. Tier # {} /\ FirstOf(Tier) \in Tier
    BY FirstOfSome, SizeAssumption
  <1>3. HeadsAreSome'
    BY <1>2, LegacyIsSome DEF PowerOff, HeadsAreSome
  <1>4. ControlIsSome'
    BY <1>2 DEF PowerOff, ControlIsSome
  <1>5. pc' = "off"
    BY DEF PowerOff
  <1>6. WriteIsThere' /\ ShrinkIsThere'
    BY <1>1, <1>5 DEF WriteIsThere, ShrinkIsThere, SameRings
  <1>7. QED
    BY <1>3, <1>4, <1>6, ClearParts DEF SameRings

LEMMA InterruptedClear ==
  ASSUME ClearInv, Interrupted
  PROVE  SameRings
  <1>1. DOMAIN ring = Tier /\ WriteIsThere
    BY ClearParts
  <1>2. CASE ring' = ring
    BY <1>1, <1>2 DEF SameRings
  <1>3. CASE pc = "place" /\ ring' = [ring EXCEPT ![pending.tier] = 0]
    BY <1>1, <1>3 DEF SameRings, WriteIsThere
  <1>4. QED
    BY <1>2, <1>3 DEF Interrupted

LEMMA FailClear ==
  ASSUME ClearInv, SameRings, Fails, pending' = pending, shrink' = shrink, head' = head,
         buffer' = buffer
  PROVE  ClearInv'
  <1>1. HeadsAreSome /\ ControlIsSome /\ WriteIsThere /\ ShrinkIsThere
    BY ClearParts
  <1>2. pc' \in {"idle", "prune", "unmounted"} /\ tier' \in Tier /\ after' = after /\ next' = next
    BY <1>1, PartLeads DEF Fails, Goto, ControlIsSome
  <1>3. HeadsAreSome' /\ ControlIsSome'
    BY <1>1, <1>2 DEF HeadsAreSome, ControlIsSome
  <1>4. WriteIsThere' /\ ShrinkIsThere'
    BY <1>1, <1>2 DEF WriteIsThere, ShrinkIsThere, SameRings
  <1>5. QED
    BY <1>3, <1>4, ClearParts DEF SameRings

LEMMA WriteClear ==
  ASSUME ClearInv, NEW t \in Tier, NEW x, Writable(t, x), Write(t, x), tier' \in Tier,
         UNCHANGED <<ring, shrink, head, buffer>>
  PROVE  ClearInv' /\ SameRings
  <1>1. DOMAIN ring = Tier /\ HeadsAreSome /\ ControlIsSome /\ ShrinkIsThere
    BY ClearParts
  <1>2. /\ ring[t] = 0
        /\ pending' = [tier |-> t, index |-> Target(t, x), block |-> NewBlock(t, x)]
        /\ next' = NextHeader(t, x) /\ pc' = "place" /\ after' = "acknowledge"
    BY DEF Writable, Write
  <1>3. "capacity" \in DOMAIN NextHeader(t, x) /\ NextHeader(t, x).capacity = head[t].capacity
    BY DEF NextHeader
  <1>4. HeadsAreSome' /\ ControlIsSome'
    BY <1>1, <1>2, <1>3 DEF HeadsAreSome, ControlIsSome
  <1>5. WriteIsThere' /\ ShrinkIsThere'
    BY <1>1, <1>2 DEF WriteIsThere, ShrinkIsThere
  <1>6. QED
    BY <1>1, <1>4, <1>5, ClearParts DEF SameRings

LEMMA WriteOrEndClear ==
  ASSUME ClearInv, NEW x, WriteOrEnd(x), UNCHANGED <<ring, shrink, head, buffer>>
  PROVE  ClearInv' /\ SameRings
  <1>1. tier \in Tier
    BY ClearParts DEF ControlIsSome
  <1>2. CASE Writable(tier, x)
    BY <1>1, <1>2, WriteClear DEF WriteOrEnd
  <1>3. CASE ~ Writable(tier, x)
    BY <1>3, EndClear DEF WriteOrEnd
  <1>4. QED
    BY <1>2, <1>3

LEMMA RecoveryClear ==
  ASSUME ClearInv, Boot \/ Replay \/ Unlink \/ RecoverShrink \/ Advance \/ Truncate \/ Forget
  PROVE  ClearInv' /\ SameRings
  <1>1. /\ DOMAIN ring = Tier /\ HeadsAreSome /\ ControlIsSome /\ WriteIsThere /\ ShrinkIsThere
        /\ ring' = ring /\ head' = head /\ buffer' = buffer
    BY ClearParts DEF Boot, Replay, Unlink, RecoverShrink, Advance, Truncate, Forget, flash
  <1>2. ASSUME Goto(pc') \/ WriteThen(after'), after' = after \/ after' \in {"recoverShrink", "copy"}
        PROVE  HeadsAreSome' /\ ControlIsSome'
    BY <1>1, <1>2 DEF HeadsAreSome, ControlIsSome, Goto, WriteThen
  <1>3. CASE Boot
    BY <1>1, <1>2, <1>3, RamClear DEF Boot, Goto, flash
  <1>4. CASE Replay
    <2>1. pending' = pending /\ shrink' = shrink
      BY <1>4 DEF Replay, flash
    <2>2. CASE Rejects
      BY <1>1, <2>1, <2>2, EndClear DEF Rejects
    <2>3. CASE ~ Rejects
      <3>1. \/ Goto("recoverShrink") \/ (WriteThen("recoverShrink") /\ pending # None)
        BY <1>4, <2>3 DEF Replay, Replayable
      <3>2. HeadsAreSome' /\ ControlIsSome'
        BY <1>2, <3>1 DEF Goto, WriteThen
      <3>3. QED
        BY <1>1, <2>1, <3>1, <3>2, RamClear DEF Goto, WriteThen
    <2>4. QED
      BY <2>2, <2>3
  <1>5. CASE Unlink
    <2>1. pending' = None /\ shrink' = shrink /\ Goto(after) /\ pc = "unlink"
      BY <1>5 DEF Unlink
    <2>2. HeadsAreSome' /\ ControlIsSome'
      BY <1>2, <2>1 DEF Goto
    <2>3. WriteIsThere' /\ ShrinkIsThere'
      BY <1>1, <2>1 DEF WriteIsThere, ShrinkIsThere, ControlIsSome, Goto
    <2>4. QED
      BY <1>1, <2>2, <2>3, ClearParts DEF SameRings
  <1>6. CASE RecoverShrink
    <2>1. pending' = pending /\ shrink' = shrink
      BY <1>6 DEF RecoverShrink, flash
    <2>2. \/ Goto("load") \/ (Goto("truncate") /\ shrink # None) \/ (Goto("copy") /\ shrink # None)
          \/ (WriteThen("copy") /\ shrink # None /\ pending # None)
      BY <1>6 DEF RecoverShrink
    <2>3. HeadsAreSome' /\ ControlIsSome'
      BY <1>2, <2>2 DEF Goto, WriteThen
    <2>4. QED
      BY <1>1, <2>1, <2>2, <2>3, RamClear DEF Goto, WriteThen
  <1>7. CASE Advance
    <2>1. /\ pending' = pending /\ shrink' = [shrink EXCEPT !.cursor = @ + 1]
          /\ Goto("recoverShrink") /\ pc = "advance"
      BY <1>7 DEF Advance
    <2>2. HeadsAreSome' /\ ControlIsSome'
      BY <1>2, <2>1 DEF Goto
    <2>3. "tier" \in DOMAIN shrink' /\ shrink'.tier = shrink.tier /\ ShrinkIsThere'
      BY <1>1, <2>1 DEF ShrinkIsThere
    <2>4. WriteIsThere'
      BY <1>1, <2>1 DEF WriteIsThere, Goto
    <2>5. QED
      BY <1>1, <2>2, <2>3, <2>4, ClearParts DEF SameRings
  <1>8. CASE Truncate
    <2>1. pending' = pending /\ shrink' = shrink /\ Goto("forget") /\ pc = "truncate"
      BY <1>8 DEF Truncate
    <2>2. HeadsAreSome' /\ ControlIsSome'
      BY <1>2, <2>1 DEF Goto
    <2>3. WriteIsThere' /\ ShrinkIsThere'
      BY <1>1, <2>1 DEF WriteIsThere, ShrinkIsThere, Goto
    <2>4. QED
      BY <1>1, <2>2, <2>3, ClearParts DEF SameRings
  <1>9. CASE Forget
    <2>1. pending' = pending /\ shrink' = None /\ Goto("load")
      BY <1>9 DEF Forget
    <2>2. HeadsAreSome' /\ ControlIsSome'
      BY <1>2, <2>1 DEF Goto
    <2>3. WriteIsThere' /\ ShrinkIsThere'
      BY <1>1, <2>1 DEF WriteIsThere, ShrinkIsThere, Goto
    <2>4. QED
      BY <1>1, <2>2, <2>3, ClearParts DEF SameRings
  <1>10. QED
    BY <1>3, <1>4, <1>5, <1>6, <1>7, <1>8, <1>9

LEMMA PlaceClear ==
  ASSUME ClearInv, Place
  PROVE  ClearInv' /\ SameRings
  <1>1. /\ DOMAIN ring = Tier /\ HeadsAreSome /\ ControlIsSome /\ WriteIsThere /\ ShrinkIsThere
        /\ ring' = [ring EXCEPT ![pending.tier] = 0] /\ head' = head /\ buffer' = buffer
        /\ pending' = pending /\ shrink' = shrink /\ Goto("unlink") /\ pc = "place"
    BY ClearParts DEF Place
  <1>2. SameRings
    BY <1>1 DEF SameRings, WriteIsThere
  <1>3. HeadsAreSome' /\ ControlIsSome'
    BY <1>1 DEF HeadsAreSome, ControlIsSome, Goto
  <1>4. WriteIsThere' /\ ShrinkIsThere'
    BY <1>1, <1>2 DEF WriteIsThere, ShrinkIsThere, SameRings, Goto
  <1>5. QED
    BY <1>2, <1>3, <1>4, ClearParts DEF SameRings

LEMMA CopyClear ==
  ASSUME ClearInv, Copy
  PROVE  ClearInv' /\ SameRings
  <1>1. /\ DOMAIN ring = Tier /\ HeadsAreSome /\ ControlIsSome /\ WriteIsThere /\ ShrinkIsThere
        /\ ring' = ring /\ head' = head /\ buffer' = buffer /\ shrink' = shrink /\ pc = "copy"
    BY ClearParts DEF Copy
  <1>2. CASE Rejects /\ pending' = pending
    BY <1>1, <1>2, EndClear DEF Rejects
  <1>3. CASE /\ pending' = [tier |-> shrink.tier, index |-> shrink.cursor + 1,
                            block |-> file[shrink.tier][Source]]
             /\ WriteThen("advance")
    <2>1. HeadsAreSome' /\ ControlIsSome'
      BY <1>1, <1>3 DEF HeadsAreSome, ControlIsSome, WriteThen
    <2>2. WriteIsThere' /\ ShrinkIsThere'
      BY <1>1, <1>3 DEF WriteIsThere, ShrinkIsThere, WriteThen
    <2>3. QED
      BY <1>1, <2>1, <2>2, ClearParts DEF SameRings
  <1>4. QED
    BY <1>2, <1>3 DEF Copy

LEMMA LoadClear ==
  ASSUME ClearInv, Load
  PROVE  ClearInv' /\ SameRings
  <1>1. /\ HeadsAreSome /\ ControlIsSome
        /\ ring' = ring /\ pending' = pending /\ shrink' = shrink /\ buffer' = buffer
    BY ClearParts DEF Load, flash
  <1>2. ASSUME Goto("idle") \/ Goto("record") \/ PartEnds, DOMAIN head' = Tier,
               \A t \in Tier : "capacity" \in DOMAIN head'[t] /\ head'[t].capacity # 0
        PROVE  ClearInv' /\ SameRings
    <2>1. pc' \in {"idle", "record", "prune"} /\ tier' \in Tier /\ after' = after /\ next' = next
      BY <1>1, <1>2, PartLeads DEF Goto, ControlIsSome
    <2>2. HeadsAreSome' /\ ControlIsSome'
      BY <1>1, <1>2, <2>1 DEF HeadsAreSome, ControlIsSome
    <2>3. QED
      BY <1>1, <2>1, <2>2, RamClear
  <1>3. CASE head' = [t \in Tier |-> LoadedHeader(t)] /\ Goto("idle")
    BY <1>2, <1>3, LoadedIsSome
  <1>4. CASE Rejects /\ head' = head
    BY <1>1, <1>4, EndClear DEF Rejects
  <1>5. CASE head' = [head EXCEPT ![tier] = LoadedHeader(tier)] /\ Goto("record")
    <2>1. /\ DOMAIN head' = Tier
          /\ \A t \in Tier : "capacity" \in DOMAIN head'[t] /\ head'[t].capacity # 0
      BY <1>1, <1>5, LoadedIsSome DEF HeadsAreSome, ControlIsSome
    <2>2. QED
      BY <1>2, <1>5, <2>1
  <1>6. CASE HeaderLost /\ PartEnds
    <2>1. PICK n : head' = [head EXCEPT ![tier].first = 1, ![tier].count = 0, ![tier].blocks = n]
      BY <1>6 DEF HeaderLost
    <2> DEFINE h == [head[tier] EXCEPT !.first = 1, !.count = 0, !.blocks = n]
    <2>2. "capacity" \in DOMAIN h /\ h.capacity = head[tier].capacity
      BY <1>1 DEF HeadsAreSome, ControlIsSome
    <2>3. head' = [head EXCEPT ![tier] = h]
      BY <1>1, <2>1 DEF HeadsAreSome, ControlIsSome
    <2> HIDE DEF h
    <2>4. /\ DOMAIN head' = Tier
          /\ \A t \in Tier : "capacity" \in DOMAIN head'[t] /\ head'[t].capacity # 0
      BY <1>1, <2>2, <2>3 DEF HeadsAreSome, ControlIsSome
    <2>5. QED
      BY <1>2, <1>6, <2>4
  <1>7. QED
    BY <1>3, <1>4, <1>5, <1>6 DEF Load

LEMMA UpdateClear ==
  ASSUME ClearInv, Update
  PROVE  ClearInv' /\ SameRings
  <1>1. /\ HeadsAreSome /\ ControlIsSome /\ ring' = ring /\ pending' = pending /\ shrink' = shrink
        /\ buffer' = buffer /\ pc' = "prune" /\ after' = after /\ next' = next
        /\ tier' = FirstOf(Updated) /\ Updated # {}
        /\ head' = IF Downgraded THEN [t \in Tier |-> Raised(t)] ELSE head
    BY ClearParts DEF Update, flash
  <1>2. Updated \in SUBSET Tier
    BY DEF Updated
  <1>3. ASSUME NEW t \in Tier PROVE "capacity" \in DOMAIN Raised(t) /\ Raised(t).capacity # 0
    BY <1>1, LegacyIsSome DEF Raised, HeadsAreSome
  <1>4. HeadsAreSome'
    BY <1>1, <1>3 DEF HeadsAreSome
  <1>5. ControlIsSome'
    BY <1>1, <1>2, FirstOfSome DEF ControlIsSome
  <1>6. QED
    BY <1>1, <1>4, <1>5, RamClear

LEMMA PruneClear ==
  ASSUME ClearInv, Prune
  PROVE  ClearInv' /\ SameRings
  <1>1. /\ DOMAIN ring = Tier /\ HeadsAreSome /\ ControlIsSome /\ WriteIsThere /\ ShrinkIsThere
        /\ ring' = ring /\ pending' = pending /\ head' = head /\ buffer' = buffer
    BY ClearParts DEF Prune
  <1>2. CASE PartEnds /\ shrink' = shrink
    BY <1>1, <1>2, EndClear
  <1>3. CASE (Goto("record") \/ Goto("recoverShrink")) /\ shrink' = shrink
    <2>1. HeadsAreSome' /\ ControlIsSome'
      BY <1>1, <1>3 DEF HeadsAreSome, ControlIsSome, Goto
    <2>2. QED
      BY <1>1, <1>3, <2>1, RamClear DEF Goto
  <1>4. CASE /\ Goto("recoverShrink") /\ Oversized(tier)
             /\ shrink' = [tier |-> tier, drop |-> Dropped(tier),
                           total |-> Len(file[tier]), cursor |-> 0]
    <2>1. HeadsAreSome' /\ ControlIsSome'
      BY <1>1, <1>4 DEF HeadsAreSome, ControlIsSome, Goto
    <2>2. ring[tier] = 0
      BY <1>4 DEF Oversized
    <2>3. WriteIsThere' /\ ShrinkIsThere'
      BY <1>1, <1>4, <2>2 DEF WriteIsThere, ShrinkIsThere, ControlIsSome, Goto
    <2>4. QED
      BY <1>1, <2>1, <2>3, ClearParts DEF SameRings
  <1>5. QED
    BY <1>2, <1>3, <1>4 DEF Prune

LEMMA RecordClear ==
  ASSUME ClearInv, OpenBucket \/ CloseBucket \/ Promote \/ RequestFlush
  PROVE  ClearInv' /\ SameRings
  <1>1. HeadsAreSome /\ ControlIsSome
    BY ClearParts
  <1>2. CASE OpenBucket
    <2>1. /\ ring' = ring /\ pending' = pending /\ shrink' = shrink /\ head' = head /\ PartEnds
          /\ tier = M
      BY <1>2 DEF OpenBucket, flash, M
    <2>2. pc' \in {"idle", "prune"} /\ tier' \in Tier /\ after' = after /\ next' = next
      BY <1>1, <2>1, PartLeads DEF ControlIsSome
    <2>3. HeadsAreSome' /\ ControlIsSome'
      BY <1>1, <2>1, <2>2 DEF HeadsAreSome, ControlIsSome
    <2>4. QED
      BY <2>1, <2>2, <2>3, RamClear
  <1>3. CASE CloseBucket
    BY <1>3, WriteOrEndClear DEF CloseBucket
  <1>4. CASE Promote
    <2>1. CASE PartSucceeds /\ UNCHANGED pending
      BY <1>4, <2>1, EndClear DEF Promote
    <2>2. CASE \E x : WriteOrEnd(x)
      BY <1>4, <2>2, WriteOrEndClear DEF Promote
    <2>3. QED
      BY <1>4, <2>1, <2>2 DEF Promote
  <1>5. CASE RequestFlush
    <2>1. /\ buffer # 0 /\ Writable(M, buffer) /\ Write(M, buffer) /\ tier' = M
          /\ UNCHANGED <<ring, shrink, head, buffer>>
      BY <1>5 DEF RequestFlush, M
    <2>2. M \in Tier
      BY <1>1, <2>1 DEF ControlIsSome
    <2>3. QED
      BY <2>1, <2>2, WriteClear
  <1>6. QED
    BY <1>2, <1>3, <1>4, <1>5

LEMMA AcknowledgeClear ==
  ASSUME ClearInv, Acknowledge
  PROVE  ClearInv' /\ SameRings
  <1>1. /\ DOMAIN ring = Tier /\ HeadsAreSome /\ ControlIsSome
        /\ ring' = ring /\ pending' = pending /\ shrink' = shrink
    BY ClearParts DEF Acknowledge, flash
  <1>2. CASE PowerOff
    BY <1>1, <1>2, OffClear DEF SameRings
  <1>3. CASE /\ head' = [head EXCEPT ![tier] = next]
             /\ PartEnds \/ Goto("record")
             /\ buffer' # 0 => M \in Tier
    <2>1. pc' \in {"idle", "prune", "record"} /\ tier' \in Tier /\ after' = after /\ next' = next
      BY <1>1, <1>3, PartLeads DEF ControlIsSome, Goto
    <2>2. HeadsAreSome'
      BY <1>1, <1>3, <2>1 DEF HeadsAreSome, ControlIsSome
    <2>3. ControlIsSome'
      BY <1>1, <1>3, <2>1 DEF ControlIsSome
    <2>4. QED
      BY <1>1, <2>1, <2>2, <2>3, RamClear
  <1>4. QED
    BY <1>1, <1>2, <1>3 DEF Acknowledge, ControlIsSome, M

LEMMA FaultClear ==
  ASSUME ClearInv, Restart \/ Unplug \/ PowerCut \/ IoFailure \/ ReadFailure
  PROVE  ClearInv' /\ SameRings
  <1>1. DOMAIN ring = Tier
    BY ClearParts
  <1>2. CASE Restart \/ Unplug
    BY <1>1, <1>2, OffClear DEF Restart, Unplug, flash, SameRings
  <1>3. CASE PowerCut
    BY <1>3, InterruptedClear, OffClear DEF PowerCut
  <1>4. CASE IoFailure
    BY <1>4, InterruptedClear, FailClear DEF IoFailure
  <1>5. CASE ReadFailure
    BY <1>1, <1>5, FailClear DEF ReadFailure, flash, SameRings
  <1>6. QED
    BY <1>2, <1>3, <1>4, <1>5

LEMMA TickClear ==
  ASSUME ClearInv, Tick \/ UNCHANGED vars
  PROVE  ClearInv' /\ SameRings
  <1>1. /\ ring' = ring /\ pending' = pending /\ shrink' = shrink /\ head' = head
        /\ buffer' = buffer
        /\ pc' = pc /\ tier' = tier /\ after' = after /\ next' = next
    BY DEF Tick, vars, flash
  <1>2. QED
    BY <1>1 DEF ClearInv, SameRings

LEMMA RequestClearClear ==
  ASSUME ClearInv, NEW t \in Tier, RequestClear(t)
  PROVE  ClearInv' /\ Cleared'
  <1>1. /\ DOMAIN ring = Tier /\ HeadsAreSome /\ ControlIsSome
        /\ pc = "idle" /\ pc' = pc /\ pending = None /\ shrink = None
        /\ pending' = None /\ shrink' = None /\ tier' = tier /\ after' = after /\ next' = next
        /\ ring' = [ring EXCEPT ![t] = head[t].capacity]
        /\ head' = [head EXCEPT ![t] = [BlankHeader(t) EXCEPT !.capacity = head[t].capacity]]
        /\ buffer' = IF t = "minute" THEN 0 ELSE buffer
    BY ClearParts DEF RequestClear
  <1> DEFINE h == [BlankHeader(t) EXCEPT !.capacity = head[t].capacity]
  <1>2. "capacity" \in DOMAIN h /\ h.capacity = head[t].capacity
    BY LegacyIsSome
  <1>3. head' = [head EXCEPT ![t] = h]
    BY <1>1
  <1> HIDE DEF h
  <1>4. HeadsAreSome'
    BY <1>1, <1>2, <1>3 DEF HeadsAreSome
  <1>5. ControlIsSome'
    BY <1>1 DEF ControlIsSome
  <1>6. WriteIsThere' /\ ShrinkIsThere'
    BY <1>1 DEF WriteIsThere, ShrinkIsThere
  <1>7. DOMAIN ring' = Tier /\ ring'[t] # 0
    BY <1>1 DEF HeadsAreSome
  <1>8. QED
    BY <1>4, <1>5, <1>6, <1>7, ClearParts DEF Cleared

\* A tier that is deleted stays a legacy ring.
LEMMA ClearHolds ==
  ASSUME ClearInv, [Next]_vars
  PROVE  ClearInv' /\ (Cleared => Cleared')
  <1>1. SameRings => (Cleared => Cleared')
    BY DEF SameRings, Cleared
  <1>2. CASE \E t \in Tier : RequestClear(t)
    BY <1>2, RequestClearClear
  <1>3. CASE ~ \E t \in Tier : RequestClear(t)
    <2>1. ClearInv' /\ SameRings
      BY <1>3, RecoveryClear, PlaceClear, CopyClear, LoadClear, UpdateClear, PruneClear,
         RecordClear, AcknowledgeClear, FaultClear, TickClear, Zenon
      DEF Next, Firmware
    <2>2. QED
      BY <1>1, <2>1
  <1>4. QED
    BY <1>2, <1>3

LEMMA ClearInit ==
  ASSUME Init
  PROVE  ClearInv
  <1>1. Tier # {} /\ FirstOf(Tier) \in Tier
    BY FirstOfSome, SizeAssumption
  <1>2. QED
    BY <1>1, LegacyIsSome DEF Init, ClearInv

\* A device whose history nobody has deleted, or one that has no say any more.
Reachable == ClearInv /\ (CompactInv \/ Cleared)

LEMMA Invariance == MinuteAndFive => (Spec => []Reachable)
  <1> SUFFICES ASSUME MinuteAndFive PROVE Spec => []Reachable
    OBVIOUS
  <1>1. Init => Reachable
    BY InitHolds, ClearInit DEF Reachable
  <1>2. Reachable /\ [Next]_vars => Reachable'
    <2> HAVE Reachable /\ [Next]_vars
    <2>1. ClearInv' /\ (Cleared => Cleared')
      BY ClearHolds DEF Reachable
    <2>2. CASE \E t \in Tier : RequestClear(t)
      BY <2>1, <2>2, RequestClearClear DEF Reachable
    <2>3. CASE ~ \E t \in Tier : RequestClear(t)
      BY <2>1, <2>3, NextHolds DEF Reachable
    <2>4. QED
      BY <2>2, <2>3
  <1>3. QED
    BY <1>1, <1>2, PTL DEF Spec

\* Without the button nothing is ever deleted.
LEMMA NeverCleared ==
  MinuteAndFive /\ "clear" \notin Request => (Spec => []CompactInv)
  <1> SUFFICES ASSUME MinuteAndFive, "clear" \notin Request PROVE Spec => []CompactInv
    OBVIOUS
  <1>1. Init => CompactInv
    BY InitHolds
  <1>2. CompactInv /\ [Next]_vars => CompactInv'
    BY NextHolds DEF RequestClear
  <1>3. QED
    BY <1>1, <1>2, PTL DEF Spec
-----------------------------------------------------------------------------
(***************************************************************************)
(* What the invariant says.                                                *)
(***************************************************************************)
\* Whatever users ask for, is interrupted or fails: begin() mounts the history,
\* unless a tier of it has been deleted.
THEOREM UnclearedMounts == MinuteAndFive => (Spec => []MountsUnlessCleared)
  <1>1. Reachable => MountsUnlessCleared
    BY DEF Reachable, CompactInv, StepInv, Cleared, MountsUnlessCleared
  <1>2. QED
    BY <1>1, Invariance, PTL

\* The types of a history without the button that deletes it.
THEOREM CompactTypes == MinuteAndFive /\ "clear" \notin Request => (Spec => []TypeOK)
  <1>1. CompactInv => TypeOK
    BY DEF CompactInv
  <1>2. QED
    BY <1>1, NeverCleared, PTL

\* Wherever writing, promoting, recovering, shrinking or flushing is interrupted,
\* and whatever fails, the next begin() mounts the history.
THEOREM BootAlwaysMounts == MinuteAndFive /\ "clear" \notin Request => (Spec => []BootMounts)
  <1>1. CompactInv => BootMounts
    BY DEF CompactInv, StepInv, BootMounts
  <1>2. QED
    BY <1>1, NeverCleared, PTL

\* Between operations the header in RAM, which update() continues the ring
\* with, is the one begin() would load from the file.
THEOREM HeaderIsLoaded == MinuteAndFive /\ "clear" \notin Request => (Spec => []HeadAgrees)
  <1> SUFFICES ASSUME MinuteAndFive, "clear" \notin Request PROVE Spec => []HeadAgrees
    OBVIOUS
  <1>1. CompactInv => HeadAgrees
    <2> HAVE CompactInv
    <2>1. SUFFICES ASSUME pc = "idle", pending = None, shrink = None, NEW t \in Tier
                   PROVE  /\ Loadable(file[t])
                          /\ head[t].first = FirstBlock(file[t])
                          /\ head[t].count = Cardinality(Contents(file[t]))
                          /\ head[t].last = LastRecord(file[t])
      BY DEF HeadAgrees
    <2>2. WriteOf(t) = None /\ ShrinkOf(t) = None
      BY <2>1 DEF WriteOf, ShrinkOf
    <2>3. head[t] = Loaded(t, file[t])
      BY <2>1, <2>2 DEF CompactInv, HeadInv, HeadOK, Running, Stale
    <2>4. Loadable(file[t])
      BY <2>2, PlainTier, OrderedLoads
    <2>5. QED
      BY <2>3, <2>4 DEF Loaded
  <1>2. QED
    BY <1>1, NeverCleared, PTL
-----------------------------------------------------------------------------
(***************************************************************************)
(* The tiers implement the record log.                                     *)
(***************************************************************************)
Shown == [t \in Tier |-> Contents(Replayed(t))]

\* The invariant speaks of the same file as the refinement mapping.
LEMMA ReplayedIs ==
  ASSUME NEW t \in Tier, ring[t] = 0
  PROVE  Replayed(t) = Whole(t)
  <1> DEFINE f == IF pending # None /\ pending.tier = t
                    THEN PutBlock(file[t], pending.index, pending.block) ELSE file[t]
  <1>1. f = Put(file[t], WriteOf(t))
    BY Zenon DEF Put, WriteOf
  <1> HIDE DEF f
  <1>2. Replayed(t) =
          IF shrink # None /\ shrink.tier = t /\ ring[t] = 0
            THEN [i \in 1 .. Kept |-> IF i <= shrink.cursor THEN f[i] ELSE f[shrink.drop + i]]
            ELSE f
    BY DEF Replayed, f
  <1>3. CASE shrink # None /\ shrink.tier = t
    <2>1. Replayed(t) = [i \in 1 .. Kept |-> IF i <= shrink.cursor
                                               THEN f[i] ELSE f[shrink.drop + i]]
      BY <1>2, <1>3
    <2>2. ShrinkOf(t) = shrink
      BY <1>3 DEF ShrinkOf
    <2>3. QED
      BY <1>1, <1>3, <2>1, <2>2 DEF Whole, Replays, Kept
  <1>4. CASE ~ (shrink # None /\ shrink.tier = t)
    <2>1. ShrinkOf(t) = None
      BY <1>4 DEF ShrinkOf
    <2>2. QED
      BY <1>1, <1>2, <1>4, <2>1 DEF Whole, Replays
  <1>5. QED
    BY <1>3, <1>4

LEMMA ShownIs ==
  ASSUME CompactInv
  PROVE  /\ Shown = [t \in Tier |-> Contents(Whole(t))] /\ clock \in Time
         /\ \A t \in Tier : Contents(Whole(t)) \subseteq Time
         /\ \A t \in Tier : \A x \in Contents(Whole(t)) : x <= clock
  <1>1. ASSUME NEW t \in Tier
        PROVE  /\ Replayed(t) = Whole(t) /\ Contents(Whole(t)) \subseteq Time
               /\ \A x \in Contents(Whole(t)) : x <= clock
    <2>1. ring[t] = 0 /\ FlashOK(t, file[t], WriteOf(t), ShrinkOf(t), clock)
      BY DEF CompactInv, FlashInv, TierOK
    <2>2. \E k \in DOMAIN Whole(t) : Ordered(t, Whole(t), k)
      BY <2>1, Zenon DEF FlashOK, Whole
    <2>3. \A x \in Contents(Whole(t)) : x <= clock
      BY <2>1, Zenon DEF FlashOK, Whole
    <2>4. QED
      BY <2>1, <2>2, <2>3, ReplayedIs, ContentsAreTimes
  <1>2. Shown = [t \in Tier |-> Contents(Whole(t))]
    BY <1>1 DEF Shown
  <1>3. QED
    BY <1>1, <1>2, Types DEF CompactInv

LEMMA ShownNext ==
  CompactInv' => Shown' = [t \in Tier |-> Contents(Whole(t))']
  <1> SUFFICES CompactInv' => (Shown = [t \in Tier |-> Contents(Whole(t))])'
    OBVIOUS
  <1>1. CompactInv => Shown = [t \in Tier |-> Contents(Whole(t))]
    BY ShownIs
  <1>2. QED
    BY <1>1, PTL

Unseen == Shown' = Shown /\ clock' = clock

LEMMA LogStep ==
  ASSUME CompactInv, CompactInv', Does
  PROVE  Unseen \/ Log!Next
  <1>1. /\ Shown = [t \in Tier |-> Contents(Whole(t))]
        /\ Shown' = [t \in Tier |-> Contents(Whole(t))']
    BY ShownIs, ShownNext
  <1>2. ASSUME NEW t \in Tier, \A u \in Tier : u # t => Whole(u)' = Whole(u)
        PROVE  Shown' = [Shown EXCEPT ![t] = Contents(Whole(t))'] /\ Shown[t] = Contents(Whole(t))
    <2>1. \A u \in Tier : u # t => Contents(Whole(u))' = Contents(Whole(u))
      BY <1>2 DEF Contents
    <2>2. QED
      BY <1>1, <2>1
  <1>3. CASE SameWhole
    <2>1. Shown' = Shown
      <3>1. \A t \in Tier : Contents(Whole(t))' = Contents(Whole(t))
        BY <1>3 DEF SameWhole, Contents
      <3>2. QED
        BY <1>1, <3>1
    <2>2. clock' \in Time /\ clock' > clock => Log!Tick
      BY <2>1 DEF Log!Tick, Shown
    <2>3. clock' = clock \/ (clock' \in Time /\ clock' > clock)
      BY DEF Does
    <2>4. QED
      BY <2>1, <2>2, <2>3 DEF Unseen, Log!Next
  <1>4. ASSUME clock' = clock, NEW t \in Tier, Forgets(t)
        PROVE  Log!Next
    <2>1. PICK e \in Time : /\ e + Capacity[t] <= clock
                            /\ Contents(Whole(t))' = {x \in Contents(Whole(t)) : x > e}
      BY <1>4 DEF Forgets
    <2>2. Shown' = [Shown EXCEPT ![t] = {x \in Shown[t] : x > e}]
      BY <1>2, <1>4, <2>1 DEF Forgets
    <2>3. Log!Forget(t)
      BY <1>4, <2>1, <2>2 DEF Log!Forget, Log!Outdated, Log!After, Shown
    <2>4. QED
      BY <2>3 DEF Log!Next
  <1>5. ASSUME clock' = clock, NEW t \in Tier, Adding(t)
        PROVE  Unseen \/ Log!Next
    <2>1. /\ Shown' = [Shown EXCEPT ![t] = Contents(Whole(t))'] /\ Shown[t] = Contents(Whole(t))
          /\ DOMAIN Shown = Tier
      BY <1>1, <1>2, <1>5 DEF Adding
    <2>2. PICK x \in Time : x <= clock /\ Adds(t, Whole(t), Whole(t)', x, clock)
      BY <1>5 DEF Adding
    <2>3. Contents(Whole(t)') = Contents(Whole(t))'
      BY DEF Contents
    <2>4. CASE Contents(Whole(t))' = Contents(Whole(t))
      BY <1>5, <2>1, <2>4 DEF Unseen, Shown
    <2>5. ASSUME \A y \in Contents(Whole(t)) : y < x,
                 Contents(Whole(t))' = Contents(Whole(t)) \union {x}
          PROVE  Log!Next
      <3>1. Shown' = [Shown EXCEPT ![t] = @ \union {x}] /\ \A y \in Shown[t] : y < x
        BY <2>1, <2>5
      <3>2. Log!RecordKeepingAll(t, x)
        BY <1>5, <2>2, <3>1 DEF Log!RecordKeepingAll, Shown
      <3>3. QED
        BY <3>2 DEF Log!Next
    <2>6. ASSUME \A y \in Contents(Whole(t)) : y < x, NEW e \in Time, e + Capacity[t] <= clock,
                 Contents(Whole(t))' = {y \in Contents(Whole(t)) : y > e} \union {x}
          PROVE  Log!Next
      <3>1. /\ Shown' = [Shown EXCEPT ![t] = {y \in Shown[t] : y > e} \union {x}]
            /\ \A y \in Shown[t] : y < x
        BY <2>1, <2>6
      <3>2. Log!Record(t, x)
        BY <1>5, <2>2, <2>6, <3>1 DEF Log!Record, Log!Outdated, Log!After, Shown
      <3>3. QED
        BY <3>2 DEF Log!Next
    <2>7. QED
      BY <2>2, <2>3, <2>4, <2>5, <2>6 DEF Adds
  <1>6. QED
    BY <1>3, <1>4, <1>5 DEF Does

\* Whatever is interrupted, overwritten in place, or moved to the front of a
\* file that shrinks: seen through the journals each tier is a log that records
\* are only added to at the end, and that forgets a record, the oldest first,
\* only after the tier's capacity of slots has passed.
THEOREM RecordLogImplemented ==
  MinuteAndFive /\ "clear" \notin Request => (Spec => ImplementsRecordLog)
  <1> SUFFICES ASSUME MinuteAndFive, "clear" \notin Request PROVE Spec => Log!Spec
    BY DEF ImplementsRecordLog
  <1>1. CompactInv /\ Init => Log!Init
    <2> HAVE CompactInv /\ Init
    <2>1. /\ Shown = [t \in Tier |-> Contents(Whole(t))] /\ clock \in Time
          /\ \A t \in Tier : Contents(Whole(t)) \subseteq Time
          /\ \A t \in Tier : \A x \in Contents(Whole(t)) : x <= clock
      BY ShownIs
    <2>2. Shown \in [Tier -> SUBSET Time] /\ \A t \in Tier : \A x \in Shown[t] : x <= clock
      BY <2>1
    <2>3. QED
      BY <2>1, <2>2 DEF Log!Init, Shown
  <1>2. CompactInv /\ CompactInv' /\ [Next]_vars => [Log!Next]_(Log!vars)
    <2> HAVE CompactInv /\ CompactInv' /\ [Next]_vars
    <2>1. Unseen \/ Log!Next
      BY NextHolds, LogStep DEF RequestClear
    <2>2. Unseen => UNCHANGED Log!vars
      BY DEF Unseen, Shown, Log!vars
    <2>3. QED
      BY <2>1, <2>2
  <1>3. QED
    BY <1>1, <1>2, NeverCleared, PTL DEF Spec, Log!Spec
=============================================================================
