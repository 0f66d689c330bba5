----------------------------- MODULE RingProofs -----------------------------
(***************************************************************************)
(* Proofs about the two rings behind header copies, the event log and the  *)
(* legacy history, for any capacity, any number of events or records and   *)
(* any number of failed and torn writes.                                   *)
(***************************************************************************)
EXTENDS LegacyRing, EventLog, SequenceTheorems, WellFoundedInduction, TLAPS

-----------------------------------------------------------------------------
(***************************************************************************)
(* Arithmetic and recursion.                                               *)
(***************************************************************************)
LEMMA LeastExists ==
  ASSUME NEW S \in SUBSET Nat, S # {}
  PROVE  \E x \in S : \A y \in S : x <= y
  <1> DEFINE R == {p \in Nat \X Nat : p[1] < p[2]}
  <1>1. IsWellFoundedOn(R, Nat)
    BY NatLessThanWellFounded DEF OpToRel
  <1>2. PICK x \in S : \A y \in S : ~ (<<y, x>> \in R)
    BY <1>1, WFMin
  <1>3. ASSUME NEW y \in S PROVE x <= y
    <2>1. x \in Nat /\ y \in Nat
      OBVIOUS
    <2>2. ~ (y < x)
      BY <1>2, <2>1, Zenon
    <2>3. QED
      BY <2>1, <2>2
  <1>4. QED
    BY <1>3

\* A position in a ring, at most once around.
LEMMA RoundTheRing ==
  ASSUME NEW size \in Nat \ {0}, NEW n \in 0 .. 2 * size - 1
  PROVE  n % size = IF n < size THEN n ELSE n - size
  OBVIOUS

\* Generations alternate between even and odd, at the end of their range too.
LEMMA Alternate ==
  ASSUME NEW n \in 0 .. Span - 1
  PROVE  /\ (n + 1) % Span = IF n = Span - 1 THEN 0 ELSE n + 1
         /\ (n + 1) % Span \in 0 .. Span - 1
         /\ ((n + 1) % Span) % 2 = 1 - (n % 2)
         /\ n % 2 \in {0, 1}
  <1>1. Span \in Nat /\ Span >= 4 /\ Span % 2 = 0
    BY SpanAssumption
  <1>2. CASE n = Span - 1
    <2>1. (n + 1) % Span = 0
      BY <1>1, <1>2
    <2>2. QED
      BY <1>1, <1>2, <2>1
  <1>3. CASE n # Span - 1
    <2>1. (n + 1) % Span = n + 1
      BY <1>1, <1>3
    <2>2. QED
      BY <1>1, <1>3, <2>1
  <1>4. QED
    BY <1>2, <1>3

\* A generation is the newer one of itself and its predecessor.
LEMMA Succession ==
  ASSUME NEW n \in 0 .. Span - 1, NEW m \in 0 .. Span - 1, m = (n + 1) % Span
  PROVE  /\ (m - n) % Span < Span \div 2
         /\ ~ ((n - m) % Span < Span \div 2)
  <1>1. Span \in Nat /\ Span >= 4 /\ Span % 2 = 0
    BY SpanAssumption
  <1>2. m = IF n = Span - 1 THEN 0 ELSE n + 1
    BY Alternate
  <1>3. (m - n) % Span = 1 /\ (n - m) % Span = Span - 1
    BY <1>1, <1>2
  <1>4. 1 < Span \div 2 /\ ~ (Span - 1 < Span \div 2)
    BY <1>1
  <1>5. QED
    BY <1>3, <1>4
-----------------------------------------------------------------------------
(***************************************************************************)
(* Header copies.                                                          *)
(***************************************************************************)
Plain(header, size) == header.count = size \/ header.write = header.count

\* The next header may be written: the copy it goes to is not the one in use.
Ready(file, header, size) ==
  /\ header \in Headers(size) /\ Plain(header, size)
  /\ file.copies[CopyOf(header)] \in {header, Spoiled}
  /\ header.count <= Len(file.slots) /\ Len(file.slots) <= size

LEMMA CopyIs ==
  ASSUME NEW size \in Nat \ {0}, NEW header \in Headers(size)
  PROVE  /\ CopyOf(header) \in 1 .. 2 /\ 3 - CopyOf(header) \in 1 .. 2
         /\ CopyOf(header) # 3 - CopyOf(header)
         /\ CopyOf(EmptyHeader) = 1
  <1>1. header.gen \in 0 .. Span - 1
    BY DEF Headers
  <1>2. header.gen % 2 \in {0, 1}
    BY <1>1, Alternate
  <1>3. QED
    BY <1>2 DEF CopyOf, EmptyHeader

LEMMA NextIs ==
  ASSUME NEW size \in Nat \ {0}, NEW header \in Headers(size)
  PROVE  LET next == NextHeader(header, size) IN
         /\ next \in Headers(size)
         /\ next.gen = (header.gen + 1) % Span
         /\ CopyOf(next) = 3 - CopyOf(header)
         /\ next.count = IF header.count < size THEN header.count + 1 ELSE size
         /\ next.write = IF header.write = size - 1 THEN 0 ELSE header.write + 1
         /\ Plain(header, size) => Plain(next, size)
  <1> DEFINE next == NextHeader(header, size)
  <1>1. /\ header.gen \in 0 .. Span - 1 /\ header.write \in 0 .. size - 1
        /\ header.count \in 0 .. size
    BY DEF Headers
  <1>2. /\ next.gen = (header.gen + 1) % Span
        /\ next.write = (header.write + 1) % size
        /\ next.count = IF header.count < size THEN header.count + 1 ELSE size
    BY DEF NextHeader
  <1>3. next.write = IF header.write = size - 1 THEN 0 ELSE header.write + 1
    BY <1>1, <1>2
  <1>4. next.gen \in 0 .. Span - 1 /\ next.gen % 2 = 1 - (header.gen % 2) /\ header.gen % 2 \in {0, 1}
    BY <1>1, <1>2, Alternate
  <1>5. next.write \in 0 .. size - 1 /\ next.count \in 0 .. size
    BY <1>1, <1>2, <1>3
  <1>6. next \in Headers(size)
    BY <1>4, <1>5 DEF Headers, NextHeader
  <1>7. CopyOf(next) = 3 - CopyOf(header)
    <2> DEFINE a == header.gen % 2
               b == ((header.gen + 1) % Span) % 2
    <2>1. a \in {0, 1} /\ b = 1 - a
      BY <1>1, Alternate
    <2>2. CopyOf(header) = a + 1 /\ CopyOf(next) = b + 1
      BY <1>2, Zenon DEF CopyOf
    <2> HIDE DEF a, b, next
    <2>3. QED
      BY <2>1, <2>2
  <1>8. Plain(header, size) => Plain(next, size)
    BY <1>1, <1>2, <1>3 DEF Plain
  <1>9. QED
    BY <1>2, <1>3, <1>6, <1>7, <1>8

\* A reader takes the header that was written last.
LEMMA NewestIs ==
  ASSUME NEW size \in Nat \ {0}, NEW file, NEW header \in Headers(size),
         file.copies[CopyOf(header)] = header, Spoiled \notin Headers(size),
         NEW other, file.copies[3 - CopyOf(header)] = other,
         \/ other = Spoiled
         \/ header = EmptyHeader /\ other = EmptyHeader
         \/ other \in Headers(size) /\ header.gen = (other.gen + 1) % Span
  PROVE  NewestHeader(file) = header /\ Readable(file)
  <1>1. CopyOf(header) \in 1 .. 2 /\ header # Spoiled
    BY CopyIs
  <1>2. header.gen \in 0 .. Span - 1
    BY DEF Headers
  <1>3. CASE other = Spoiled
    <2>1. CASE CopyOf(header) = 1
      BY <1>1, <1>3, <2>1 DEF NewestHeader, Readable
    <2>2. CASE CopyOf(header) = 2
      BY <1>1, <1>3, <2>2 DEF NewestHeader, Readable
    <2>3. QED
      BY <1>1, <2>1, <2>2
  <1>4. CASE header = EmptyHeader /\ other = EmptyHeader
    <2>1. file.copies[1] = header /\ file.copies[2] = header
      BY <1>4, CopyIs
    <2>2. QED
      BY <1>1, <2>1 DEF NewestHeader, Readable
  <1>5. CASE other \in Headers(size) /\ header.gen = (other.gen + 1) % Span
    <2>1. other.gen \in 0 .. Span - 1 /\ other # Spoiled
      BY <1>5 DEF Headers
    <2>2. NotOlder(header, other) /\ ~ NotOlder(other, header)
      BY <1>2, <1>5, <2>1, Succession DEF NotOlder
    <2>3. CASE CopyOf(header) = 1
      BY <1>1, <2>1, <2>2, <2>3 DEF NewestHeader, Readable
    <2>4. CASE CopyOf(header) = 2
      BY <1>1, <2>1, <2>2, <2>4 DEF NewestHeader, Readable
    <2>5. QED
      BY <1>1, <2>3, <2>4
  <1>6. QED
    BY <1>3, <1>4, <1>5

LEMMA WrittenIsReady ==
  ASSUME NEW size \in Nat \ {0}, NEW S, NEW file \in RingFiles(size, S), Written(file, size)
  PROVE  Ready(file, NewestHeader(file), size) /\ Readable(file)
  <1> DEFINE header == NewestHeader(file)
  <1>1. header \in {file.copies[1], file.copies[2]} /\ header # Spoiled
    BY DEF NewestHeader, Written
  <1>2. header \in Headers(size)
    BY <1>1 DEF RingFiles
  <1>3. QED
    BY <1>1, <1>2 DEF Written, Ready, Plain, LongEnough, Readable

LEMMA EmptyRingIs ==
  ASSUME NEW size \in Nat \ {0}, NEW S, Spoiled \notin Headers(size)
  PROVE  /\ EmptyHeader \in Headers(size) /\ Plain(EmptyHeader, size)
         /\ EmptyRing \in RingFiles(size, S) /\ Written(EmptyRing, size)
         /\ Readable(EmptyRing) /\ NewestHeader(EmptyRing) = EmptyHeader
         /\ TornRing \in RingFiles(size, S) /\ ~ Readable(TornRing)
         /\ EmptyRing.slots = <<>> /\ TornRing.slots = <<>>
  <1>1. EmptyHeader \in Headers(size) /\ Plain(EmptyHeader, size)
    BY SpanAssumption DEF EmptyHeader, Headers, Plain
  <1>2. <<EmptyHeader, EmptyHeader>> \in [1 .. 2 -> Headers(size) \union {Spoiled}]
    BY <1>1
  <1>3. <<Spoiled, Spoiled>> \in [1 .. 2 -> Headers(size) \union {Spoiled}]
    OBVIOUS
  <1>4. /\ EmptyRing.slots = <<>> /\ TornRing.slots = <<>> /\ Len(<<>>) = 0
        /\ <<>> \in Seq(S \union {Spoiled})
    BY DEF EmptyRing, TornRing
  <1>5. EmptyRing \in RingFiles(size, S) /\ TornRing \in RingFiles(size, S)
    BY <1>2, <1>3, <1>4 DEF EmptyRing, TornRing, RingFiles
  <1>6. /\ EmptyRing.copies[1] = EmptyHeader /\ EmptyRing.copies[2] = EmptyHeader
        /\ TornRing.copies[1] = Spoiled /\ TornRing.copies[2] = Spoiled
    BY DEF EmptyRing, TornRing
  <1>7. CopyOf(EmptyHeader) = 1 /\ 3 - CopyOf(EmptyHeader) = 2
    BY <1>1, CopyIs
  <1>8. Readable(EmptyRing) /\ NewestHeader(EmptyRing) = EmptyHeader
    BY <1>1, <1>6, <1>7, NewestIs
  <1>9. Written(EmptyRing, size)
    BY <1>1, <1>4, <1>6, <1>7, <1>8 DEF Written, LongEnough, EmptyHeader
  <1>10. ~ Readable(TornRing)
    BY <1>6 DEF Readable
  <1>11. QED
    BY <1>1, <1>4, <1>5, <1>8, <1>9, <1>10
-----------------------------------------------------------------------------
(***************************************************************************)
(* The records of a ring.                                                  *)
(***************************************************************************)
\* The slot that holds the i-th record, counted from the oldest.
SlotOf(header, size, i) ==
  (((IF header.count < size THEN 0 ELSE header.write) + i - 1) % size) + 1

LEMMA SlotIs ==
  ASSUME NEW size \in Nat \ {0}, NEW header \in Headers(size), Plain(header, size),
         NEW i \in 1 .. header.count
  PROVE  /\ SlotOf(header, size, i) \in 1 .. header.count
         /\ SlotOf(header, size, i) =
              IF header.count < size THEN i
              ELSE IF header.write + i <= size THEN header.write + i
              ELSE header.write + i - size
         /\ \A slots : InOrder(slots, header, size)[i] = slots[SlotOf(header, size, i)]
  <1>1. header.count \in 0 .. size /\ header.write \in 0 .. size - 1
    BY DEF Headers
  <1> DEFINE first == IF header.count < size THEN 0 ELSE header.write
  <1>2. first + i - 1 \in 0 .. 2 * size - 1 /\ first \in 0 .. size - 1
    BY <1>1
  <1>3. (first + i - 1) % size = IF first + i - 1 < size THEN first + i - 1 ELSE first + i - 1 - size
    BY <1>2, RoundTheRing
  <1>4. /\ SlotOf(header, size, i) \in 1 .. header.count
        /\ SlotOf(header, size, i) =
              IF header.count < size THEN i
              ELSE IF header.write + i <= size THEN header.write + i
              ELSE header.write + i - size
    BY <1>1, <1>3 DEF SlotOf
  <1>5. \A slots : InOrder(slots, header, size)[i] = slots[SlotOf(header, size, i)]
    BY DEF InOrder, SlotOf
  <1>6. QED
    BY <1>4, <1>5

\* The slot written next holds no record of the ring, or its oldest.
LEMMA WriteSlot ==
  ASSUME NEW size \in Nat \ {0}, NEW header \in Headers(size), Plain(header, size),
         NEW i \in 1 .. header.count, SlotOf(header, size, i) = header.write + 1
  PROVE  header.count = size /\ i = 1
  <1>1. header.count \in 0 .. size /\ header.write \in 0 .. size - 1
    BY DEF Headers
  <1>2. QED
    BY <1>1, SlotIs DEF Plain

\* When its header is written the record is the newest one, and the others
\* move one place towards the oldest when the ring was full.
LEMMA SlotMoves ==
  ASSUME NEW size \in Nat \ {0}, NEW header \in Headers(size), Plain(header, size),
         NEW i \in 1 .. NextHeader(header, size).count
  PROVE  LET next == NextHeader(header, size) IN
         SlotOf(next, size, i) =
           IF i = next.count THEN header.write + 1
           ELSE SlotOf(header, size, IF header.count < size THEN i ELSE i + 1)
  <1> DEFINE next == NextHeader(header, size)
  <1>1. header.count \in 0 .. size /\ header.write \in 0 .. size - 1
    BY DEF Headers
  <1>2. /\ next \in Headers(size) /\ Plain(next, size)
        /\ next.count = IF header.count < size THEN header.count + 1 ELSE size
        /\ next.write = IF header.write = size - 1 THEN 0 ELSE header.write + 1
    BY NextIs
  <1> HIDE DEF next
  <1>3. next.count \in 0 .. size /\ i \in 1 .. next.count
    BY <1>1, <1>2 DEF next
  <1>4. SlotOf(next, size, i) =
          IF next.count < size THEN i
          ELSE IF next.write + i <= size THEN next.write + i ELSE next.write + i - size
    BY <1>2, <1>3, SlotIs
  <1>5. CASE header.count < size
    <2>1. i = next.count => SlotOf(next, size, i) = header.write + 1
      BY <1>1, <1>2, <1>3, <1>4, <1>5 DEF Plain
    <2>2. ASSUME i # next.count PROVE SlotOf(next, size, i) = SlotOf(header, size, i)
      <3>1. i \in 1 .. header.count
        BY <1>1, <1>2, <1>3, <1>5, <2>2
      <3>2. SlotOf(header, size, i) = i
        BY <1>5, <3>1, SlotIs
      <3>3. SlotOf(next, size, i) = i
        BY <1>1, <1>2, <1>3, <1>4, <1>5, <3>1 DEF Plain
      <3>4. QED
        BY <3>2, <3>3
    <2>3. QED
      BY <1>5, <2>1, <2>2 DEF next
  <1>6. CASE header.count = size
    <2>1. next.count = size
      BY <1>1, <1>2, <1>6
    <2>2. i = size => SlotOf(next, size, i) = header.write + 1
      BY <1>1, <1>2, <1>3, <1>4, <2>1
    <2>3. ASSUME i # size PROVE SlotOf(next, size, i) = SlotOf(header, size, i + 1)
      <3>1. i + 1 \in 1 .. header.count
        BY <1>1, <1>3, <1>6, <2>1, <2>3
      <3>2. SlotOf(header, size, i + 1) =
              IF header.write + (i + 1) <= size THEN header.write + (i + 1)
              ELSE header.write + (i + 1) - size
        BY <1>1, <1>6, <3>1, SlotIs
      <3>3. QED
        BY <1>1, <1>2, <1>3, <1>4, <2>1, <2>3, <3>2
    <2>4. QED
      BY <1>1, <1>6, <2>1, <2>2, <2>3 DEF next
  <1>7. QED
    BY <1>1, <1>5, <1>6

LEMMA PutSlotIs ==
  ASSUME NEW T, NEW slots \in Seq(T), NEW i \in Nat, i <= Len(slots), NEW rec \in T
  PROVE  LET put == PutSlot(slots, i, rec) IN
         /\ put \in Seq(T) /\ put[i + 1] = rec
         /\ Len(put) = IF i = Len(slots) THEN i + 1 ELSE Len(slots)
         /\ \A j \in 1 .. Len(slots) : j # i + 1 => put[j] = slots[j]
  <1> DEFINE put == PutSlot(slots, i, rec)
  <1>1. Len(slots) \in Nat
    OBVIOUS
  <1>2. CASE i = Len(slots)
    <2>1. put = Append(slots, rec)
      BY <1>1, <1>2 DEF PutSlot
    <2>2. QED
      BY <1>1, <1>2, <2>1, AppendProperties
  <1>3. CASE i # Len(slots)
    <2>1. put = [slots EXCEPT ![i + 1] = rec] /\ i + 1 \in 1 .. Len(slots)
      BY <1>1, <1>3 DEF PutSlot
    <2>2. QED
      BY <1>1, <1>3, <2>1, ExceptSeq
  <1>4. QED
    BY <1>2, <1>3

\* now is what remains of s without its first d elements.
Suffix(now, s, d) ==
  Len(now) = Len(s) - d /\ \A i \in 1 .. Len(now) : now[i] = s[i + d]

LEMMA NewestElements ==
  ASSUME NEW T, NEW s \in Seq(T), NEW k \in Nat
  PROVE  /\ Newest(s, k) \in Seq(T)
         /\ Suffix(Newest(s, k), s, IF Len(s) <= k THEN 0 ELSE Len(s) - k)
  <1>1. Len(s) \in Nat
    OBVIOUS
  <1>2. CASE Len(s) <= k
    BY <1>1, <1>2 DEF Newest, Suffix
  <1>3. CASE Len(s) > k
    <2> DEFINE m == Len(s) - k + 1
               n == Len(s)
    <2>1. m \in Int /\ n \in Int /\ m \in 1 .. n + 1 /\ n - m + 1 = k
      BY <1>1, <1>3
    <2>2. \A i \in m .. n : s[i] \in T
      BY <1>1, <2>1
    <2>3. /\ SubSeq(s, m, n) \in Seq(T)
          /\ Len(SubSeq(s, m, n)) = IF m <= n THEN n - m + 1 ELSE 0
          /\ \A i \in 1 .. n - m + 1 : SubSeq(s, m, n)[i] = s[m + i - 1]
      BY <2>1, <2>2, SubSeqProperties
    <2>4. Newest(s, k) = SubSeq(s, m, n)
      BY <1>1, <1>3 DEF Newest
    <2>5. Len(SubSeq(s, m, n)) = k
      BY <2>1, <2>3
    <2>6. ASSUME NEW i \in 1 .. k PROVE SubSeq(s, m, n)[i] = s[i + (Len(s) - k)]
      <3>1. SubSeq(s, m, n)[i] = s[m + i - 1]
        BY <2>1, <2>3
      <3>2. m + i - 1 = i + (Len(s) - k)
        BY <1>1
      <3>3. QED
        BY <3>1, <3>2
    <2>7. Suffix(Newest(s, k), s, Len(s) - k)
      BY <1>1, <2>4, <2>5, <2>6 DEF Suffix
    <2>8. QED
      BY <1>1, <1>3, <2>3, <2>4, <2>7
  <1>4. QED
    BY <1>1, <1>2, <1>3

Adds(new, old, rec) ==
  \A j \in DOMAIN new : new[j] = rec \/ \E i \in DOMAIN old : new[j] = old[i]

Shifted(now, s, e, d) ==
  /\ \A i \in DOMAIN now : i + d \in 1 .. Len(s) + 1
  /\ \A i \in DOMAIN now : now[i] = IF i + d = Len(s) + 1 THEN e ELSE s[i + d]

\* One element more, of which the newest k are kept.
LEMMA NewestAdd ==
  ASSUME NEW T, NEW s \in Seq(T), NEW e \in T, NEW k \in Nat
  PROVE  LET now == Newest(Append(s, e), k) IN
         /\ now \in Seq(T) /\ Len(now) <= k /\ Adds(now, s, e)
         /\ \E d \in Nat : Shifted(now, s, e, d)
  <1> DEFINE longer == Append(s, e)
             now == Newest(longer, k)
             d == IF Len(longer) <= k THEN 0 ELSE Len(longer) - k
  <1>1. /\ longer \in Seq(T) /\ Len(longer) = Len(s) + 1 /\ Len(s) \in Nat
        /\ \A i \in 1 .. Len(s) : longer[i] = s[i]
        /\ longer[Len(s) + 1] = e
    BY AppendProperties
  <1> HIDE DEF longer
  <1>2. now \in Seq(T) /\ Suffix(now, longer, d)
    BY <1>1, NewestElements
  <1> HIDE DEF now
  <1>3. d \in Nat /\ Len(now) <= k /\ Len(now) + d = Len(s) + 1 /\ DOMAIN now = 1 .. Len(now) /\ Len(now) \in Nat
    <2>1. DOMAIN now = 1 .. Len(now) /\ Len(now) \in Nat
      BY <1>2
    <2>2. Len(now) = Len(longer) - d
      BY <1>2, Zenon DEF Suffix
    <2>3. d \in Nat /\ Len(longer) - d <= k
      BY <1>1
    <2> HIDE DEF d
    <2>4. QED
      BY <1>1, <2>1, <2>2, <2>3
  <1>4. \A i \in DOMAIN now : now[i] = longer[i + d]
    BY <1>2, <1>3 DEF Suffix
  <1> HIDE DEF d
  <1>5. \A i \in DOMAIN now : i + d \in 1 .. Len(s) + 1
    BY <1>1, <1>3
  <1>6. \A i \in DOMAIN now : now[i] = IF i + d = Len(s) + 1 THEN e ELSE s[i + d]
    BY <1>1, <1>3, <1>4, <1>5
  <1>7. ASSUME NEW i \in DOMAIN now PROVE now[i] = e \/ \E j \in DOMAIN s : now[i] = s[j]
    <2>1. CASE i + d = Len(s) + 1
      BY <1>6, <2>1
    <2>2. CASE i + d # Len(s) + 1
      <3>1. i + d \in DOMAIN s /\ now[i] = s[i + d]
        BY <1>1, <1>3, <1>5, <1>6, <2>2
      <3>2. QED
        BY <3>1, Zenon
    <2>3. QED
      BY <2>1, <2>2
  <1>8. Adds(now, s, e)
    BY <1>7, Zenon DEF Adds
  <1>9. Shifted(now, s, e, d)
    BY <1>5, <1>6, Zenon DEF Shifted
  <1>10. QED
    BY <1>2, <1>3, <1>8, <1>9, Zenon DEF now, longer
-----------------------------------------------------------------------------
(***************************************************************************)
(* A ring and what has been acknowledged.                                  *)
(***************************************************************************)
\* The ring holds what was kept, but for its oldest record when it is full,
\* whose slot an unfinished write may have taken.
Mirrors(slots, header, kept, size) ==
  /\ Len(kept) = header.count
  /\ \A i \in 1 .. header.count :
       \/ i = 1 /\ header.count = size
       \/ slots[SlotOf(header, size, i)] = kept[i]

\* A record in its slot, or what is left of it, changes nothing that counts yet.
LEMMA PutMirrors ==
  ASSUME NEW size \in Nat \ {0}, NEW header \in Headers(size), Plain(header, size),
         NEW T, NEW slots \in Seq(T), header.count <= Len(slots), Len(slots) <= size,
         NEW rec \in T, NEW kept, Mirrors(slots, header, kept, size)
  PROVE  LET put == PutSlot(slots, header.write, rec) IN
         /\ put \in Seq(T) /\ header.count <= Len(put) /\ Len(put) <= size
         /\ header.write + 1 <= Len(put) /\ put[header.write + 1] = rec
         /\ Mirrors(put, header, kept, size)
         /\ \A j \in 1 .. Len(put) : put[j] = rec \/ \E i \in 1 .. Len(slots) : put[j] = slots[i]
  <1> DEFINE put == PutSlot(slots, header.write, rec)
  <1>1. /\ header.count \in 0 .. size /\ header.write \in 0 .. size - 1
        /\ Len(slots) \in Nat
    BY DEF Headers
  <1>2. header.write <= Len(slots) /\ header.write \in Nat
    BY <1>1 DEF Plain
  <1>3. /\ put \in Seq(T) /\ put[header.write + 1] = rec
        /\ Len(put) = IF header.write = Len(slots) THEN header.write + 1 ELSE Len(slots)
        /\ \A j \in 1 .. Len(slots) : j # header.write + 1 => put[j] = slots[j]
    <2> DEFINE w == header.write
    <2>1. w \in Nat /\ w <= Len(slots)
      BY <1>2
    <2> HIDE DEF w
    <2>2. LET q == PutSlot(slots, w, rec) IN
          /\ q \in Seq(T) /\ q[w + 1] = rec
          /\ Len(q) = IF w = Len(slots) THEN w + 1 ELSE Len(slots)
          /\ \A j \in 1 .. Len(slots) : j # w + 1 => q[j] = slots[j]
      BY <2>1, PutSlotIs
    <2>3. QED
      BY <2>2 DEF w
  <1> HIDE DEF put
  <1>4. header.count <= Len(put) /\ Len(put) <= size /\ header.write + 1 <= Len(put)
    BY <1>1, <1>2, <1>3
  <1>5. ASSUME NEW i \in 1 .. header.count, ~ (i = 1 /\ header.count = size)
        PROVE  put[SlotOf(header, size, i)] = kept[i]
    <2>1. SlotOf(header, size, i) # header.write + 1
      BY <1>5, WriteSlot
    <2>2. SlotOf(header, size, i) \in 1 .. Len(slots)
      BY <1>1, SlotIs
    <2>3. QED
      BY <1>3, <1>5, <2>1, <2>2 DEF Mirrors
  <1>6. Mirrors(put, header, kept, size)
    BY <1>5 DEF Mirrors
  <1>7. ASSUME NEW j \in 1 .. Len(put)
        PROVE  put[j] = rec \/ \E i \in 1 .. Len(slots) : put[j] = slots[i]
    <2>1. j = header.write + 1 \/ j \in 1 .. Len(slots)
      BY <1>1, <1>2, <1>3
    <2>2. QED
      BY <1>3, <2>1
  <1>8. QED
    BY <1>3, <1>4, <1>6, <1>7 DEF put

\* With its header the record belongs to the ring.
LEMMA SealMirrors ==
  ASSUME NEW size \in Nat \ {0}, NEW header \in Headers(size), Plain(header, size),
         NEW slots, NEW T, NEW kept \in Seq(T), NEW rec \in T,
         slots[header.write + 1] = rec, Mirrors(slots, header, kept, size)
  PROVE  Mirrors(slots, NextHeader(header, size), Newest(Append(kept, rec), size), size)
  <1> DEFINE next == NextHeader(header, size)
             longer == Append(kept, rec)
             now == Newest(longer, size)
  <1>1. header.count \in 0 .. size /\ Len(kept) = header.count
    BY DEF Headers, Mirrors
  <1>2. next.count = IF header.count < size THEN header.count + 1 ELSE size
    BY NextIs
  <1>3. /\ longer \in Seq(T) /\ Len(longer) = header.count + 1
        /\ \A i \in 1 .. header.count : longer[i] = kept[i]
        /\ longer[header.count + 1] = rec
    BY <1>1, AppendProperties
  <1> HIDE DEF longer
  <1>4. /\ Len(longer) <= size => now = longer
        /\ Len(longer) > size => Len(now) = size /\ \A i \in 1 .. size : now[i] = longer[Len(longer) - size + i]
    <2>1. Suffix(now, longer, IF Len(longer) <= size THEN 0 ELSE Len(longer) - size)
      BY <1>3, NewestElements
    <2>2. CASE Len(longer) <= size
      <3>1. now = longer
        BY <2>2 DEF Newest
      <3>2. QED
        BY <1>3, <2>2, <3>1
    <2>3. CASE Len(longer) > size
      <3> DEFINE shift == Len(longer) - size
      <3>1. Suffix(now, longer, shift)
        BY <1>1, <1>3, <2>1, <2>3
      <3>2. Len(now) = size
        BY <1>1, <1>3, <3>1 DEF Suffix
      <3>3. \A i \in 1 .. size : now[i] = longer[i + shift]
        BY <3>1, <3>2 DEF Suffix
      <3>4. ASSUME NEW i \in 1 .. size PROVE now[i] = longer[Len(longer) - size + i]
        <4>1. i + shift = Len(longer) - size + i
          BY <1>1, <1>3
        <4>2. QED
          BY <3>3, <4>1, Zenon
      <3>5. QED
        BY <1>1, <1>3, <2>3, <3>2, <3>4
    <2>4. QED
      BY <1>1, <1>3, <2>2, <2>3
  <1> DEFINE cnt == next.count
  <1>5. cnt = IF header.count < size THEN header.count + 1 ELSE size
    BY <1>2
  <1>6. ASSUME NEW i \in 1 .. cnt, ~ (i = 1 /\ cnt = size)
        PROVE  slots[SlotOf(next, size, i)] = now[i]
    <2> DEFINE j == IF header.count < size THEN i ELSE i + 1
    <2>1. SlotOf(next, size, i) = IF i = cnt THEN header.write + 1 ELSE SlotOf(header, size, j)
      BY SlotMoves
    <2> HIDE DEF now, next, cnt
    <2>2. Len(now) = cnt
      BY <1>1, <1>3, <1>4, <1>5
    <2>3. now[i] = longer[j]
      BY <1>1, <1>3, <1>4, <1>5, <2>2
    <2>4. CASE i = cnt
      BY <1>1, <1>3, <1>5, <2>1, <2>3, <2>4
    <2>5. CASE i # cnt
      <3>1. j \in 1 .. header.count /\ ~ (j = 1 /\ header.count = size)
        BY <1>1, <1>5, <2>5
      <3>2. slots[SlotOf(header, size, j)] = kept[j]
        BY <3>1 DEF Mirrors
      <3>3. QED
        BY <1>3, <2>1, <2>3, <2>5, <3>1, <3>2
    <2>6. QED
      BY <2>4, <2>5
  <1>7. Len(now) = next.count
    <2> HIDE DEF now, next
    <2>1. QED
      BY <1>1, <1>2, <1>3, <1>4
  <1>8. QED
    <2> HIDE DEF now
    <2>1. Mirrors(slots, next, now, size)
      BY <1>6, <1>7 DEF Mirrors
    <2>2. QED
      BY <2>1 DEF now, longer
-----------------------------------------------------------------------------
(***************************************************************************)
(* Writing a header.                                                       *)
(***************************************************************************)
WithCopy(file, k, copy) == [file EXCEPT !.copies[k] = copy]

LEMMA CopyPut ==
  ASSUME NEW size \in Nat \ {0}, NEW S, NEW file \in RingFiles(size, S), NEW k \in 1 .. 2,
         NEW copy \in Headers(size) \union {Spoiled}
  PROVE  /\ WithCopy(file, k, copy) \in RingFiles(size, S)
         /\ WithCopy(file, k, copy).slots = file.slots
         /\ WithCopy(file, k, copy).copies[k] = copy
         /\ WithCopy(file, k, copy).copies[3 - k] = file.copies[3 - k]
  BY DEF WithCopy, RingFiles

\* The next header takes over, whether the copy of the one in use is there or
\* was never written.
LEMMA SealWritten ==
  ASSUME NEW size \in Nat \ {0}, NEW S, NEW file \in RingFiles(size, S),
         NEW header, Ready(file, header, size), Spoiled \notin Headers(size),
         header.write + 1 <= Len(file.slots)
  PROVE  LET next == NextHeader(header, size)
             sealed == WithCopy(file, CopyOf(next), next) IN
         /\ sealed \in RingFiles(size, S) /\ sealed.slots = file.slots
         /\ Written(sealed, size) /\ Readable(sealed) /\ NewestHeader(sealed) = next
  <1> DEFINE next == NextHeader(header, size)
             sealed == WithCopy(file, CopyOf(next), next)
  <1>1. header \in Headers(size) /\ Plain(header, size)
    BY DEF Ready
  <1>2. /\ next \in Headers(size) /\ next.gen = (header.gen + 1) % Span
        /\ CopyOf(next) = 3 - CopyOf(header) /\ Plain(next, size)
        /\ next.count = IF header.count < size THEN header.count + 1 ELSE size
    BY <1>1, NextIs
  <1>3. /\ CopyOf(next) \in 1 .. 2 /\ 3 - CopyOf(next) \in 1 .. 2 /\ CopyOf(header) \in 1 .. 2
        /\ 3 - CopyOf(next) = CopyOf(header)
    BY <1>1, <1>2, CopyIs
  <1> HIDE DEF next
  <1>4. /\ sealed \in RingFiles(size, S) /\ sealed.slots = file.slots
        /\ sealed.copies[CopyOf(next)] = next
        /\ sealed.copies[3 - CopyOf(next)] = file.copies[CopyOf(header)]
    <2>1. next \in Headers(size) \union {Spoiled}
      BY <1>2
    <2>2. QED
      BY <1>3, <2>1, CopyPut
  <1>10. file.copies[CopyOf(header)] \in {header, Spoiled}
    BY DEF Ready
  <1> HIDE DEF sealed
  <1>5. NewestHeader(sealed) = next /\ Readable(sealed)
    BY <1>1, <1>2, <1>4, <1>10, NewestIs
  <1>6. next.count <= Len(file.slots) /\ Len(file.slots) <= size
    <2>1. /\ header.count \in 0 .. size /\ header.write \in 0 .. size - 1
          /\ Len(file.slots) \in Nat
      BY <1>1 DEF Headers, RingFiles
    <2>2. QED
      BY <1>1, <1>2, <2>1 DEF Ready, Plain
  <1>7. next # Spoiled
    BY <1>2
  <1>8. Written(sealed, size)
    <2>1. header = EmptyHeader \/ header.gen \in Int
      BY <1>1 DEF Headers
    <2>2. \/ sealed.copies[3 - CopyOf(next)] = Spoiled
          \/ next.gen = (sealed.copies[3 - CopyOf(next)].gen + 1) % Span
      BY <1>2, <1>4, <1>10
    <2>3. QED
      BY <1>2, <1>4, <1>5, <1>6, <1>7, <2>2 DEF Written, Plain, LongEnough
  <1>9. QED
    BY <1>4, <1>5, <1>8 DEF next, sealed

\* A header that is torn leaves the one in use.
LEMMA SpoilWritten ==
  ASSUME NEW size \in Nat \ {0}, NEW S, NEW file \in RingFiles(size, S),
         Written(file, size), Spoiled \notin Headers(size)
  PROVE  LET header == NewestHeader(file)
             torn == WithCopy(file, CopyOf(NextHeader(header, size)), Spoiled) IN
         /\ torn \in RingFiles(size, S) /\ torn.slots = file.slots
         /\ Written(torn, size) /\ Readable(torn) /\ NewestHeader(torn) = header
  <1> DEFINE header == NewestHeader(file)
             next == NextHeader(header, size)
             torn == WithCopy(file, CopyOf(next), Spoiled)
  <1>1. Ready(file, header, size)
    BY WrittenIsReady
  <1>2. header \in Headers(size)
    BY <1>1 DEF Ready
  <1>3. header # Spoiled /\ file.copies[CopyOf(header)] = header
    BY DEF Written
  <1> HIDE DEF header
  <1>4. CopyOf(next) = 3 - CopyOf(header)
    BY <1>2, NextIs
  <1>5. CopyOf(next) \in 1 .. 2 /\ 3 - CopyOf(next) = CopyOf(header) /\ 3 - CopyOf(header) = CopyOf(next)
    BY <1>2, <1>4, CopyIs
  <1> HIDE DEF next
  <1>6. /\ torn \in RingFiles(size, S) /\ torn.slots = file.slots
        /\ torn.copies[CopyOf(header)] = header /\ torn.copies[3 - CopyOf(header)] = Spoiled
    BY <1>3, <1>5, CopyPut
  <1> HIDE DEF torn
  <1>7. NewestHeader(torn) = header /\ Readable(torn)
    BY <1>2, <1>6, NewestIs
  <1>8. Written(torn, size)
    BY <1>1, <1>3, <1>6, <1>7 DEF Written, LongEnough, Ready, Plain
  <1>9. QED
    BY <1>6, <1>7, <1>8 DEF torn, next, header
-----------------------------------------------------------------------------
(***************************************************************************)
(* Sound is recursive.  What holds for every length is proved by looking   *)
(* at the least one for which it would not.                                *)
(***************************************************************************)
SoundStep(recs, g, n) ==
  IF n = 0 THEN <<>>
  ELSE IF recs[n] = Spoiled THEN g[n - 1] ELSE Append(g[n - 1], recs[n])

SoundUpTo(recs, g, k) == g = [n \in 0 .. k |-> SoundStep(recs, g, n)]

LEMMA SoundExtends ==
  ASSUME NEW recs, NEW m \in Nat \ {0}, NEW g, SoundUpTo(recs, g, m - 1)
  PROVE  \E h : SoundUpTo(recs, h, m)
  <1> DEFINE h == [n \in 0 .. m |-> IF n = m THEN SoundStep(recs, g, m) ELSE g[n]]
  <1>1. ASSUME NEW n \in 0 .. m PROVE h[n] = SoundStep(recs, h, n)
    <2>1. n # 0 => h[n - 1] = g[n - 1]
      OBVIOUS
    <2>2. SoundStep(recs, h, n) = SoundStep(recs, g, n)
      BY <2>1 DEF SoundStep
    <2>3. CASE n = m
      BY <2>2, <2>3
    <2>4. CASE n # m
      <3>1. n \in 0 .. m - 1
        BY <2>4
      <3>2. g[n] = SoundStep(recs, g, n)
        BY <3>1, Zenon DEF SoundUpTo
      <3>3. QED
        BY <2>2, <2>4, <3>2
    <2>5. QED
      BY <2>3, <2>4
  <1>2. SoundUpTo(recs, h, m)
    BY <1>1, Zenon DEF SoundUpTo
  <1>3. QED
    BY <1>2, Zenon

LEMMA SoundRecursion ==
  ASSUME NEW recs, Len(recs) \in Nat
  PROVE  \E g : SoundUpTo(recs, g, Len(recs)) /\ Sound(recs) = g[Len(recs)]
  <1> DEFINE N == Len(recs)
             Bad == {k \in 0 .. N : ~ \E g : SoundUpTo(recs, g, k)}
  <1>1. ASSUME Bad # {} PROVE FALSE
    <2>1. Bad \in SUBSET (0 .. N)
      BY Zenon
    <2>2. PICK m \in Bad : \A k \in Bad : m <= k
      <3> HIDE DEF Bad
      <3>1. QED
        BY <1>1, <2>1, LeastExists
    <2>3. CASE m = 0
      <3> DEFINE h == [n \in 0 .. 0 |-> <<>>]
      <3>1. \A n \in 0 .. 0 : <<>> = SoundStep(recs, h, n)
        BY DEF SoundStep
      <3>2. SoundUpTo(recs, h, 0)
        BY <3>1, Zenon DEF SoundUpTo
      <3>3. QED
        BY <2>2, <2>3, <3>2, Zenon
    <2>4. CASE m # 0
      <3>1. m \in Nat \ {0} /\ m - 1 \in 0 .. N /\ m - 1 \notin Bad
        <4> HIDE DEF Bad
        <4>1. QED
          BY <2>1, <2>2, <2>4
      <3>2. PICK g : SoundUpTo(recs, g, m - 1)
        BY <3>1, Zenon
      <3>3. QED
        BY <2>2, <3>1, <3>2, SoundExtends, Zenon
    <2>5. QED
      BY <2>3, <2>4
  <1>2. N \in 0 .. N
    OBVIOUS
  <1>3. \E g : SoundUpTo(recs, g, N)
    BY <1>1, <1>2, Zenon
  <1> DEFINE f == CHOOSE g : g = [n \in 0 .. N |-> SoundStep(recs, g, n)]
  <1>4. f = [n \in 0 .. N |-> SoundStep(recs, f, n)]
    BY <1>3, Zenon DEF SoundUpTo
  <1>5. Sound(recs) = f[N]
    BY Zenon DEF Sound, SoundStep
  <1>6. QED
    BY <1>4, <1>5, Zenon DEF SoundUpTo

\* out is what is sound of the first n records, each at the place p gives.
Picks(recs, n, out, p) ==
  /\ p \in [1 .. Len(out) -> 1 .. n]
  /\ \A i \in 1 .. Len(out) : out[i] = recs[p[i]] /\ recs[p[i]] # Spoiled /\ i <= p[i]
  /\ \A i, j \in 1 .. Len(out) : i < j => p[i] < p[j]
  /\ \A j \in 1 .. n : recs[j] # Spoiled => \E i \in 1 .. Len(out) : p[i] = j

LEMMA PickNext ==
  ASSUME NEW T, NEW recs, NEW n \in Nat, NEW out \in Seq(T), NEW p, Picks(recs, n, out, p),
         Len(out) <= n, recs[n + 1] \in T, recs[n + 1] # Spoiled
  PROVE  \E q : Picks(recs, n + 1, Append(out, recs[n + 1]), q)
  <1> DEFINE longer == Append(out, recs[n + 1])
             len == Len(out)
             q == [i \in 1 .. len + 1 |-> IF i = len + 1 THEN n + 1 ELSE p[i]]
  <1>1. /\ longer \in Seq(T) /\ Len(longer) = len + 1 /\ len \in Nat
        /\ \A i \in 1 .. len : longer[i] = out[i]
        /\ longer[len + 1] = recs[n + 1]
    BY AppendProperties
  <1> HIDE DEF longer
  <1>2. \A i \in 1 .. len : p[i] \in 1 .. n
    BY DEF Picks
  <1>3. q \in [1 .. len + 1 -> 1 .. n + 1]
    BY <1>1, <1>2
  <1>4. ASSUME NEW i \in 1 .. len + 1
        PROVE  longer[i] = recs[q[i]] /\ recs[q[i]] # Spoiled /\ i <= q[i]
    <2>1. CASE i = len + 1
      BY <1>1, <2>1
    <2>2. CASE i # len + 1
      <3>1. i \in 1 .. len /\ q[i] = p[i]
        BY <1>1, <2>2
      <3>2. QED
        BY <1>1, <3>1 DEF Picks
    <2>3. QED
      BY <2>1, <2>2
  <1>5. ASSUME NEW i \in 1 .. len + 1, NEW j \in 1 .. len + 1, i < j PROVE q[i] < q[j]
    <2>1. i \in 1 .. len /\ q[i] = p[i] /\ p[i] \in 1 .. n
      BY <1>1, <1>2, <1>5
    <2>2. CASE j = len + 1
      BY <2>1, <2>2
    <2>3. CASE j # len + 1
      <3>1. j \in 1 .. len /\ q[j] = p[j]
        BY <1>1, <2>3
      <3>2. QED
        BY <1>5, <2>1, <3>1 DEF Picks
    <2>4. QED
      BY <2>2, <2>3
  <1>6. ASSUME NEW j \in 1 .. n + 1, recs[j] # Spoiled
        PROVE  \E i \in 1 .. len + 1 : q[i] = j
    <2>1. CASE j = n + 1
      BY <1>1, <2>1
    <2>2. CASE j # n + 1
      <3>1. PICK i \in 1 .. len : p[i] = j
        BY <1>6, <2>2 DEF Picks
      <3>2. i \in 1 .. len + 1 /\ q[i] = j
        BY <1>1, <3>1
      <3>3. QED
        BY <3>2
    <2>3. QED
      BY <2>1, <2>2
  <1>7. Picks(recs, n + 1, longer, q)
    <2> HIDE DEF q
    <2>1. QED
      BY <1>1, <1>3, <1>4, <1>5, <1>6 DEF Picks
  <1>8. QED
    BY <1>7, Zenon DEF longer

\* Sound() keeps the sound records, all of them, in their order.
LEMMA SoundIs ==
  ASSUME NEW T, NEW recs \in Seq(T \union {Spoiled})
  PROVE  /\ Sound(recs) \in Seq(T) /\ Len(Sound(recs)) <= Len(recs)
         /\ \E p : Picks(recs, Len(recs), Sound(recs), p)
  <1> DEFINE N == Len(recs)
  <1>1. N \in Nat /\ \A i \in 1 .. N : recs[i] \in T \union {Spoiled}
    OBVIOUS
  <1>2. PICK g : SoundUpTo(recs, g, N) /\ Sound(recs) = g[N]
    BY <1>1, SoundRecursion, Zenon
  <1> DEFINE Good(n) == /\ g[n] \in Seq(T) /\ Len(g[n]) <= n
                        /\ \E p : Picks(recs, n, g[n], p)
             Bad == {n \in 0 .. N : ~ Good(n)}
  <1>3. \A n \in 0 .. N : g[n] = SoundStep(recs, g, n)
    BY <1>2, Zenon DEF SoundUpTo
  <1>4. ASSUME Bad # {} PROVE FALSE
    <2>1. Bad \in SUBSET (0 .. N)
      BY Zenon
    <2>2. PICK m \in Bad : \A k \in Bad : m <= k
      <3> HIDE DEF Bad
      <3>1. QED
        BY <1>1, <1>4, <2>1, LeastExists
    <2>3. m \in 0 .. N
      BY <2>1, <2>2, Zenon
    <2>4. CASE m = 0
      <3>1. g[m] = <<>>
        BY <1>3, <2>3, <2>4 DEF SoundStep
      <3>2. <<>> \in Seq(T) /\ Len(<<>>) = 0
        OBVIOUS
      <3> DEFINE p == [i \in 1 .. 0 |-> 0]
      <3>3. Picks(recs, 0, <<>>, p)
        BY <3>2 DEF Picks
      <3>4. Len(g[m]) <= m
        BY <2>4, <3>1, <3>2
      <3>5. g[m] \in Seq(T) /\ Picks(recs, m, g[m], p)
        <4> HIDE DEF p
        <4>1. QED
          BY <2>4, <3>1, <3>2, <3>3, Zenon
      <3>6. Good(m)
        <4> HIDE DEF p
        <4>1. QED
          BY <3>4, <3>5, Zenon
      <3>7. QED
        BY <2>2, <3>6, Zenon
    <2>5. CASE m # 0
      <3> DEFINE n == m - 1
      <3>1. n \in 0 .. N /\ n \in Nat /\ m = n + 1 /\ m \in 1 .. N
        BY <1>1, <2>3, <2>5
      <3>2. Good(n)
        <4>1. n \notin Bad
          <5> HIDE DEF Bad
          <5>1. QED
            BY <2>2, <2>3, <3>1
        <4>2. QED
          BY <3>1, <4>1, Zenon
      <3>3. g[m] = IF recs[m] = Spoiled THEN g[n] ELSE Append(g[n], recs[m])
        BY <1>3, <2>3, <2>5 DEF SoundStep
      <3> HIDE DEF n
      <3>4. Len(g[n]) \in Nat
        BY <3>2
      <3>5. CASE recs[m] = Spoiled
        <4>1. PICK p : Picks(recs, n, g[n], p)
          BY <3>2, Zenon
        <4>2. Picks(recs, m, g[n], p)
          BY <3>1, <3>4, <3>5, <4>1 DEF Picks
        <4>3. g[m] = g[n] /\ Len(g[n]) <= m
          BY <3>1, <3>2, <3>3, <3>4, <3>5
        <4>4. Good(m)
          BY <3>2, <4>2, <4>3, Zenon
        <4>5. QED
          BY <2>2, <4>4, Zenon
      <3>6. CASE recs[m] # Spoiled
        <4>1. recs[m] \in T
          BY <1>1, <3>1, <3>6
        <4>2. PICK p : Picks(recs, n, g[n], p)
          BY <3>2, Zenon
        <4> DEFINE out == g[n]
        <4>3. out \in Seq(T) /\ Len(out) <= n /\ Picks(recs, n, out, p)
          BY <3>2, <4>2, Zenon
        <4> HIDE DEF out
        <4>4. \E q : Picks(recs, n + 1, Append(out, recs[n + 1]), q)
          BY <3>1, <3>6, <4>1, <4>3, PickNext
        <4>5. Append(out, recs[m]) \in Seq(T) /\ Len(Append(out, recs[m])) = Len(out) + 1
          BY <4>1, <4>3, AppendProperties
        <4>6. Len(Append(out, recs[m])) <= m
          BY <3>1, <4>3, <4>5
        <4>7. g[m] = Append(out, recs[m])
          BY <3>3, <3>6 DEF out
        <4>8. Good(m)
          BY <3>1, <4>4, <4>5, <4>6, <4>7, Zenon
        <4>9. QED
          BY <2>2, <4>8, Zenon
      <3>7. QED
        BY <3>5, <3>6
    <2>6. QED
      BY <2>4, <2>5
  <1>5. N \in 0 .. N
    BY <1>1
  <1>6. Good(N)
    BY <1>4, <1>5, Zenon
  <1>7. QED
    BY <1>2, <1>6, Zenon
-----------------------------------------------------------------------------
(***************************************************************************)
(* What holds of a ring file between any two steps, and what its three     *)
(* kinds of writes, finished or torn, make of it.                          *)
(***************************************************************************)
CurrentHeader(file) == IF Readable(file) THEN NewestHeader(file) ELSE EmptyHeader

\* A file without a valid header is one whose creation was interrupted.
Holds(file, kept, size) ==
  /\ Len(file.slots) <= size
  /\ IF Readable(file)
     THEN Written(file, size) /\ Mirrors(file.slots, NewestHeader(file), kept, size)
     ELSE kept = <<>>

LEMMA HoldsReady ==
  ASSUME NEW size \in Nat \ {0}, NEW S, NEW file \in RingFiles(size, S),
         NEW kept, Holds(file, kept, size), Spoiled \notin Headers(size)
  PROVE  /\ Ready(file, CurrentHeader(file), size)
         /\ Mirrors(file.slots, CurrentHeader(file), kept, size)
         /\ CurrentHeader(file) \in Headers(size) /\ Plain(CurrentHeader(file), size)
  <1>1. CASE Readable(file)
    <2>1. CurrentHeader(file) = NewestHeader(file)
      BY <1>1 DEF CurrentHeader
    <2>2. QED
      BY <1>1, <2>1, WrittenIsReady DEF Holds, Ready
  <1>2. CASE ~ Readable(file)
    <2>1. CurrentHeader(file) = EmptyHeader /\ kept = <<>>
      BY <1>2 DEF CurrentHeader, Holds
    <2>2. EmptyHeader \in Headers(size) /\ Plain(EmptyHeader, size)
      BY EmptyRingIs
    <2>3. EmptyHeader.count = 0 /\ CopyOf(EmptyHeader) = 1 /\ file.copies[1] = Spoiled
      BY <1>2, <2>2, CopyIs DEF EmptyHeader, Readable
    <2>4. Len(file.slots) \in Nat
      BY DEF RingFiles
    <2>5. Ready(file, EmptyHeader, size)
      BY <2>2, <2>3, <2>4 DEF Ready, Holds
    <2>6. Mirrors(file.slots, EmptyHeader, <<>>, size)
      BY <2>3 DEF Mirrors
    <2>7. QED
      BY <2>1, <2>2, <2>5, <2>6
  <1>3. QED
    BY <1>1, <1>2

\* A new file holds nothing, and neither does one whose creation was cut short.
LEMMA FreshHolds ==
  ASSUME NEW size \in Nat \ {0}, NEW S, Spoiled \notin Headers(size)
  PROVE  /\ EmptyRing \in RingFiles(size, S) /\ Holds(EmptyRing, <<>>, size)
         /\ TornRing \in RingFiles(size, S) /\ Holds(TornRing, <<>>, size)
         /\ CurrentHeader(EmptyRing) = EmptyHeader /\ CurrentHeader(TornRing) = EmptyHeader
         /\ DOMAIN EmptyRing.slots = {} /\ DOMAIN TornRing.slots = {}
         /\ Readable(EmptyRing)
  <1>1. Len(<<>>) = 0 /\ DOMAIN <<>> = {} /\ EmptyHeader.count = 0
    BY DEF EmptyHeader
  <1>2. Mirrors(<<>>, EmptyHeader, <<>>, size)
    BY <1>1 DEF Mirrors
  <1>3. QED
    BY <1>1, <1>2, EmptyRingIs DEF Holds, CurrentHeader

WithSlot(file, i, rec) == [file EXCEPT !.slots = PutSlot(@, i, rec)]

\* A record in the slot that is written next.
LEMMA PutHolds ==
  ASSUME NEW size \in Nat \ {0}, NEW S, NEW file \in RingFiles(size, S),
         NEW kept, Holds(file, kept, size), Spoiled \notin Headers(size),
         NEW rec \in S \union {Spoiled}
  PROVE  LET header == CurrentHeader(file)
             put == WithSlot(file, header.write, rec) IN
         /\ put \in RingFiles(size, S) /\ Holds(put, kept, size)
         /\ CurrentHeader(put) = header /\ (Readable(put) <=> Readable(file))
         /\ NewestHeader(put) = NewestHeader(file)
         /\ put.slots = PutSlot(file.slots, header.write, rec)
         /\ header.write + 1 <= Len(put.slots) /\ put.slots[header.write + 1] = rec
         /\ Adds(put.slots, file.slots, rec)
  <1> DEFINE header == CurrentHeader(file)
             put == WithSlot(file, header.write, rec)
             slots == file.slots
             T == S \union {Spoiled}
  <1>1. /\ Ready(file, header, size) /\ Mirrors(file.slots, header, kept, size)
        /\ header \in Headers(size) /\ Plain(header, size)
    BY HoldsReady
  <1>2. /\ slots \in Seq(T) /\ header.count <= Len(slots) /\ Len(slots) <= size
        /\ Mirrors(slots, header, kept, size) /\ rec \in T
    BY <1>1 DEF Ready, RingFiles
  <1>3. put.slots = PutSlot(slots, header.write, rec) /\ put.copies = file.copies
    BY DEF WithSlot, RingFiles
  <1> HIDE DEF header, slots, T
  <1> DEFINE written == PutSlot(slots, header.write, rec)
  <1>4. /\ written \in Seq(T) /\ header.count <= Len(written) /\ Len(written) <= size
        /\ header.write + 1 <= Len(written) /\ written[header.write + 1] = rec
        /\ Mirrors(written, header, kept, size)
        /\ \A j \in 1 .. Len(written) : written[j] = rec \/ \E i \in 1 .. Len(slots) : written[j] = slots[i]
    BY <1>1, <1>2, PutMirrors
  <1>5. put \in RingFiles(size, S)
    <2>1. written \in Seq(S \union {Spoiled})
      BY <1>4 DEF T
    <2> HIDE DEF written
    <2>2. put = [file EXCEPT !.slots = written]
      BY DEF WithSlot, written, slots, RingFiles
    <2>3. QED
      BY <2>1, <2>2 DEF RingFiles
  <1> HIDE DEF put, written
  <1>6. /\ (Readable(put) <=> Readable(file)) /\ NewestHeader(put) = NewestHeader(file)
    BY <1>3, Zenon DEF Readable, NewestHeader
  <1>7. CurrentHeader(put) = header
    BY <1>6 DEF CurrentHeader, header
  <1>8. Holds(put, kept, size)
    <2>1. CASE Readable(file)
      <3>1. header = NewestHeader(put) /\ Written(file, size)
        BY <1>6, <2>1 DEF Holds, header, CurrentHeader
      <3>2. Written(put, size)
        BY <1>3, <1>4, <1>6, <3>1 DEF Written, LongEnough, written
      <3>3. QED
        BY <1>3, <1>4, <1>6, <2>1, <3>1, <3>2 DEF Holds, written
    <2>2. CASE ~ Readable(file)
      BY <1>3, <1>4, <1>6, <2>2 DEF Holds, written
    <2>3. QED
      BY <2>1, <2>2
  <1>9. Adds(written, slots, rec)
    BY <1>2, <1>4 DEF Adds
  <1>10. QED
    BY <1>3, <1>4, <1>5, <1>6, <1>7, <1>8, <1>9 DEF put, written, header, slots

\* The header of that record.
LEMMA SealHolds ==
  ASSUME NEW size \in Nat \ {0}, NEW S, NEW file \in RingFiles(size, S),
         NEW kept \in Seq(S), Holds(file, kept, size), Spoiled \notin Headers(size),
         NEW rec \in S, CurrentHeader(file).write + 1 <= Len(file.slots),
         file.slots[CurrentHeader(file).write + 1] = rec
  PROVE  LET next == NextHeader(CurrentHeader(file), size)
             sealed == WithCopy(file, CopyOf(next), next) IN
         /\ sealed \in RingFiles(size, S) /\ sealed.slots = file.slots
         /\ Holds(sealed, Newest(Append(kept, rec), size), size)
         /\ Readable(sealed) /\ CurrentHeader(sealed) = next /\ next \in Headers(size)
  <1> DEFINE header == CurrentHeader(file)
             next == NextHeader(header, size)
             sealed == WithCopy(file, CopyOf(next), next)
             longer == Newest(Append(kept, rec), size)
  <1>1. /\ Ready(file, header, size) /\ Mirrors(file.slots, header, kept, size)
        /\ header \in Headers(size) /\ Plain(header, size)
    BY HoldsReady
  <1>2. /\ header.write + 1 <= Len(file.slots) /\ file.slots[header.write + 1] = rec
    OBVIOUS
  <1> HIDE DEF header
  <1>3. /\ sealed \in RingFiles(size, S) /\ sealed.slots = file.slots
        /\ Written(sealed, size) /\ Readable(sealed) /\ NewestHeader(sealed) = next
    BY <1>1, <1>2, SealWritten
  <1>4. Mirrors(file.slots, next, longer, size)
    BY <1>1, <1>2, SealMirrors
  <1>5. next \in Headers(size)
    BY <1>1, NextIs
  <1> HIDE DEF sealed, next, longer
  <1>6. CurrentHeader(sealed) = next
    BY <1>3 DEF CurrentHeader
  <1>7. Holds(sealed, longer, size)
    BY <1>3, <1>4 DEF Holds, Written
  <1>8. QED
    BY <1>3, <1>5, <1>6, <1>7 DEF sealed, next, header, longer

\* That header torn.
LEMMA SpoilHolds ==
  ASSUME NEW size \in Nat \ {0}, NEW S, NEW file \in RingFiles(size, S),
         NEW kept, Holds(file, kept, size), Spoiled \notin Headers(size)
  PROVE  LET torn == WithCopy(file, CopyOf(NextHeader(CurrentHeader(file), size)), Spoiled) IN
         /\ torn \in RingFiles(size, S) /\ torn.slots = file.slots
         /\ Holds(torn, kept, size) /\ CurrentHeader(torn) = CurrentHeader(file)
         /\ (Readable(torn) <=> Readable(file))
  <1> DEFINE header == CurrentHeader(file)
             k == CopyOf(NextHeader(header, size))
             torn == WithCopy(file, k, Spoiled)
  <1>1. header \in Headers(size)
    BY HoldsReady
  <1>2. k \in 1 .. 2
    <2> HIDE DEF header
    <2>1. NextHeader(header, size) \in Headers(size)
      BY <1>1, NextIs
    <2>2. QED
      BY <2>1, CopyIs
  <1>3. CASE Readable(file)
    <2>1. header = NewestHeader(file) /\ Written(file, size)
      BY <1>3 DEF CurrentHeader, Holds
    <2>2. /\ torn \in RingFiles(size, S) /\ torn.slots = file.slots
          /\ Written(torn, size) /\ Readable(torn) /\ NewestHeader(torn) = header
      BY <2>1, SpoilWritten
    <2> HIDE DEF torn
    <2>3. QED
      BY <1>3, <2>1, <2>2 DEF Holds, CurrentHeader, torn
  <1>4. CASE ~ Readable(file)
    <2> HIDE DEF k
    <2>1. /\ torn \in RingFiles(size, S) /\ torn.slots = file.slots
          /\ torn.copies[k] = Spoiled /\ torn.copies[3 - k] = file.copies[3 - k]
      BY <1>2, CopyPut
    <2>2. file.copies[1] = Spoiled /\ file.copies[2] = Spoiled
      BY <1>4 DEF Readable
    <2> HIDE DEF torn
    <2>3. torn.copies[1] = Spoiled /\ torn.copies[2] = Spoiled
      BY <1>2, <2>1, <2>2
    <2>4. ~ Readable(torn)
      BY <2>3 DEF Readable
    <2>5. Holds(torn, kept, size) /\ CurrentHeader(torn) = CurrentHeader(file)
      BY <1>4, <2>1, <2>4 DEF Holds, CurrentHeader
    <2>6. QED
      BY <1>4, <2>1, <2>4, <2>5 DEF torn, k
  <1>5. QED
    BY <1>3, <1>4

\* What a reader finds in a file.
Reads(file, recs, kept, size) ==
  \A i \in 1 .. Len(recs) : /\ (i = 1 /\ Len(recs) = size) \/ recs[i] = kept[i]
                            /\ \E j \in DOMAIN file.slots : recs[i] = file.slots[j]

LEMMA ReadIs ==
  ASSUME NEW size \in Nat \ {0}, NEW S, NEW file \in RingFiles(size, S),
         NEW kept, Holds(file, kept, size), Spoiled \notin Headers(size)
  PROVE  LET header == CurrentHeader(file)
             recs == InOrder(file.slots, header, size) IN
         /\ recs \in Seq(S \union {Spoiled}) /\ Len(recs) = header.count
         /\ Len(recs) \in 0 .. size /\ Len(kept) = Len(recs)
         /\ Reads(file, recs, kept, size)
  <1> DEFINE header == CurrentHeader(file)
             recs == InOrder(file.slots, header, size)
  <1>1. /\ Ready(file, header, size) /\ Mirrors(file.slots, header, kept, size)
        /\ header \in Headers(size) /\ Plain(header, size)
    BY HoldsReady
  <1> HIDE DEF header
  <1>2. header.count \in 0 .. size /\ header.count <= Len(file.slots) /\ Len(file.slots) \in Nat
    BY <1>1 DEF Headers, Ready, RingFiles
  <1>3. ASSUME NEW i \in 1 .. header.count
        PROVE  /\ recs[i] = file.slots[SlotOf(header, size, i)]
               /\ SlotOf(header, size, i) \in 1 .. Len(file.slots)
               /\ file.slots[SlotOf(header, size, i)] \in S \union {Spoiled}
    <2>1. recs[i] = file.slots[SlotOf(header, size, i)] /\ SlotOf(header, size, i) \in 1 .. header.count
      BY <1>1, SlotIs
    <2>2. SlotOf(header, size, i) \in 1 .. Len(file.slots)
      BY <1>2, <2>1
    <2>3. QED
      BY <2>1, <2>2 DEF RingFiles
  <1>4. recs = [i \in 1 .. header.count |-> file.slots[SlotOf(header, size, i)]]
    BY DEF InOrder, SlotOf
  <1>5. recs \in Seq(S \union {Spoiled}) /\ Len(recs) = header.count
    <2> HIDE DEF recs
    <2>1. recs \in [1 .. header.count -> S \union {Spoiled}] /\ header.count \in Nat
      BY <1>2, <1>3, <1>4
    <2>2. QED
      BY <2>1
  <1>6. DOMAIN file.slots = 1 .. Len(file.slots)
    BY DEF RingFiles
  <1>7. QED
    <2> HIDE DEF recs
    <2>1. Reads(file, recs, kept, size)
      BY <1>1, <1>3, <1>5, <1>6 DEF Mirrors, Reads
    <2>2. Len(kept) = header.count
      BY <1>1 DEF Mirrors
    <2>3. QED
      BY <1>2, <1>5, <2>1, <2>2 DEF recs, header
-----------------------------------------------------------------------------
(***************************************************************************)
(* The event log.  Between any two steps its file holds the events whose   *)
(* write was completed, and nothing that was cleared; the header in RAM is *)
(* the one of the file while the log is persistent.                        *)
(***************************************************************************)
Known(e, cleared, count) == e \in cleared + 1 .. count

EventKeeps(file, stored, cleared, count) ==
  file # NoFile =>
    /\ file \in RingFiles(EventSize, 1 .. EventLimit)
    /\ Holds(file, stored, EventSize)
    /\ \A j \in DOMAIN file.slots : file.slots[j] = Spoiled \/ Known(file.slots[j], cleared, count)

EventFileOK == EventKeeps(eventFile, eventStored, eventCleared, eventCount)

EventHeadOK ==
  eventOn /\ eventFile # NoFile /\ eventPc \in {"ready", "seal", "switch"} =>
    eventHead = CurrentHeader(eventFile)

\* The record of the last event is in its slot, and its header comes next.
EventSealOK ==
  eventPc = "seal" =>
    /\ eventOn /\ eventFile # NoFile /\ eventCount \in 1 .. EventLimit
    /\ eventHead.write + 1 <= Len(eventFile.slots)
    /\ eventFile.slots[eventHead.write + 1] = eventCount
    /\ \A i \in DOMAIN eventStored : eventStored[i] < eventCount

Rising(stored, count) ==
  /\ stored \in Seq(1 .. EventLimit)
  /\ \A i \in DOMAIN stored : stored[i] <= count
  /\ \A i, j \in DOMAIN stored : i < j => stored[i] < stored[j]

EventStoredOK == Rising(eventStored, eventCount)

EventRamOK ==
  /\ eventCleared \in 0 .. eventCount
  /\ \A i \in DOMAIN eventRam : Known(eventRam[i], eventCleared, eventCount)

EventInv ==
  /\ EventTypeOK /\ EventFileOK /\ EventHeadOK /\ EventSealOK /\ EventStoredOK /\ EventRamOK

LEMMA EventConstants ==
  /\ EventSize \in Nat \ {0} /\ EventLimit \in Nat /\ EventFaultLimit \in Nat
  /\ Spoiled \notin 1 .. EventLimit /\ Spoiled \notin Headers(EventSize)
  /\ EmptyHeader \in Headers(EventSize)
  /\ NoFile # EmptyRing /\ NoFile # TornRing
  <1>1. EmptyRing \in RingFiles(EventSize, 1 .. EventLimit)
        /\ TornRing \in RingFiles(EventSize, 1 .. EventLimit)
        /\ EmptyHeader \in Headers(EventSize)
    BY EventAssumption, EmptyRingIs
  <1>2. QED
    BY <1>1, EventAssumption

LEMMA FreshKeeps ==
  ASSUME NEW cleared, NEW count, NEW stored
  PROVE  /\ EventKeeps(EmptyRing, <<>>, cleared, count)
         /\ EventKeeps(TornRing, <<>>, cleared, count)
         /\ EventKeeps(NoFile, stored, cleared, count)
         /\ CurrentHeader(EmptyRing) = EmptyHeader /\ CurrentHeader(TornRing) = EmptyHeader
         /\ Rising(<<>>, count)
  <1>1. /\ EmptyRing \in RingFiles(EventSize, 1 .. EventLimit) /\ Holds(EmptyRing, <<>>, EventSize)
        /\ TornRing \in RingFiles(EventSize, 1 .. EventLimit) /\ Holds(TornRing, <<>>, EventSize)
        /\ CurrentHeader(EmptyRing) = EmptyHeader /\ CurrentHeader(TornRing) = EmptyHeader
        /\ DOMAIN EmptyRing.slots = {} /\ DOMAIN TornRing.slots = {}
    BY EventConstants, FreshHolds
  <1>2. Rising(<<>>, count)
    BY DEF Rising
  <1>3. QED
    BY <1>1, <1>2 DEF EventKeeps

\* More events may have happened, and fewer may have been cleared.
LEMMA KeepsMore ==
  ASSUME NEW file, NEW stored, NEW cleared \in Nat, NEW count \in Nat,
         EventKeeps(file, stored, cleared, count), Rising(stored, count)
  PROVE  EventKeeps(file, stored, cleared, count + 1) /\ Rising(stored, count + 1)
  <1>1. \A e : Known(e, cleared, count) => Known(e, cleared, count + 1)
    BY DEF Known
  <1>2. EventKeeps(file, stored, cleared, count + 1)
    BY <1>1 DEF EventKeeps
  <1>3. Rising(stored, count + 1)
    <2>1. \A i \in DOMAIN stored : stored[i] \in Int
      BY EventConstants DEF Rising
    <2>2. QED
      BY <2>1 DEF Rising
  <1>4. QED
    BY <1>2, <1>3

\* What is shown after a start was in the file.
LEMMA StoredIs ==
  ASSUME NEW file, NEW stored, NEW cleared, NEW count, EventKeeps(file, stored, cleared, count),
         Loads(file)
  PROVE  LET recs == InOrder(file.slots, NewestHeader(file), EventSize) IN
         /\ recs \in Seq((1 .. EventLimit) \union {Spoiled})
         /\ Len(recs) \in 0 .. EventSize /\ Len(stored) = Len(recs)
         /\ \A i \in 1 .. Len(recs) : (i = 1 /\ Len(recs) = EventSize) \/ recs[i] = stored[i]
         /\ Stored(file) \in Seq(1 .. EventLimit) /\ Len(Stored(file)) <= EventSize
         /\ \E p : Picks(recs, Len(recs), Stored(file), p)
         /\ \A i \in DOMAIN Stored(file) : Known(Stored(file)[i], cleared, count)
  <1> DEFINE header == NewestHeader(file)
             recs == InOrder(file.slots, header, EventSize)
             shown == Stored(file)
  <1>1. /\ file \in RingFiles(EventSize, 1 .. EventLimit) /\ Holds(file, stored, EventSize)
        /\ \A j \in DOMAIN file.slots : file.slots[j] = Spoiled \/ Known(file.slots[j], cleared, count)
        /\ header = CurrentHeader(file)
    BY DEF EventKeeps, Loads, CurrentHeader
  <1> HIDE DEF header
  <1>2. /\ recs \in Seq((1 .. EventLimit) \union {Spoiled})
        /\ Len(recs) \in 0 .. EventSize /\ Len(stored) = Len(recs)
        /\ Reads(file, recs, stored, EventSize)
    BY <1>1, EventConstants, ReadIs
  <1>3. shown = Sound(recs)
    BY DEF Stored, header
  <1> HIDE DEF recs
  <1>4. /\ Sound(recs) \in Seq(1 .. EventLimit) /\ Len(Sound(recs)) <= Len(recs)
        /\ \E p : Picks(recs, Len(recs), Sound(recs), p)
    BY <1>2, SoundIs
  <1> HIDE DEF shown
  <1>5. PICK p : Picks(recs, Len(recs), shown, p)
    BY <1>3, <1>4
  <1>6. ASSUME NEW i \in 1 .. Len(shown) PROVE Known(shown[i], cleared, count)
    <2>1. p[i] \in 1 .. Len(recs) /\ shown[i] = recs[p[i]] /\ recs[p[i]] # Spoiled
      BY <1>2, <1>5 DEF Picks
    <2>2. QED
      BY <1>1, <1>2, <2>1 DEF Reads
  <1>7. shown \in Seq(1 .. EventLimit) /\ Len(shown) <= EventSize /\ DOMAIN shown = 1 .. Len(shown)
    BY <1>2, <1>3, <1>4, EventConstants
  <1>8. Len(recs) \in 0 .. EventSize /\ Len(stored) = Len(recs)
        /\ \A i \in 1 .. Len(recs) : (i = 1 /\ Len(recs) = EventSize) \/ recs[i] = stored[i]
    BY <1>2 DEF Reads
  <1>9. QED
    BY <1>2, <1>5, <1>6, <1>7, <1>8 DEF shown, recs, header
LEMMA EventStart ==
  ASSUME EventInit PROVE EventInv
  <1>1. EventTypeOK
    <2>1. <<>> \in Seq(1 .. EventLimit) /\ Len(<<>>) = 0
      OBVIOUS
    <2>2. eventRam \in Seq(1 .. EventLimit) /\ Len(eventRam) <= EventSize
      BY <2>1, EventConstants DEF EventInit
    <2>3. eventHead \in Headers(EventSize) /\ eventFile = NoFile
      BY EventConstants DEF EventInit
    <2>4. /\ eventSetting \in BOOLEAN /\ eventOn \in BOOLEAN /\ eventPc = "off"
          /\ eventCount = 0 /\ eventFaults = 0
      BY Zenon DEF EventInit
    <2>5. QED
      BY <2>2, <2>3, <2>4, EventConstants DEF EventTypeOK
  <1>2. EventFileOK /\ EventStoredOK
    BY FreshKeeps DEF EventInit, EventFileOK, EventStoredOK
  <1>3. EventHeadOK /\ EventSealOK
    BY DEF EventInit, EventHeadOK, EventSealOK
  <1>4. EventRamOK
    BY DEF EventInit, EventRamOK
  <1>5. QED
    BY <1>1, <1>2, <1>3, <1>4 DEF EventInv

LEMMA EventFaultOK ==
  ASSUME EventTypeOK, EventFault \/ UNCHANGED eventFaults
  PROVE  eventFaults' \in 0 .. EventFaultLimit
  BY EventConstants DEF EventTypeOK, EventFault

\* A file that is made, or whose creation fails.
LEMMA MakeFile ==
  ASSUME EventInv, FreshFile \/ NoFreshFile, NEW cleared, NEW count
  PROVE  /\ EventKeeps(eventFile', eventStored', cleared, count) /\ Rising(eventStored', count)
         /\ eventFile' # NoFile => eventHead' = CurrentHeader(eventFile')
         /\ eventFile' \in RingFiles(EventSize, 1 .. EventLimit) \union {NoFile}
         /\ eventFile' # NoFile => Len(eventFile'.slots) <= EventSize
         /\ eventHead' \in Headers(EventSize) /\ eventStored' = <<>>
         /\ eventFaults' \in 0 .. EventFaultLimit
  <1>1. eventFile' \in {EmptyRing, TornRing, NoFile} /\ eventHead' = EmptyHeader /\ eventStored' = <<>>
    BY DEF FreshFile, NoFreshFile
  <1>2. /\ EventKeeps(eventFile', eventStored', cleared, count) /\ Rising(eventStored', count)
        /\ eventFile' # NoFile => eventHead' = CurrentHeader(eventFile')
    BY <1>1, FreshKeeps
  <1>3. eventFaults' \in 0 .. EventFaultLimit
    BY EventFaultOK DEF FreshFile, NoFreshFile, EventInv
  <1>4. /\ eventFile' # NoFile => eventFile' \in RingFiles(EventSize, 1 .. EventLimit)
        /\ eventFile' # NoFile => Len(eventFile'.slots) <= EventSize
    BY <1>2 DEF EventKeeps, Holds
  <1>5. QED
    BY <1>1, <1>2, <1>3, <1>4, EventConstants

LEMMA BeginLogOK ==
  ASSUME EventInv, BeginLog PROVE EventInv'
  <1>1. /\ EventTypeOK /\ EventFileOK /\ EventStoredOK /\ EventRamOK
        /\ eventCount' = eventCount /\ eventCleared' = eventCleared /\ eventSetting' = eventSetting
        /\ eventOn' = eventSetting
    BY DEF EventInv, BeginLog
  <1>2. CASE ~ eventSetting
    <2>1. /\ eventFile' \in {eventFile, NoFile} /\ eventHead' = eventHead /\ eventStored' = eventStored
          /\ eventRam' = <<>> /\ eventPc' = "ready" /\ (EventFault \/ UNCHANGED eventFaults)
      BY <1>2 DEF BeginLog
    <2>2. eventFaults' \in 0 .. EventFaultLimit
      BY <1>1, <2>1, EventFaultOK
    <2>3. EventTypeOK'
      BY <1>1, <2>1, <2>2, EventConstants DEF EventTypeOK
    <2>4. EventFileOK'
      BY <1>1, <2>1, FreshKeeps DEF EventFileOK
    <2>5. EventHeadOK' /\ EventSealOK' /\ EventStoredOK' /\ EventRamOK'
      BY <1>1, <1>2, <2>1 DEF EventHeadOK, EventSealOK, EventStoredOK, EventRamOK
    <2>6. QED
      BY <2>3, <2>4, <2>5 DEF EventInv
  <1>3. CASE eventSetting /\ Loads(eventFile)
    <2>1. /\ eventHead' = NewestHeader(eventFile) /\ eventRam' = Stored(eventFile)
          /\ eventPc' = "ready" /\ eventFile' = eventFile /\ eventStored' = eventStored
          /\ eventFaults' = eventFaults
      BY <1>3 DEF BeginLog
    <2>2. /\ Stored(eventFile) \in Seq(1 .. EventLimit) /\ Len(Stored(eventFile)) <= EventSize
          /\ \A i \in DOMAIN Stored(eventFile) : Known(Stored(eventFile)[i], eventCleared, eventCount)
      BY <1>1, <1>3, StoredIs DEF EventFileOK
    <2>3. eventHead' = CurrentHeader(eventFile)
      BY <1>3, <2>1 DEF Loads, CurrentHeader
    <2>4. eventHead' \in Headers(EventSize)
      <3>1. eventFile \in RingFiles(EventSize, 1 .. EventLimit) /\ Holds(eventFile, eventStored, EventSize)
        BY <1>1, <1>3 DEF EventFileOK, EventKeeps, Loads
      <3>2. QED
        BY <2>3, <3>1, EventConstants, HoldsReady
    <2>5. EventTypeOK'
      BY <1>1, <2>1, <2>2, <2>4 DEF EventTypeOK
    <2>6. EventFileOK' /\ EventStoredOK'
      BY <1>1, <2>1 DEF EventFileOK, EventStoredOK
    <2>7. EventHeadOK' /\ EventSealOK'
      BY <2>1, <2>3 DEF EventHeadOK, EventSealOK
    <2>8. EventRamOK'
      BY <1>1, <2>1, <2>2 DEF EventRamOK
    <2>9. QED
      BY <2>5, <2>6, <2>7, <2>8 DEF EventInv
  <1>4. CASE eventSetting /\ ~ Loads(eventFile)
    <2>1. /\ eventRam' = <<>> /\ eventPc' \in {"ready", "dead"} /\ (FreshFile \/ NoFreshFile)
      BY <1>4 DEF BeginLog
    <2>2. /\ EventKeeps(eventFile', eventStored', eventCleared, eventCount) /\ Rising(eventStored', eventCount)
          /\ eventFile' # NoFile => eventHead' = CurrentHeader(eventFile')
          /\ eventFile' \in RingFiles(EventSize, 1 .. EventLimit) \union {NoFile}
          /\ eventFile' # NoFile => Len(eventFile'.slots) <= EventSize
          /\ eventHead' \in Headers(EventSize)
          /\ eventFaults' \in 0 .. EventFaultLimit
      BY <2>1, MakeFile
    <2>3. EventTypeOK'
      BY <1>1, <2>1, <2>2, EventConstants DEF EventTypeOK
    <2>4. EventFileOK' /\ EventStoredOK'
      BY <1>1, <2>2 DEF EventFileOK, EventStoredOK
    <2>5. EventHeadOK' /\ EventSealOK' /\ EventRamOK'
      BY <1>1, <2>1, <2>2 DEF EventHeadOK, EventSealOK, EventRamOK
    <2>6. QED
      BY <2>3, <2>4, <2>5 DEF EventInv
  <1>5. QED
    BY <1>2, <1>3, <1>4

LEMMA AddEventOK ==
  ASSUME EventInv, AddEvent PROVE EventInv'
  <1>1. /\ EventTypeOK /\ EventFileOK /\ EventStoredOK /\ EventRamOK /\ EventHeadOK
        /\ eventPc = "ready" /\ eventCount' = eventCount + 1 /\ eventCount < EventLimit
        /\ eventRam' = Newest(Append(eventRam, eventCount'), EventSize)
        /\ UNCHANGED <<eventSetting, eventHead, eventOn, eventStored, eventCleared>>
    BY DEF EventInv, AddEvent
  <1>2. eventCount \in Nat /\ eventCleared \in Nat /\ eventCleared \in 0 .. eventCount
        /\ eventCount' \in 1 .. EventLimit
    BY <1>1, EventConstants DEF EventTypeOK, EventRamOK
  <1>3. /\ eventRam' \in Seq(1 .. EventLimit) /\ Len(eventRam') <= EventSize
        /\ \A i \in DOMAIN eventRam' : Known(eventRam'[i], eventCleared, eventCount')
    <2>1. eventRam \in Seq(1 .. EventLimit) /\ EventSize \in Nat
      BY <1>1, EventConstants DEF EventTypeOK
    <2>2. /\ eventRam' \in Seq(1 .. EventLimit) /\ Len(eventRam') <= EventSize
          /\ Adds(eventRam', eventRam, eventCount')
      BY <1>1, <1>2, <2>1, NewestAdd
    <2>3. ASSUME NEW i \in DOMAIN eventRam' PROVE Known(eventRam'[i], eventCleared, eventCount')
      <3>1. CASE eventRam'[i] = eventCount'
        BY <1>1, <1>2, <3>1 DEF Known
      <3>2. ASSUME NEW j \in DOMAIN eventRam, eventRam'[i] = eventRam[j]
            PROVE  Known(eventRam'[i], eventCleared, eventCount')
        <4>1. Known(eventRam[j], eventCleared, eventCount)
          BY <1>1 DEF EventRamOK
        <4>2. QED
          BY <1>1, <1>2, <3>2, <4>1 DEF Known
      <3>3. QED
        BY <2>2, <3>1, <3>2 DEF Adds
    <2>4. QED
      BY <2>2, <2>3
  <1>4. eventStored' = eventStored /\ EventKeeps(eventFile, eventStored, eventCleared, eventCount')
        /\ Rising(eventStored, eventCount')
    BY <1>1, <1>2, KeepsMore DEF EventFileOK, EventStoredOK
  <1>5. EventStoredOK' /\ EventRamOK'
    BY <1>1, <1>2, <1>3, <1>4 DEF EventStoredOK, EventRamOK
  <1>6. CASE eventOn /\ eventFile # NoFile
    <2> DEFINE Outcome(rec) == eventFile' = PutEvent(rec)
    <2>1. eventHead = CurrentHeader(eventFile)
      BY <1>1, <1>6 DEF EventHeadOK
    <2>2. ASSUME NEW rec \in (1 .. EventLimit) \union {Spoiled}, eventFile' = PutEvent(rec),
                 rec = Spoiled \/ rec = eventCount'
          PROVE  /\ EventFileOK' /\ eventFile' # NoFile /\ CurrentHeader(eventFile') = eventHead
                 /\ eventHead.write + 1 <= Len(eventFile'.slots)
                 /\ eventFile'.slots[eventHead.write + 1] = rec
      <3>1. /\ eventFile \in RingFiles(EventSize, 1 .. EventLimit) /\ Holds(eventFile, eventStored, EventSize)
        BY <1>4, <1>6 DEF EventKeeps
      <3>2. eventFile' = WithSlot(eventFile, CurrentHeader(eventFile).write, rec)
        BY <2>1, <2>2 DEF PutEvent, EventSlot, WithSlot
      <3>3. /\ eventFile' \in RingFiles(EventSize, 1 .. EventLimit) /\ Holds(eventFile', eventStored, EventSize)
            /\ CurrentHeader(eventFile') = eventHead
            /\ eventHead.write + 1 <= Len(eventFile'.slots)
            /\ eventFile'.slots[eventHead.write + 1] = rec
            /\ Adds(eventFile'.slots, eventFile.slots, rec)
        BY <2>1, <3>1, <3>2, EventConstants, PutHolds
      <3>4. rec = Spoiled \/ Known(rec, eventCleared, eventCount')
        BY <1>1, <1>2, <2>2 DEF Known
      <3>5. \A j \in DOMAIN eventFile'.slots :
              eventFile'.slots[j] = Spoiled \/ Known(eventFile'.slots[j], eventCleared, eventCount')
        BY <1>4, <1>6, <3>3, <3>4 DEF EventKeeps, Adds
      <3>6. EventFileOK'
        BY <1>1, <3>3, <3>5 DEF EventFileOK, EventKeeps
      <3>7. eventFile' # NoFile
        BY <3>3, EventAssumption
      <3>8. QED
        BY <3>3, <3>6, <3>7
    <2>3. CASE eventFile' = PutEvent(eventCount') /\ eventPc' = "seal" /\ UNCHANGED eventFaults
      <3>1. /\ EventFileOK' /\ eventFile' # NoFile /\ CurrentHeader(eventFile') = eventHead
            /\ eventHead.write + 1 <= Len(eventFile'.slots)
            /\ eventFile'.slots[eventHead.write + 1] = eventCount'
        BY <1>2, <2>2, <2>3
      <3>2. EventSealOK'
        <4>1. \A i \in DOMAIN eventStored : eventStored[i] \in Int /\ eventStored[i] <= eventCount
          BY <1>1, EventConstants DEF EventStoredOK, Rising
        <4>2. \A i \in DOMAIN eventStored : eventStored[i] < eventCount'
          BY <1>1, <1>2, <4>1
        <4>3. QED
          BY <1>1, <1>2, <1>6, <3>1, <4>2 DEF EventSealOK
      <3>3. EventHeadOK'
        BY <1>1, <3>1 DEF EventHeadOK
      <3>4. EventTypeOK'
        <4>1. eventFile' \in RingFiles(EventSize, 1 .. EventLimit) /\ Len(eventFile'.slots) <= EventSize
          BY <3>1 DEF EventFileOK, EventKeeps, Holds
        <4>2. QED
          BY <1>1, <1>2, <1>3, <2>3, <4>1 DEF EventTypeOK
      <3>5. QED
        BY <1>5, <3>1, <3>2, <3>3, <3>4 DEF EventInv
    <2>4. CASE EventFault /\ UNCHANGED eventPc /\ eventFile' \in {eventFile, PutEvent(Spoiled)}
      <3>1. EventFileOK' /\ eventFile' # NoFile /\ CurrentHeader(eventFile') = eventHead
        <4>1. CASE eventFile' = eventFile
          BY <1>1, <1>4, <1>6, <2>1, <4>1 DEF EventFileOK
        <4>2. CASE eventFile' = PutEvent(Spoiled)
          BY <2>2, <4>2
        <4>3. QED
          BY <2>4, <4>1, <4>2
      <3>2. EventSealOK' /\ EventHeadOK'
        BY <1>1, <2>4, <3>1 DEF EventSealOK, EventHeadOK
      <3>3. eventFaults' \in 0 .. EventFaultLimit
        BY <1>1, <2>4, EventFaultOK
      <3>4. EventTypeOK'
        <4>1. eventFile' \in RingFiles(EventSize, 1 .. EventLimit) /\ Len(eventFile'.slots) <= EventSize
          BY <3>1 DEF EventFileOK, EventKeeps, Holds
        <4>2. QED
          BY <1>1, <1>2, <1>3, <2>4, <3>3, <4>1 DEF EventTypeOK
      <3>5. QED
        BY <1>5, <3>1, <3>2, <3>4 DEF EventInv
    <2>5. QED
      BY <1>6, <2>3, <2>4 DEF AddEvent
  <1>7. CASE ~ (eventOn /\ eventFile # NoFile)
    <2>1. eventFile' = eventFile /\ eventPc' = eventPc /\ eventFaults' = eventFaults
      BY <1>7 DEF AddEvent
    <2>2. EventFileOK' /\ EventHeadOK' /\ EventSealOK'
      BY <1>1, <1>4, <1>7, <2>1 DEF EventFileOK, EventHeadOK, EventSealOK
    <2>3. EventTypeOK'
      BY <1>1, <1>2, <1>3, <2>1 DEF EventTypeOK
    <2>4. QED
      BY <1>5, <2>2, <2>3 DEF EventInv
  <1>8. QED
    BY <1>6, <1>7
LEMMA RisingAdd ==
  ASSUME NEW stored, NEW count \in 1 .. EventLimit, Rising(stored, count), NEW k \in Nat,
         \A i \in DOMAIN stored : stored[i] < count
  PROVE  Rising(Newest(Append(stored, count), k), count)
  <1> DEFINE now == Newest(Append(stored, count), k)
             T == 1 .. EventLimit
  <1>1. stored \in Seq(T) /\ count \in T
    BY DEF Rising
  <1>2. now \in Seq(T) /\ \E d \in Nat : Shifted(now, stored, count, d)
    <2> HIDE DEF T
    <2>1. QED
      BY <1>1, NewestAdd
  <1> HIDE DEF now
  <1>3. PICK d \in Nat : /\ \A i \in DOMAIN now : i + d \in 1 .. Len(stored) + 1
                         /\ \A i \in DOMAIN now : now[i] = IF i + d = Len(stored) + 1 THEN count ELSE stored[i + d]
    BY <1>2 DEF Shifted
  <1>4. Len(stored) \in Nat /\ DOMAIN stored = 1 .. Len(stored) /\ Len(now) \in Nat /\ DOMAIN now = 1 .. Len(now)
    BY <1>1, <1>2
  <1>5. \A i \in DOMAIN stored : stored[i] \in Int
    BY <1>1, EventConstants
  <1>6. ASSUME NEW i \in DOMAIN now PROVE now[i] <= count
    <2>1. i + d = Len(stored) + 1 \/ i + d \in DOMAIN stored
      BY <1>3, <1>4
    <2>2. QED
      BY <1>3, <1>5, <2>1
  <1>7. ASSUME NEW i \in DOMAIN now, NEW j \in DOMAIN now, i < j PROVE now[i] < now[j]
    <2>1. i + d \in DOMAIN stored /\ now[i] = stored[i + d] /\ i + d < j + d
      BY <1>3, <1>4, <1>7
    <2>2. CASE j + d = Len(stored) + 1
      BY <1>3, <2>1, <2>2
    <2>3. CASE j + d # Len(stored) + 1
      <3>1. j + d \in 1 .. Len(stored) + 1 /\ now[j] = stored[j + d]
        BY <1>3, <2>3
      <3>2. j + d \in DOMAIN stored
        BY <1>4, <2>3, <3>1
      <3>3. QED
        BY <2>1, <3>1, <3>2 DEF Rising
    <2>4. QED
      BY <2>2, <2>3
  <1>8. QED
    BY <1>2, <1>6, <1>7 DEF Rising, now

LEMMA SealEventOK ==
  ASSUME EventInv, SealEvent PROVE EventInv'
  <1> DEFINE header == NextHeader(eventHead, EventSize)
             T == 1 .. EventLimit
  <1>1. /\ EventTypeOK /\ EventFileOK /\ EventStoredOK /\ EventRamOK /\ EventHeadOK /\ EventSealOK
        /\ eventPc = "seal" /\ eventPc' = "ready"
        /\ UNCHANGED <<eventSetting, eventRam, eventOn, eventCount, eventCleared>>
    BY DEF EventInv, SealEvent
  <1>2. /\ eventOn /\ eventFile # NoFile /\ eventCount \in 1 .. EventLimit
        /\ eventHead.write + 1 <= Len(eventFile.slots)
        /\ eventFile.slots[eventHead.write + 1] = eventCount
        /\ \A i \in DOMAIN eventStored : eventStored[i] < eventCount
    BY <1>1 DEF EventSealOK
  <1>3. /\ eventFile \in RingFiles(EventSize, T) /\ Holds(eventFile, eventStored, EventSize)
        /\ eventHead = CurrentHeader(eventFile)
        /\ \A j \in DOMAIN eventFile.slots :
             eventFile.slots[j] = Spoiled \/ Known(eventFile.slots[j], eventCleared, eventCount)
    BY <1>1, <1>2 DEF EventFileOK, EventKeeps, EventHeadOK
  <1>4. EventRamOK' /\ EventSealOK'
    BY <1>1 DEF EventRamOK, EventSealOK
  <1>5. ASSUME NEW file \in RingFiles(EventSize, T), NEW stored, Holds(file, stored, EventSize),
               file.slots = eventFile.slots, eventFile' = file, eventStored' = stored,
               Rising(stored, eventCount), eventHead' = CurrentHeader(file), eventHead' \in Headers(EventSize),
               EventFault \/ UNCHANGED eventFaults
        PROVE  EventInv'
    <2>1. eventFaults' \in 0 .. EventFaultLimit
      BY <1>1, <1>5, EventFaultOK
    <2>2. Len(eventFile'.slots) <= EventSize
      BY <1>5 DEF Holds
    <2>3. EventTypeOK'
      BY <1>1, <1>5, <2>1, <2>2 DEF EventTypeOK
    <2>4. EventFileOK'
      BY <1>1, <1>3, <1>5 DEF EventFileOK, EventKeeps
    <2>5. EventStoredOK' /\ EventHeadOK'
      BY <1>1, <1>5 DEF EventStoredOK, EventHeadOK
    <2>6. QED
      BY <1>4, <2>3, <2>4, <2>5 DEF EventInv
  <1>6. CASE /\ eventFile' = [eventFile EXCEPT !.copies[CopyOf(header)] = header]
             /\ eventHead' = header
             /\ eventStored' = Newest(Append(eventStored, eventCount), EventSize)
             /\ UNCHANGED eventFaults
    <2> DEFINE sealed == WithCopy(eventFile, CopyOf(header), header)
               stored == Newest(Append(eventStored, eventCount), EventSize)
    <2>1. eventStored \in Seq(T) /\ eventCount \in T /\ EventSize \in Nat
      BY <1>1, <1>2, EventConstants DEF EventStoredOK, Rising
    <2>2. /\ sealed \in RingFiles(EventSize, T) /\ sealed.slots = eventFile.slots
          /\ Holds(sealed, stored, EventSize)
          /\ CurrentHeader(sealed) = header /\ header \in Headers(EventSize)
      <3> HIDE DEF T
      <3>1. QED
        BY <1>2, <1>3, <2>1, EventConstants, SealHolds
    <2>3. Rising(stored, eventCount)
      BY <1>1, <1>2, <2>1, RisingAdd DEF EventStoredOK
    <2>4. eventFile' = sealed
      BY <1>6 DEF WithCopy
    <2> HIDE DEF sealed, stored
    <2>5. eventStored' = stored
      BY <1>6 DEF stored
    <2>6. QED
      BY <1>5, <1>6, <2>2, <2>3, <2>4, <2>5
  <1>7. CASE /\ EventFault
             /\ eventFile' \in {eventFile, [eventFile EXCEPT !.copies[CopyOf(header)] = Spoiled]}
             /\ UNCHANGED <<eventHead, eventStored>>
    <2>1. eventHead \in Headers(EventSize) /\ Rising(eventStored, eventCount)
      BY <1>1 DEF EventTypeOK, EventStoredOK
    <2>2. CASE eventFile' = eventFile
      BY <1>3, <1>5, <1>7, <2>1, <2>2
    <2>3. CASE eventFile' = [eventFile EXCEPT !.copies[CopyOf(header)] = Spoiled]
      <3> DEFINE torn == WithCopy(eventFile, CopyOf(header), Spoiled)
      <3>1. /\ torn \in RingFiles(EventSize, T) /\ torn.slots = eventFile.slots
            /\ Holds(torn, eventStored, EventSize) /\ CurrentHeader(torn) = CurrentHeader(eventFile)
        <4> HIDE DEF T
        <4>1. QED
          BY <1>3, EventConstants, SpoilHolds
      <3>2. eventFile' = torn
        BY <2>3 DEF WithCopy
      <3> HIDE DEF torn
      <3>3. QED
        BY <1>3, <1>5, <1>7, <2>1, <3>1, <3>2
    <2>4. QED
      BY <1>7, <2>2, <2>3
  <1>8. QED
    BY <1>6, <1>7 DEF SealEvent

LEMMA ClearLogOK ==
  ASSUME EventInv, ClearLog PROVE EventInv'
  <1>1. /\ EventTypeOK /\ EventFileOK /\ EventStoredOK /\ EventRamOK /\ EventHeadOK
        /\ eventPc = "ready" /\ eventRam' = <<>>
        /\ UNCHANGED <<eventSetting, eventOn, eventPc, eventCount>>
    BY DEF EventInv, ClearLog
  <1>2. eventCleared' \in {eventCleared, eventCount}
    BY DEF ClearLog
  <1>3. EventRamOK' /\ EventSealOK'
    <2>1. eventCount \in Nat
      BY <1>1 DEF EventTypeOK
    <2>2. QED
      BY <1>1, <1>2, <2>1 DEF EventRamOK, EventSealOK
  <1>4. CASE FreshFile \/ NoFreshFile
    <2>1. /\ EventKeeps(eventFile', eventStored', eventCleared', eventCount) /\ Rising(eventStored', eventCount)
          /\ eventFile' # NoFile => eventHead' = CurrentHeader(eventFile')
          /\ eventFile' \in RingFiles(EventSize, 1 .. EventLimit) \union {NoFile}
          /\ eventFile' # NoFile => Len(eventFile'.slots) <= EventSize
          /\ eventHead' \in Headers(EventSize)
          /\ eventFaults' \in 0 .. EventFaultLimit
      BY <1>4, MakeFile
    <2>2. EventTypeOK'
      BY <1>1, <2>1, EventConstants DEF EventTypeOK
    <2>3. EventFileOK' /\ EventStoredOK' /\ EventHeadOK'
      BY <1>1, <2>1 DEF EventFileOK, EventStoredOK, EventHeadOK
    <2>4. QED
      BY <1>3, <2>2, <2>3 DEF EventInv
  <1>5. CASE ~ eventOn /\ eventFile' = NoFile /\ eventCleared' = eventCount
             /\ UNCHANGED <<eventHead, eventStored, eventFaults>>
    <2>1. EventTypeOK'
      BY <1>1, <1>5, EventConstants DEF EventTypeOK
    <2>2. EventFileOK' /\ EventStoredOK' /\ EventHeadOK'
      BY <1>1, <1>5, FreshKeeps DEF EventFileOK, EventStoredOK, EventHeadOK
    <2>3. QED
      BY <1>3, <2>1, <2>2 DEF EventInv
  <1>6. CASE EventFault /\ UNCHANGED <<eventFile, eventHead, eventStored, eventCleared>>
    <2>1. eventFaults' \in 0 .. EventFaultLimit
      BY <1>1, <1>6, EventFaultOK
    <2>2. EventTypeOK'
      BY <1>1, <1>6, <2>1, EventConstants DEF EventTypeOK
    <2>3. EventFileOK' /\ EventStoredOK' /\ EventHeadOK'
      BY <1>1, <1>6 DEF EventFileOK, EventStoredOK, EventHeadOK
    <2>4. QED
      BY <1>3, <2>2, <2>3 DEF EventInv
  <1>7. QED
    BY <1>4, <1>5, <1>6 DEF ClearLog

LEMMA SaveSettingOK ==
  ASSUME EventInv, SaveSetting PROVE EventInv'
  <1>1. /\ EventTypeOK /\ EventFileOK /\ EventStoredOK /\ EventRamOK /\ EventHeadOK
        /\ eventPc = "ready" /\ eventPc' = "switch" /\ eventSetting' = ~ eventOn
        /\ UNCHANGED <<eventFile, eventHead, eventRam, eventOn, eventCount, eventStored,
                       eventCleared, eventFaults>>
    BY DEF EventInv, SaveSetting
  <1>2. EventTypeOK'
    BY <1>1 DEF EventTypeOK
  <1>3. EventFileOK' /\ EventStoredOK' /\ EventRamOK'
    BY <1>1 DEF EventFileOK, EventStoredOK, EventRamOK
  <1>4. EventHeadOK' /\ EventSealOK'
    BY <1>1 DEF EventHeadOK, EventSealOK
  <1>5. QED
    BY <1>2, <1>3, <1>4 DEF EventInv

LEMMA SetPersistenceOK ==
  ASSUME EventInv, SetPersistence PROVE EventInv'
  <1>1. /\ EventTypeOK /\ EventFileOK /\ EventStoredOK /\ EventRamOK /\ EventHeadOK
        /\ eventPc = "switch" /\ eventPc' = "ready"
        /\ UNCHANGED <<eventRam, eventCount, eventCleared>>
        /\ eventSetting \in BOOLEAN /\ eventOn \in BOOLEAN
    BY DEF EventInv, SetPersistence, EventTypeOK
  <1>2. EventRamOK' /\ EventSealOK'
    BY <1>1 DEF EventRamOK, EventSealOK
  <1>3. CASE FreshFile \/ NoFreshFile
    <2>1. /\ EventKeeps(eventFile', eventStored', eventCleared, eventCount) /\ Rising(eventStored', eventCount)
          /\ eventFile' # NoFile => eventHead' = CurrentHeader(eventFile')
          /\ eventFile' \in RingFiles(EventSize, 1 .. EventLimit) \union {NoFile}
          /\ eventFile' # NoFile => Len(eventFile'.slots) <= EventSize
          /\ eventHead' \in Headers(EventSize)
          /\ eventFaults' \in 0 .. EventFaultLimit
      BY <1>3, MakeFile
    <2>2. eventOn' \in BOOLEAN /\ eventSetting' \in BOOLEAN
      BY <1>1 DEF SetPersistence
    <2>3. EventTypeOK'
      BY <1>1, <2>1, <2>2, EventConstants DEF EventTypeOK
    <2>4. EventFileOK' /\ EventStoredOK' /\ EventHeadOK'
      BY <1>1, <2>1 DEF EventFileOK, EventStoredOK, EventHeadOK
    <2>5. QED
      BY <1>2, <2>3, <2>4 DEF EventInv
  <1>4. CASE /\ eventOn' = FALSE /\ eventFile' \in {eventFile, NoFile} /\ eventSetting' \in BOOLEAN
             /\ UNCHANGED <<eventHead, eventStored>> /\ (EventFault \/ UNCHANGED eventFaults)
    <2>1. eventFaults' \in 0 .. EventFaultLimit
      BY <1>1, <1>4, EventFaultOK
    <2>2. EventTypeOK'
      BY <1>1, <1>4, <2>1, EventConstants DEF EventTypeOK
    <2>3. EventFileOK' /\ EventStoredOK' /\ EventHeadOK'
      BY <1>1, <1>4, FreshKeeps DEF EventFileOK, EventStoredOK, EventHeadOK
    <2>4. QED
      BY <1>2, <2>2, <2>3 DEF EventInv
  <1>5. QED
    BY <1>1, <1>3, <1>4 DEF SetPersistence

LEMMA CutLogOK ==
  ASSUME EventInv, CutLog PROVE EventInv'
  <1> DEFINE T == 1 .. EventLimit
             k == CopyOf(NextHeader(eventHead, EventSize))
  <1>1. /\ EventTypeOK /\ EventFileOK /\ EventStoredOK /\ EventRamOK /\ EventHeadOK /\ EventSealOK
        /\ eventPc' = "off" /\ eventRam' = <<>> /\ eventHead' = EmptyHeader /\ eventOn' = FALSE
        /\ UNCHANGED <<eventSetting, eventCount, eventStored, eventCleared>>
        /\ (EventFault \/ UNCHANGED eventFaults)
    BY DEF EventInv, CutLog
  <1>2. eventFaults' \in 0 .. EventFaultLimit
    BY <1>1, EventFaultOK
  <1>3. EventHeadOK' /\ EventSealOK' /\ EventRamOK' /\ EventStoredOK'
    BY <1>1 DEF EventHeadOK, EventSealOK, EventRamOK, EventStoredOK
  <1>4. EventFileOK'
    <2>1. CASE eventFile' = eventFile
      BY <1>1, <2>1 DEF EventFileOK
    <2>2. CASE eventPc = "seal" /\ eventFile' = [eventFile EXCEPT !.copies[k] = Spoiled]
      <3>1. /\ eventFile \in RingFiles(EventSize, T) /\ Holds(eventFile, eventStored, EventSize)
            /\ eventHead = CurrentHeader(eventFile)
        BY <1>1, <2>2 DEF EventFileOK, EventKeeps, EventHeadOK, EventSealOK
      <3>2. eventFile' = WithCopy(eventFile, k, Spoiled)
        BY <2>2 DEF WithCopy
      <3>3. /\ eventFile' \in RingFiles(EventSize, T) /\ eventFile'.slots = eventFile.slots
            /\ Holds(eventFile', eventStored, EventSize)
        <4> HIDE DEF T
        <4>1. QED
          BY <3>1, <3>2, EventConstants, SpoilHolds
      <3>4. eventFile # NoFile
        BY <1>1, <2>2 DEF EventSealOK
      <3>5. QED
        BY <1>1, <3>3, <3>4 DEF EventFileOK, EventKeeps
    <2>3. QED
      BY <2>1, <2>2 DEF CutLog
  <1>5. EventTypeOK'
    <2>1. eventFile' # NoFile => eventFile' \in RingFiles(EventSize, T) /\ Len(eventFile'.slots) <= EventSize
      BY <1>4 DEF EventFileOK, EventKeeps, Holds
    <2>2. <<>> \in Seq(1 .. EventLimit) /\ Len(<<>>) = 0 /\ EventSize \in Nat
      BY EventConstants
    <2>3. eventFile' \in RingFiles(EventSize, T) \union {NoFile}
      BY <2>1
    <2>4. eventSetting' \in BOOLEAN /\ eventOn' \in BOOLEAN
      BY <1>1, Zenon DEF EventTypeOK
    <2>5. eventCount' \in 0 .. EventLimit /\ eventHead' \in Headers(EventSize)
      BY <1>1, EventConstants, Zenon DEF EventTypeOK
    <2>6. eventRam' \in Seq(1 .. EventLimit) /\ Len(eventRam') <= EventSize
      BY <1>1, <2>2
    <2>7. QED
      BY <1>1, <1>2, <2>1, <2>3, <2>4, <2>5, <2>6 DEF EventTypeOK
  <1>6. QED
    BY <1>3, <1>4, <1>5 DEF EventInv
LEMMA EventStep ==
  ASSUME EventInv, [EventNext]_eventVars PROVE EventInv'
  <1>1. CASE UNCHANGED eventVars
    BY <1>1 DEF eventVars, EventInv, EventTypeOK, EventFileOK, EventHeadOK, EventSealOK,
                EventStoredOK, EventRamOK
  <1>2. CASE EventNext
    BY <1>2, BeginLogOK, AddEventOK, SealEventOK, ClearLogOK, SaveSettingOK, SetPersistenceOK,
       CutLogOK, Zenon DEF EventNext
  <1>3. QED
    BY <1>1, <1>2

LEMMA EventAlways == EventSpec => []EventInv
  <1>1. EventInit => EventInv
    BY EventStart
  <1>2. EventInv /\ [EventNext]_eventVars => EventInv'
    BY EventStep
  <1>3. QED
    BY <1>1, <1>2, PTL DEF EventSpec

\* The types of the event log: the rings stay within their capacity.
THEOREM EventTypes == EventSpec => []EventTypeOK
  <1>1. EventInv => EventTypeOK
    BY DEF EventInv
  <1>2. QED
    BY <1>1, EventAlways, PTL

\* Events that were cleared, with success reported, are never shown again:
\* neither the log in RAM nor any record of the file is as old as they are.
THEOREM ClearedStays == EventSpec => []ClearedStaysCleared
  <1>1. ASSUME EventInv PROVE ClearedStaysCleared
    <2>1. /\ eventCleared \in 0 .. eventCount /\ eventCount \in Nat /\ DOMAIN eventRam = 1 .. Len(eventRam)
          /\ \A i \in DOMAIN eventRam : Known(eventRam[i], eventCleared, eventCount)
      BY <1>1 DEF EventInv, EventRamOK, EventTypeOK
    <2>2. \A i \in DOMAIN eventRam : eventRam[i] > eventCleared
      BY <2>1 DEF Known
    <2>3. QED
      BY <2>2 DEF ClearedStaysCleared
  <1>2. QED
    BY <1>1, EventAlways, PTL

\* Whenever the power fails, the next start finds every event whose write was
\* completed, but for the oldest of a full log, and all of them in order from
\* the second on.
THEOREM EventsAreKept == EventSpec => []EventsSurvive
  <1>1. ASSUME EventInv PROVE EventsSurvive
    <2> DEFINE shown == Stored(eventFile)
               recs == InOrder(eventFile.slots, NewestHeader(eventFile), EventSize)
               k == IF Len(eventStored) < EventSize THEN EventSize ELSE EventSize - 1
               owed == Newest(eventStored, k)
    <2>1. SUFFICES ASSUME Loads(eventFile)
                   PROVE  /\ \A i \in DOMAIN owed : \E j \in DOMAIN shown : shown[j] = owed[i]
                          /\ \A i, j \in 2 .. Len(shown) : i < j => shown[i] < shown[j]
      BY DEF EventsSurvive
    <2>2. Rising(eventStored, eventCount) /\ eventStored \in Seq(1 .. EventLimit)
      BY <1>1 DEF EventInv, EventStoredOK, Rising
    <2>3. /\ recs \in Seq((1 .. EventLimit) \union {Spoiled})
          /\ Len(recs) \in 0 .. EventSize /\ Len(eventStored) = Len(recs)
          /\ shown \in Seq(1 .. EventLimit)
          /\ \E p : Picks(recs, Len(recs), shown, p)
      BY <1>1, <2>1, StoredIs DEF EventInv, EventFileOK
    <2>4. \A i \in 1 .. Len(recs) : (i = 1 /\ Len(recs) = EventSize) \/ recs[i] = eventStored[i]
      BY <1>1, <2>1, StoredIs DEF EventInv, EventFileOK
    <2>5. PICK p : Picks(recs, Len(recs), shown, p)
      BY <2>3
    <2>6. owed \in Seq(1 .. EventLimit)
          /\ Suffix(owed, eventStored, IF Len(eventStored) <= k THEN 0 ELSE Len(eventStored) - k)
      <3> DEFINE T == 1 .. EventLimit
      <3>1. k \in Nat /\ eventStored \in Seq(T)
        BY <2>2, EventConstants
      <3> HIDE DEF T, k
      <3>2. owed \in Seq(T)
            /\ Suffix(owed, eventStored, IF Len(eventStored) <= k THEN 0 ELSE Len(eventStored) - k)
        BY <3>1, NewestElements
      <3>3. QED
        BY <3>2, Zenon DEF T, k
    <2> HIDE DEF shown, recs, owed
    <2>7. ASSUME NEW i \in DOMAIN owed PROVE \E j \in DOMAIN shown : shown[j] = owed[i]
      <3> DEFINE d == IF Len(eventStored) <= k THEN 0 ELSE Len(eventStored) - k
      <3>1. Suffix(owed, eventStored, d) /\ DOMAIN owed = 1 .. Len(owed) /\ Len(owed) \in Nat
            /\ Len(recs) \in Nat /\ d \in Nat /\ EventSize \in Nat \ {0}
        BY <2>3, <2>6, EventConstants
      <3>2. (d = 0 /\ Len(recs) < EventSize) \/ (d = 1 /\ Len(recs) = EventSize)
        <4>1. CASE Len(eventStored) < EventSize
          <5>1. k = EventSize
            BY <4>1
          <5>2. d = 0
            BY <2>3, <3>1, <4>1, <5>1
          <5> HIDE DEF d
          <5>3. QED
            BY <2>3, <4>1, <5>2
        <4>2. CASE Len(eventStored) = EventSize
          <5>1. k = EventSize - 1 /\ d = 1
            BY <3>1, <4>2
          <5>2. QED
            BY <2>3, <4>2, <5>1
        <4>3. QED
          BY <2>3, <3>1, <4>1, <4>2
      <3> HIDE DEF d
      <3>3. i + d \in 1 .. Len(recs) /\ owed[i] = eventStored[i + d]
        BY <2>3, <3>1 DEF Suffix
      <3>4. ~ (i + d = 1 /\ Len(recs) = EventSize)
        BY <3>1, <3>2, <3>3
      <3>5. recs[i + d] = owed[i]
        BY <2>4, <3>3, <3>4
      <3>6. recs[i + d] # Spoiled
        BY <2>6, <3>5, EventConstants
      <3>7. PICK j \in 1 .. Len(shown) : p[j] = i + d
        BY <2>5, <3>3, <3>6 DEF Picks
      <3>8. shown[j] = owed[i] /\ j \in DOMAIN shown
        BY <2>3, <2>5, <3>5, <3>7 DEF Picks
      <3>9. QED
        BY <3>8
    <2>8. ASSUME NEW i \in 2 .. Len(shown), NEW j \in 2 .. Len(shown), i < j
          PROVE  shown[i] < shown[j]
      <3>1. i \in 1 .. Len(shown) /\ j \in 1 .. Len(shown) /\ Len(shown) \in Nat
        BY <2>3
      <3>2. /\ p[i] \in 1 .. Len(recs) /\ p[j] \in 1 .. Len(recs) /\ p[i] < p[j]
            /\ shown[i] = recs[p[i]] /\ shown[j] = recs[p[j]] /\ i <= p[i] /\ j <= p[j]
        BY <2>5, <2>8, <3>1 DEF Picks
      <3>3. p[i] # 1 /\ p[j] # 1
        BY <2>3, <3>1, <3>2
      <3>4. shown[i] = eventStored[p[i]] /\ shown[j] = eventStored[p[j]]
        BY <2>4, <3>2, <3>3
      <3>5. p[i] \in DOMAIN eventStored /\ p[j] \in DOMAIN eventStored
        BY <2>2, <2>3, <3>2
      <3>6. QED
        BY <2>2, <3>2, <3>4, <3>5 DEF Rising
    <2>9. QED
      BY <2>7, <2>8
  <1>2. QED
    BY <1>1, EventAlways, PTL
-----------------------------------------------------------------------------
(***************************************************************************)
(* The order of the records, through the two halves of a write.            *)
(***************************************************************************)
Settled(recs, first) ==
  /\ \A i \in first .. Len(recs) : recs[i] # Spoiled
  /\ \A i \in first .. Len(recs) - 1 : recs[i].t <= recs[i + 1].t

\* Without its oldest record when the ring is full.
Rest(recs, size) == IF Len(recs) = size THEN 2 ELSE 1

LastIs(recs, last, size) ==
  size > 1 /\ Len(recs) > 0 /\ recs[Len(recs)] # Spoiled => last = recs[Len(recs)].t

SameRest(new, old, size) ==
  /\ Len(new) = Len(old)
  /\ \A i \in 1 .. Len(old) : (i = 1 /\ Len(old) = size) \/ new[i] = old[i]

Advances(new, old, rec, size) ==
  /\ Len(new) = IF Len(old) < size THEN Len(old) + 1 ELSE size
  /\ \A i \in 1 .. Len(new) :
       new[i] = IF i = Len(new) THEN rec ELSE old[IF Len(old) < size THEN i ELSE i + 1]

\* The slot changes no record but the oldest of a full ring.
LEMMA PutOrder ==
  ASSUME NEW size \in Nat \ {0}, NEW S, NEW file \in RingFiles(size, S),
         NEW kept, Holds(file, kept, size), Spoiled \notin Headers(size),
         NEW rec \in S \union {Spoiled}
  PROVE  LET header == CurrentHeader(file)
             put == WithSlot(file, header.write, rec) IN
         SameRest(InOrder(put.slots, header, size), InOrder(file.slots, header, size), size)
  <1> DEFINE header == CurrentHeader(file)
             put == WithSlot(file, header.write, rec)
             T == S \union {Spoiled}
  <1>1. /\ Ready(file, header, size) /\ header \in Headers(size) /\ Plain(header, size)
    BY HoldsReady
  <1>2. put.slots = PutSlot(file.slots, header.write, rec)
    BY DEF WithSlot, RingFiles
  <1>3. /\ file.slots \in Seq(T) /\ header.count <= Len(file.slots) /\ Len(file.slots) \in Nat
        /\ header.write \in Nat /\ header.write <= Len(file.slots) /\ rec \in T
    <2>1. header.count \in 0 .. size /\ header.write \in 0 .. size - 1
      BY <1>1 DEF Headers
    <2>2. QED
      BY <1>1, <2>1 DEF Ready, Plain, RingFiles
  <1> HIDE DEF T, header, put
  <1> DEFINE w == header.write
             slots == file.slots
             written == PutSlot(slots, w, rec)
  <1>4. \A j \in 1 .. Len(slots) : j # w + 1 => written[j] = slots[j]
    <2> HIDE DEF w, slots
    <2>1. slots \in Seq(T) /\ w \in Nat /\ w <= Len(slots)
      BY <1>3 DEF w, slots
    <2>2. QED
      BY <1>3, <2>1, PutSlotIs
  <1> HIDE DEF written
  <1>5. header.count \in Nat
    BY <1>1 DEF Headers
  <1>6. ASSUME NEW i \in 1 .. header.count, ~ (i = 1 /\ header.count = size)
        PROVE  InOrder(written, header, size)[i] = InOrder(slots, header, size)[i]
    <2>1. SlotOf(header, size, i) # w + 1
      BY <1>1, <1>6, WriteSlot
    <2>2. SlotOf(header, size, i) \in 1 .. Len(slots)
          /\ InOrder(written, header, size)[i] = written[SlotOf(header, size, i)]
          /\ InOrder(slots, header, size)[i] = slots[SlotOf(header, size, i)]
      <3>1. SlotOf(header, size, i) \in 1 .. header.count
        BY <1>1, SlotIs
      <3>2. QED
        BY <1>1, <1>3, <1>5, <3>1, SlotIs
    <2>3. QED
      BY <1>4, <2>1, <2>2
  <1>7. Len(InOrder(written, header, size)) = header.count /\ Len(InOrder(slots, header, size)) = header.count
    BY <1>5 DEF InOrder
  <1>8. QED
    BY <1>2, <1>6, <1>7 DEF SameRest, header, written, put

\* The header moves all records one place when the ring is full.
LEMMA SealOrder ==
  ASSUME NEW size \in Nat \ {0}, NEW header \in Headers(size), Plain(header, size), NEW slots
  PROVE  Advances(InOrder(slots, NextHeader(header, size), size), InOrder(slots, header, size),
                  slots[header.write + 1], size)
  <1> DEFINE next == NextHeader(header, size)
             new == InOrder(slots, next, size)
             old == InOrder(slots, header, size)
  <1>1. /\ next \in Headers(size) /\ Plain(next, size)
        /\ next.count = IF header.count < size THEN header.count + 1 ELSE size
        /\ header.count \in 0 .. size
    BY NextIs DEF Headers
  <1> HIDE DEF next
  <1>2. Len(new) = next.count /\ Len(old) = header.count
    BY <1>1 DEF InOrder
  <1> HIDE DEF new, old
  <1>3. ASSUME NEW i \in 1 .. next.count
        PROVE  new[i] = IF i = next.count THEN slots[header.write + 1]
                        ELSE old[IF header.count < size THEN i ELSE i + 1]
    <2> DEFINE j == IF header.count < size THEN i ELSE i + 1
    <2>1. new[i] = slots[SlotOf(next, size, i)]
      BY <1>1, SlotIs DEF new
    <2>2. SlotOf(next, size, i) = IF i = next.count THEN header.write + 1 ELSE SlotOf(header, size, j)
      BY SlotMoves DEF next
    <2>3. ASSUME i # next.count PROVE old[j] = slots[SlotOf(header, size, j)]
      <3>1. j \in 1 .. header.count
        BY <1>1, <2>3
      <3>2. QED
        BY <3>1, SlotIs DEF old
    <2> HIDE DEF j
    <2>4. new[i] = IF i = next.count THEN slots[header.write + 1] ELSE old[j]
      BY <2>1, <2>2, <2>3
    <2>5. QED
      BY <2>4 DEF j
  <1>4. Advances(new, old, slots[header.write + 1], size)
    BY <1>1, <1>2, <1>3 DEF Advances
  <1>5. QED
    BY <1>4 DEF new, old, next

LEMMA OrderPut ==
  ASSUME NEW size \in Nat \ {0}, NEW new, NEW old, Len(old) \in Nat, SameRest(new, old, size)
  PROVE  /\ Settled(old, 1) => Settled(new, Rest(new, size))
         /\ \A last : LastIs(old, last, size) => LastIs(new, last, size)
  <1>1. Len(new) = Len(old)
    BY DEF SameRest
  <1>2. ASSUME NEW i \in Rest(new, size) .. Len(new) PROVE i \in 1 .. Len(old) /\ new[i] = old[i]
    <2>1. i \in 1 .. Len(old) /\ ~ (i = 1 /\ Len(old) = size)
      BY <1>1 DEF Rest
    <2>2. QED
      BY <2>1 DEF SameRest
  <1>3. Rest(new, size) \in {1, 2}
    BY DEF Rest
  <1>4. ASSUME Settled(old, 1) PROVE Settled(new, Rest(new, size))
    <2>1. \A i \in Rest(new, size) .. Len(new) : new[i] # Spoiled
      BY <1>2, <1>4 DEF Settled
    <2>2. ASSUME NEW i \in Rest(new, size) .. Len(new) - 1 PROVE new[i].t <= new[i + 1].t
      <3>1. i \in Rest(new, size) .. Len(new) /\ i + 1 \in Rest(new, size) .. Len(new) /\ i \in 1 .. Len(old) - 1
        BY <1>1, <1>3
      <3>2. new[i] = old[i] /\ new[i + 1] = old[i + 1]
        BY <1>2, <3>1
      <3>3. QED
        BY <1>4, <3>1, <3>2 DEF Settled
    <2>3. QED
      BY <2>1, <2>2 DEF Settled
  <1>5. ASSUME NEW last, LastIs(old, last, size) PROVE LastIs(new, last, size)
    <2>1. SUFFICES ASSUME size > 1, Len(new) > 0, new[Len(new)] # Spoiled
                   PROVE  last = new[Len(new)].t
      BY DEF LastIs
    <2>2. Len(new) \in Rest(new, size) .. Len(new)
      BY <1>1, <2>1 DEF Rest
    <2>3. new[Len(new)] = old[Len(old)]
      BY <1>1, <1>2, <2>2
    <2>4. QED
      BY <1>1, <1>5, <2>1, <2>3 DEF LastIs
  <1>6. QED
    BY <1>4, <1>5

LEMMA OrderSeal ==
  ASSUME NEW size \in Nat \ {0}, NEW new, NEW old \in Seq(Stamped \union {Spoiled}),
         NEW rec \in Stamped, Len(old) <= size, Advances(new, old, rec, size),
         NEW last, LastIs(old, last, size)
  PROVE  /\ Settled(old, Rest(old, size)) /\ ~ (last # 0 /\ rec.t < last) => Settled(new, 1)
         /\ LastIs(new, rec.t, size)
  <1>1. /\ Spoiled \notin Stamped /\ RingTime \in Nat
        /\ \A x \in Stamped : x.t \in 1 .. RingTime
    BY RingAssumption DEF Stamped
  <1>2. /\ Len(old) \in 0 .. size /\ Len(new) = IF Len(old) < size THEN Len(old) + 1 ELSE size
        /\ \A i \in 1 .. Len(old) : old[i] \in Stamped \union {Spoiled}
    BY DEF Advances
  <1> DEFINE j(i) == IF Len(old) < size THEN i ELSE i + 1
  <1>3. new[Len(new)] = rec
    BY <1>2 DEF Advances
  <1>4. ASSUME NEW i \in 1 .. Len(new) - 1
        PROVE  new[i] = old[j(i)] /\ j(i) \in Rest(old, size) .. Len(old)
    <2>1. i \in 1 .. Len(new) /\ i # Len(new)
      BY <1>2
    <2>2. new[i] = old[j(i)]
      BY <2>1 DEF Advances
    <2>3. j(i) \in Rest(old, size) .. Len(old)
      BY <1>2 DEF Rest
    <2>4. QED
      BY <2>2, <2>3
  <1>5. LastIs(new, rec.t, size)
    BY <1>3 DEF LastIs
  <1>6. ASSUME Settled(old, Rest(old, size)), ~ (last # 0 /\ rec.t < last) PROVE Settled(new, 1)
    <2>1. ASSUME NEW i \in 1 .. Len(new) PROVE new[i] # Spoiled
      <3>1. CASE i = Len(new)
        BY <1>1, <1>3, <3>1
      <3>2. CASE i # Len(new)
        <4>1. i \in 1 .. Len(new) - 1
          BY <1>2, <3>2
        <4>2. QED
          BY <1>4, <1>6, <4>1 DEF Settled
      <3>3. QED
        BY <3>1, <3>2
    <2>2. ASSUME NEW i \in 1 .. Len(new) - 1 PROVE new[i].t <= new[i + 1].t
      <3>1. new[i] = old[j(i)] /\ j(i) \in Rest(old, size) .. Len(old)
        BY <1>4
      <3>2. CASE i + 1 = Len(new)
        <4>1. j(i) = Len(old) /\ size > 1 /\ Len(old) > 0
          BY <1>2, <3>2
        <4>2. old[Len(old)] # Spoiled /\ old[Len(old)] \in Stamped
          BY <1>2, <1>6, <3>1, <4>1 DEF Settled
        <4>3. last = old[Len(old)].t
          BY <4>1, <4>2 DEF LastIs
        <4>4. last \in 1 .. RingTime /\ rec.t \in 1 .. RingTime
          BY <1>1, <4>2, <4>3
        <4>5. new[i].t = last /\ new[i + 1] = rec
          BY <1>3, <3>1, <3>2, <4>1, <4>3
        <4>6. QED
          BY <1>1, <1>6, <4>4, <4>5
      <3>3. CASE i + 1 # Len(new)
        <4>1. i + 1 \in 1 .. Len(new) - 1 /\ j(i + 1) = j(i) + 1
          BY <1>2, <3>3
        <4>2. new[i + 1] = old[j(i) + 1] /\ j(i) + 1 \in Rest(old, size) .. Len(old)
          BY <1>4, <4>1
        <4>3. j(i) \in Rest(old, size) .. Len(old) - 1
          BY <1>2, <3>1, <4>2 DEF Rest
        <4>4. QED
          BY <1>6, <3>1, <4>2, <4>3 DEF Settled
      <3>4. QED
        BY <3>2, <3>3
    <2>3. QED
      BY <2>1, <2>2 DEF Settled
  <1>7. QED
    BY <1>5, <1>6

LEMMA AscendingIs ==
  ASSUME NEW recs, Len(recs) \in Nat, DOMAIN recs = 1 .. Len(recs)
  PROVE  Ascending(recs) <=> Settled(recs, 1)
  BY DEF Ascending, Settled
-----------------------------------------------------------------------------
(***************************************************************************)
(* The legacy ring.  Between any two steps the file holds what was         *)
(* acknowledged; while the tier is in use the header in RAM is that of the *)
(* file, and what is cached about the order of its records is true.        *)
(***************************************************************************)
Loaded == ringPc \in {"setup", "idle", "seal", "rename"}

RingKeeps(file, kept, torn) ==
  IsRing(file) =>
    /\ file \in RingFiles(RingSize, Stamped) /\ kept \in Seq(Stamped \union {Spoiled})
    /\ Holds(file, kept, RingSize)
    /\ Readable(file) \/ torn

RingFileOK == RingKeeps(ringFile, ringKept, ringTorn)

RingHeadOK ==
  Loaded => IsRing(ringFile) /\ Readable(ringFile) /\ ringHead = CurrentHeader(ringFile)

RingWriteOK ==
  ringPc = "seal" =>
    /\ ringWrite.rec \in Stamped /\ ringWrite.open \in Stamped \union {NoFile}
    /\ ringHead.write + 1 <= Len(ringFile.slots)
    /\ ringFile.slots[ringHead.write + 1] = ringWrite.rec

Cached(recs, order, last, pending) ==
  /\ order = "ordered" => Settled(recs, IF pending = "seal" THEN Rest(recs, RingSize) ELSE 1)
  /\ LastIs(recs, last, RingSize)

RingOrderOK == Loaded => Cached(Logical, ringOrder, ringLast, ringPc)

RingFailOK == ringPc = "failed" => ringTorn

RingInv ==
  /\ RingTypeOK /\ RingFileOK /\ RingHeadOK /\ RingWriteOK /\ RingOrderOK /\ RingFailOK

LEMMA RingConstants ==
  /\ RingSize \in Nat \ {0} /\ RingTime \in Nat /\ LiveTime \in 0 .. RingTime
  /\ Spoiled \notin Stamped /\ Spoiled \notin Headers(RingSize)
  /\ EmptyHeader \in Headers(RingSize)
  /\ EmptyRing \in RingFiles(RingSize, Stamped) /\ TornRing \in RingFiles(RingSize, Stamped)
  /\ NoFile \notin RingFiles(RingSize, Stamped) /\ NoFile \notin Stamped
  <1>1. RingSize \in Nat \ {0} /\ Spoiled \notin Headers(RingSize)
    BY RingAssumption
  <1>2. EmptyRing \in RingFiles(RingSize, Stamped)
        /\ TornRing \in RingFiles(RingSize, Stamped)
        /\ EmptyHeader \in Headers(RingSize)
    BY <1>1, EmptyRingIs
  <1>3. QED
    BY <1>1, <1>2, RingAssumption

\* A ring is a file of its own kind, and blocks are not.
LEMMA KindsOfFile ==
  /\ \A f \in RingFiles(RingSize, Stamped) : IsRing(f)
  /\ \A recs : ~ IsRing(Blocks(recs))
  /\ ~ IsRing(NoFile)
  <1>1. ASSUME NEW f \in RingFiles(RingSize, Stamped) PROVE IsRing(f)
    <2>1. f # NoFile
      BY RingConstants
    <2>2. "copies" \in DOMAIN f
      BY DEF RingFiles
    <2>3. QED
      BY <2>1, <2>2 DEF IsRing
  <1>2. ASSUME NEW recs PROVE ~ IsRing(Blocks(recs))
    BY DEF IsRing, Blocks
  <1>3. ~ IsRing(NoFile)
    BY DEF IsRing
  <1>4. QED
    BY <1>1, <1>2, <1>3

LEMMA SpoiledTwice ==
  ASSUME NEW size, NEW S
  PROVE  RingFiles(size, S \union {Spoiled}) = RingFiles(size, S)
  <1>1. (S \union {Spoiled}) \union {Spoiled} = S \union {Spoiled}
    OBVIOUS
  <1>2. QED
    BY <1>1, Zenon DEF RingFiles

\* What the tier is while it is loaded.
LEMMA LoadedIs ==
  ASSUME RingInv, Loaded
  PROVE  /\ IsRing(ringFile) /\ ringFile \in RingFiles(RingSize, Stamped)
         /\ ringKept \in Seq(Stamped \union {Spoiled}) /\ Holds(ringFile, ringKept, RingSize)
         /\ Readable(ringFile) /\ ringHead = CurrentHeader(ringFile) /\ ringHead \in Headers(RingSize)
         /\ Logical \in Seq(Stamped \union {Spoiled}) /\ Len(Logical) \in 0 .. RingSize
         /\ Len(Logical) = ringHead.count /\ DOMAIN Logical = 1 .. Len(Logical)
         /\ Reads(ringFile, Logical, ringKept, RingSize) /\ Len(ringKept) = Len(Logical)
         /\ Cached(Logical, ringOrder, ringLast, ringPc)
  <1>1. /\ IsRing(ringFile) /\ Readable(ringFile) /\ ringHead = CurrentHeader(ringFile)
        /\ Cached(Logical, ringOrder, ringLast, ringPc) /\ ringHead \in Headers(RingSize)
    BY DEF RingInv, RingHeadOK, RingOrderOK, RingTypeOK
  <1>2. /\ ringFile \in RingFiles(RingSize, Stamped)
        /\ ringKept \in Seq(Stamped \union {Spoiled}) /\ Holds(ringFile, ringKept, RingSize)
    BY <1>1 DEF RingInv, RingFileOK, RingKeeps
  <1>3. /\ Logical \in Seq(Stamped \union {Spoiled}) /\ Len(Logical) \in 0 .. RingSize
        /\ Len(Logical) = ringHead.count
        /\ Reads(ringFile, Logical, ringKept, RingSize) /\ Len(ringKept) = Len(Logical)
    BY <1>1, <1>2, RingConstants, ReadIs DEF Logical
  <1>4. DOMAIN Logical = 1 .. Len(Logical)
    BY <1>3
  <1>5. QED
    BY <1>1, <1>2, <1>3, <1>4

LEMMA RingStart ==
  ASSUME RingInit PROVE RingInv
  <1>1. /\ ringFile \in RingArchive \union {NoFile} /\ ringHead = EmptyHeader /\ ringLast = 0
        /\ ringOrder = "unknown" /\ ringOpen = NoFile /\ ringPc = "off" /\ ringTorn = FALSE
    BY DEF RingInit
  <1>2. RingKeeps(ringFile, ringKept, ringTorn) /\ (IsRing(ringFile) => Len(ringFile.slots) <= RingSize)
    <2>1. CASE ringFile = NoFile
      BY <2>1, KindsOfFile DEF RingKeeps
    <2>2. CASE ringFile \in RingArchive /\ ringFile # NoFile
      <3> DEFINE header == NewestHeader(ringFile)
      <3>1. ringFile \in RingFiles(RingSize, Stamped) /\ Written(ringFile, RingSize)
        BY <2>2, ArchiveAssumption
      <3>2. Ready(ringFile, header, RingSize) /\ Readable(ringFile)
        BY <3>1, RingConstants, WrittenIsReady
      <3>3. ringKept = InOrder(ringFile.slots, header, RingSize)
        BY <2>2 DEF RingInit
      <3>4. header \in Headers(RingSize) /\ Plain(header, RingSize) /\ CurrentHeader(ringFile) = header
            /\ header.count \in 0 .. RingSize /\ Len(ringFile.slots) <= RingSize
        BY <3>2 DEF Ready, CurrentHeader, Headers
      <3> HIDE DEF header
      <3>5. Len(ringKept) = header.count
        BY <3>3, <3>4 DEF InOrder
      <3>6. Mirrors(ringFile.slots, header, ringKept, RingSize)
        BY <3>3, <3>4, <3>5, RingConstants, SlotIs DEF Mirrors
      <3>7. Holds(ringFile, ringKept, RingSize)
        BY <3>1, <3>2, <3>4, <3>6 DEF Holds, header
      <3>8. ringKept \in Seq(Stamped \union {Spoiled})
        BY <3>1, <3>3, <3>4, <3>7, RingConstants, ReadIs
      <3>9. QED
        BY <3>1, <3>2, <3>4, <3>7, <3>8 DEF RingKeeps
    <2>3. QED
      BY <1>1, <2>1, <2>2
  <1>3. RingTypeOK
    BY <1>1, <1>2, RingConstants DEF RingTypeOK, RingKeeps
  <1>4. RingHeadOK /\ RingWriteOK /\ RingOrderOK /\ RingFailOK
    BY <1>1 DEF RingHeadOK, RingWriteOK, RingOrderOK, RingFailOK, Loaded
  <1>5. QED
    BY <1>2, <1>3, <1>4 DEF RingInv, RingFileOK

\* A record in its slot, or what a failed write leaves there.
LEMMA StoreOK ==
  ASSUME RingInv, NEW rec \in Stamped, NEW open \in Stamped \union {NoFile}, Store(rec, open)
  PROVE  RingInv'
  <1>1. /\ ringPc = "idle" /\ IsRing(ringFile) /\ Loaded
        /\ UNCHANGED <<ringStage, ringKept, ringTorn, ringHead, ringLast, ringOpen>>
    BY DEF Store, Loaded, FailedWrite
  <1>2. /\ ringFile \in RingFiles(RingSize, Stamped) /\ Holds(ringFile, ringKept, RingSize)
        /\ Readable(ringFile) /\ ringHead = CurrentHeader(ringFile)
        /\ ringKept \in Seq(Stamped \union {Spoiled})
        /\ Logical \in Seq(Stamped \union {Spoiled})
        /\ Cached(Logical, ringOrder, ringLast, ringPc)
    BY <1>1, LoadedIs
  <1>3. /\ RingTypeOK /\ Len(ringFile.slots) <= RingSize
    BY <1>1 DEF RingInv, RingTypeOK
  <1>4. ASSUME NEW put \in Stamped \union {Spoiled}, ringFile' = Put(put)
        PROVE  /\ ringFile' \in RingFiles(RingSize, Stamped) /\ Holds(ringFile', ringKept, RingSize)
               /\ Readable(ringFile') /\ ringHead = CurrentHeader(ringFile')
               /\ ringHead.write + 1 <= Len(ringFile'.slots)
               /\ ringFile'.slots[ringHead.write + 1] = put
               /\ SameRest(Logical', Logical, RingSize)
    <2>1. ringFile' = WithSlot(ringFile, ringHead.write, put)
      BY <1>4 DEF Put, WithSlot
    <2>2. /\ ringFile' \in RingFiles(RingSize, Stamped) /\ Holds(ringFile', ringKept, RingSize)
          /\ Readable(ringFile') /\ ringHead = CurrentHeader(ringFile')
          /\ ringHead.write + 1 <= Len(ringFile'.slots)
          /\ ringFile'.slots[ringHead.write + 1] = put
      BY <1>2, <2>1, RingConstants, PutHolds
    <2>3. SameRest(InOrder(ringFile'.slots, ringHead, RingSize),
                   InOrder(ringFile.slots, ringHead, RingSize), RingSize)
      BY <1>2, <2>1, RingConstants, PutOrder
    <2>4. QED
      BY <1>1, <2>2, <2>3 DEF Logical
  <1>5. CASE ringFile' = Put(rec) /\ ringWrite' = [rec |-> rec, open |-> open] /\ ringPc' = "seal"
             /\ UNCHANGED ringOrder
    <2>1. /\ ringFile' \in RingFiles(RingSize, Stamped) /\ Holds(ringFile', ringKept, RingSize)
          /\ Readable(ringFile') /\ ringHead = CurrentHeader(ringFile')
          /\ ringHead.write + 1 <= Len(ringFile'.slots)
          /\ ringFile'.slots[ringHead.write + 1] = rec
          /\ SameRest(Logical', Logical, RingSize)
      BY <1>4, <1>5
    <2>2. IsRing(ringFile')
      BY <2>1, KindsOfFile
    <2>3. RingFileOK' /\ RingHeadOK' /\ RingWriteOK' /\ RingFailOK'
      BY <1>1, <1>2, <1>5, <2>1, <2>2 DEF RingFileOK, RingKeeps, RingHeadOK, RingWriteOK, RingFailOK
    <2>4. Cached(Logical', ringOrder, ringLast, "seal")
      <3>1. Len(Logical) \in Nat
        BY <1>2
      <3>2. /\ Settled(Logical, 1) => Settled(Logical', Rest(Logical', RingSize))
            /\ LastIs(Logical, ringLast, RingSize) => LastIs(Logical', ringLast, RingSize)
        BY <2>1, <3>1, RingConstants, OrderPut
      <3>3. QED
        BY <1>1, <1>2, <3>2 DEF Cached
    <2>5. RingOrderOK'
      BY <1>1, <1>5, <2>4 DEF RingOrderOK
    <2>6. RingTypeOK'
      BY <1>1, <1>3, <1>5, <2>1, <2>2 DEF RingTypeOK, Holds
    <2>7. QED
      BY <2>3, <2>5, <2>6 DEF RingInv
  <1>6. CASE ringFile' \in {ringFile, Put(Spoiled)} /\ ringOrder' = "unknown"
             /\ UNCHANGED <<ringWrite, ringPc>>
    <2>1. /\ ringFile' \in RingFiles(RingSize, Stamped) /\ Holds(ringFile', ringKept, RingSize)
          /\ Readable(ringFile') /\ ringHead = CurrentHeader(ringFile')
          /\ LastIs(Logical', ringLast, RingSize)
      <3>1. CASE ringFile' = ringFile
        <4>1. Logical' = Logical
          BY <1>1, <3>1 DEF Logical
        <4>2. QED
          BY <1>2, <3>1, <4>1 DEF Cached
      <3>2. CASE ringFile' = Put(Spoiled)
        <4>1. Len(Logical) \in Nat /\ SameRest(Logical', Logical, RingSize)
          BY <1>2, <1>4, <3>2
        <4>2. LastIs(Logical, ringLast, RingSize) => LastIs(Logical', ringLast, RingSize)
          BY <4>1, RingConstants, OrderPut
        <4>3. QED
          BY <1>2, <1>4, <3>2, <4>2 DEF Cached
      <3>3. QED
        BY <1>6, <3>1, <3>2
    <2>2. IsRing(ringFile')
      BY <2>1, KindsOfFile
    <2>3. RingFileOK' /\ RingHeadOK' /\ RingWriteOK' /\ RingFailOK'
      BY <1>1, <1>2, <1>6, <2>1, <2>2 DEF RingFileOK, RingKeeps, RingHeadOK, RingWriteOK, RingFailOK
    <2>4. RingOrderOK'
      BY <1>1, <1>6, <2>1 DEF RingOrderOK, Cached
    <2>5. RingTypeOK'
      BY <1>1, <1>3, <1>6, <2>1, <2>2 DEF RingTypeOK, Holds
    <2>6. QED
      BY <2>3, <2>4, <2>5 DEF RingInv
  <1>7. QED
    BY <1>5, <1>6 DEF Store, FailedWrite
LEMMA SealOK ==
  ASSUME RingInv, Seal PROVE RingInv'
  <1> DEFINE header == NextHeader(ringHead, RingSize)
             rec == ringWrite.rec
             T == Stamped \union {Spoiled}
  <1>1. ringPc = "seal" /\ ringPc' = "idle" /\ Loaded /\ UNCHANGED <<ringStage, ringTorn>>
    BY DEF Seal, Loaded
  <1>2. /\ ringFile \in RingFiles(RingSize, Stamped) /\ Holds(ringFile, ringKept, RingSize)
        /\ Readable(ringFile) /\ ringHead = CurrentHeader(ringFile) /\ ringHead \in Headers(RingSize)
        /\ ringKept \in Seq(T)
        /\ Logical \in Seq(T) /\ Len(Logical) \in 0 .. RingSize
        /\ Cached(Logical, ringOrder, ringLast, ringPc)
    BY <1>1, LoadedIs
  <1>3. /\ rec \in Stamped /\ ringWrite.open \in Stamped \union {NoFile}
        /\ ringHead.write + 1 <= Len(ringFile.slots)
        /\ ringFile.slots[ringHead.write + 1] = rec
    BY <1>1 DEF RingInv, RingWriteOK
  <1>4. RingTypeOK
    BY DEF RingInv
  <1>5. CASE /\ ringFile' = SealHeader(header)
             /\ ringHead' = header /\ ringLast' = rec.t /\ ringOpen' = ringWrite.open
             /\ ringOrder' = IF ringLast # 0 /\ rec.t < ringLast THEN "unordered" ELSE ringOrder
             /\ ringKept' = Newest(Append(ringKept, rec), RingSize)
    <2> DEFINE sealed == WithCopy(ringFile, CopyOf(header), header)
               kept == Newest(Append(ringKept, rec), RingSize)
    <2>1. ringFile \in RingFiles(RingSize, T) /\ rec \in T /\ RingSize \in Nat
      BY <1>2, <1>3, SpoiledTwice, RingConstants
    <2>2. /\ sealed \in RingFiles(RingSize, Stamped) /\ sealed.slots = ringFile.slots
          /\ Holds(sealed, kept, RingSize) /\ kept \in Seq(T)
          /\ Readable(sealed) /\ CurrentHeader(sealed) = header /\ header \in Headers(RingSize)
      <3> HIDE DEF T
      <3>1. /\ sealed \in RingFiles(RingSize, T) /\ sealed.slots = ringFile.slots
            /\ Holds(sealed, kept, RingSize)
            /\ Readable(sealed) /\ CurrentHeader(sealed) = header /\ header \in Headers(RingSize)
        BY <1>2, <1>3, <2>1, RingConstants, SealHolds
      <3>2. kept \in Seq(T)
        BY <1>2, <2>1, NewestAdd
      <3>3. RingFiles(RingSize, T) = RingFiles(RingSize, Stamped)
        BY SpoiledTwice, Zenon DEF T
      <3>4. QED
        BY <3>1, <3>2, <3>3
    <2>3. Advances(InOrder(ringFile.slots, header, RingSize), Logical, rec, RingSize)
      <3>1. Plain(ringHead, RingSize)
        BY <1>2, RingConstants, HoldsReady
      <3>2. Advances(InOrder(ringFile.slots, header, RingSize), InOrder(ringFile.slots, ringHead, RingSize),
                     ringFile.slots[ringHead.write + 1], RingSize)
        BY <1>2, <3>1, RingConstants, SealOrder
      <3>3. ringFile.slots[ringHead.write + 1] = rec
        BY <1>3
      <3> HIDE DEF header, rec
      <3>4. QED
        BY <3>2, <3>3 DEF Logical
    <2>4. ringFile' = sealed
      BY <1>5 DEF SealHeader, WithCopy
    <2>5. Logical' = InOrder(ringFile.slots, header, RingSize)
      BY <1>5, <2>2, <2>4 DEF Logical
    <2> HIDE DEF sealed, kept, header, rec
    <2>6. /\ Settled(Logical, Rest(Logical, RingSize)) /\ ~ (ringLast # 0 /\ rec.t < ringLast) =>
               Settled(Logical', 1)
          /\ LastIs(Logical', rec.t, RingSize)
      <3>1. LastIs(Logical, ringLast, RingSize) /\ Advances(Logical', Logical, rec, RingSize)
        BY <1>2, <2>3, <2>5 DEF Cached
      <3>2. Len(Logical) <= RingSize
        BY <1>2, RingConstants
      <3>3. Logical \in Seq(Stamped \union {Spoiled}) /\ rec \in Stamped /\ RingSize \in Nat \ {0}
        BY <1>2, <1>3, RingConstants
      <3>4. QED
        BY <3>1, <3>2, <3>3, OrderSeal, Zenon
    <2>7. Cached(Logical', ringOrder', ringLast', ringPc')
      BY <1>1, <1>2, <1>5, <2>6 DEF Cached
    <2>8. IsRing(ringFile')
      BY <2>2, <2>4, KindsOfFile
    <2>9. ringKept' = kept
      BY <1>5 DEF kept
    <2>10. RingFileOK' /\ RingHeadOK' /\ RingOrderOK'
      BY <1>1, <1>5, <2>2, <2>4, <2>7, <2>8, <2>9 DEF RingFileOK, RingKeeps, RingHeadOK, RingOrderOK
    <2>11. RingWriteOK' /\ RingFailOK'
      BY <1>1 DEF RingWriteOK, RingFailOK
    <2>12. RingTypeOK'
      <3>1. ringLast' \in 0 .. RingTime
        BY <1>3, <1>5, RingConstants DEF Stamped
      <3>2. ringOrder' \in {"unknown", "ordered", "unordered"}
        BY <1>4, <1>5 DEF RingTypeOK
      <3>3. Len(ringFile'.slots) <= RingSize
        BY <2>2, <2>4 DEF Holds
      <3>4. QED
        BY <1>1, <1>3, <1>5, <2>2, <2>4, <2>8, <3>1, <3>2, <3>3 DEF RingTypeOK
    <2>13. QED
      BY <2>10, <2>11, <2>12 DEF RingInv
  <1>6. CASE /\ ringFile' \in {ringFile, [ringFile EXCEPT !.copies[CopyOf(header)] = Spoiled]}
             /\ FailedWrite /\ UNCHANGED ringKept
    <2>1. /\ ringFile' \in RingFiles(RingSize, Stamped) /\ Holds(ringFile', ringKept, RingSize)
          /\ Readable(ringFile') /\ CurrentHeader(ringFile') = ringHead
          /\ ringFile'.slots = ringFile.slots
      <3>1. CASE ringFile' = ringFile
        BY <1>2, <3>1
      <3>2. CASE ringFile' = [ringFile EXCEPT !.copies[CopyOf(header)] = Spoiled]
        <4>1. ringFile' = WithCopy(ringFile, CopyOf(header), Spoiled)
          BY <3>2 DEF WithCopy
        <4>2. QED
          BY <1>2, <4>1, RingConstants, SpoilHolds
      <3>3. QED
        BY <1>6, <3>1, <3>2
    <2>2. /\ ringHead' = ringHead /\ ringLast' = ringLast /\ ringOpen' = ringOpen
          /\ ringOrder' = "unknown"
      BY <1>6 DEF FailedWrite
    <2>3. Logical' = Logical
      BY <2>1, <2>2 DEF Logical
    <2>4. IsRing(ringFile')
      BY <2>1, KindsOfFile
    <2>5. RingFileOK' /\ RingHeadOK' /\ RingOrderOK' /\ RingWriteOK' /\ RingFailOK'
      BY <1>1, <1>2, <1>6, <2>1, <2>2, <2>3, <2>4
         DEF RingFileOK, RingKeeps, RingHeadOK, RingOrderOK, RingWriteOK, RingFailOK, Cached
    <2>6. RingTypeOK'
      <3>1. Len(ringFile'.slots) <= RingSize
        BY <2>1 DEF Holds
      <3>2. QED
        BY <1>1, <1>4, <2>1, <2>2, <2>4, <3>1 DEF RingTypeOK
    <2>7. QED
      BY <2>5, <2>6 DEF RingInv
  <1>7. QED
    BY <1>5, <1>6 DEF Seal

\* A new ring, or an interrupted creation.
LEMMA CreateOK ==
  ASSUME NEW then \in {"setup", "idle"}, CreateRing(then), RingInv, ringOpen' \in Stamped \union {NoFile}
  PROVE  RingInv'
  <1>1. ringHead' = EmptyHeader /\ ringLast' = 0 /\ ringKept' = <<>>
    BY DEF CreateRing
  <1>2. /\ Holds(EmptyRing, <<>>, RingSize) /\ Holds(TornRing, <<>>, RingSize)
        /\ CurrentHeader(EmptyRing) = EmptyHeader /\ Readable(EmptyRing)
    BY RingConstants, FreshHolds
  <1>3. <<>> \in Seq(Stamped \union {Spoiled})
    OBVIOUS
  <1>4. CASE ringFile' = EmptyRing /\ ringOrder' = "ordered" /\ ringPc' = then /\ UNCHANGED ringTorn
    <2>1. RingFileOK' /\ RingHeadOK'
      BY <1>1, <1>2, <1>3, <1>4, RingConstants, KindsOfFile DEF RingFileOK, RingKeeps, RingHeadOK
    <2>2. Len(Logical') = 0
      BY <1>1 DEF Logical, InOrder, EmptyHeader
    <2>3. RingOrderOK' /\ RingWriteOK' /\ RingFailOK'
      BY <1>4, <2>2 DEF RingOrderOK, Cached, Settled, LastIs, RingWriteOK, RingFailOK
    <2>4. RingTypeOK'
      BY <1>1, <1>2, <1>4, RingConstants, KindsOfFile DEF RingTypeOK, Holds
    <2>5. QED
      BY <2>1, <2>3, <2>4 DEF RingInv
  <1>5. CASE ringTorn' = TRUE /\ ringFile' \in {NoFile, TornRing} /\ ringOrder' = "unknown" /\ ringPc' = "failed"
    <2>1. RingFileOK'
      BY <1>1, <1>2, <1>3, <1>5, RingConstants, KindsOfFile DEF RingFileOK, RingKeeps
    <2>2. RingHeadOK' /\ RingOrderOK' /\ RingWriteOK' /\ RingFailOK'
      BY <1>5 DEF RingHeadOK, RingOrderOK, RingWriteOK, RingFailOK, Loaded
    <2>3. RingTypeOK'
      <3>1. IsRing(ringFile') => ringFile' = TornRing
        BY <1>5, KindsOfFile
      <3>2. QED
        BY <1>1, <1>2, <1>5, <3>1, RingConstants DEF RingTypeOK, Holds
    <2>4. QED
      BY <2>1, <2>2, <2>3 DEF RingInv
  <1>6. QED
    BY <1>4, <1>5 DEF CreateRing

LEMMA BootOK ==
  ASSUME RingInv, BootRing PROVE RingInv'
  <1>1. ringPc = "off" /\ UNCHANGED <<ringStage, ringOpen, ringWrite>> /\ RingTypeOK
    BY DEF BootRing, RingInv
  <1>2. CASE ringFile = NoFile /\ CreateRing("setup")
    BY <1>1, <1>2, CreateOK DEF RingTypeOK
  <1>3. CASE IsRing(ringFile) /\ LoadRing /\ UNCHANGED <<ringFile, ringKept, ringTorn, ringFaults>>
    <2> DEFINE header == NewestHeader(ringFile)
               recs == InOrder(ringFile.slots, header, RingSize)
    <2>1. /\ ringFile \in RingFiles(RingSize, Stamped) /\ ringKept \in Seq(Stamped \union {Spoiled})
          /\ Holds(ringFile, ringKept, RingSize) /\ (Readable(ringFile) \/ ringTorn)
      BY <1>3 DEF RingInv, RingFileOK, RingKeeps
    <2>2. RingFileOK'
      BY <1>3, <2>1 DEF RingFileOK, RingKeeps
    <2>3. CASE Readable(ringFile) /\ LongEnough(ringFile, header)
      <3>1. /\ ringHead' = header /\ ringLast' = LastStamp(ringFile, header)
            /\ ringOrder' = "unknown" /\ ringPc' = "setup"
        BY <1>3, <2>3 DEF LoadRing
      <3>2. header = CurrentHeader(ringFile)
        BY <2>3 DEF CurrentHeader
      <3>3. header \in Headers(RingSize)
        BY <2>1, <3>2, RingConstants, HoldsReady
      <3>4. recs \in Seq(Stamped \union {Spoiled}) /\ Len(recs) = header.count /\ header.count \in 0 .. RingSize
        <4> HIDE DEF header
        <4>1. QED
          BY <2>1, <3>2, RingConstants, ReadIs
      <3>5. Logical' = recs
        BY <1>3, <3>1 DEF Logical
      <3> HIDE DEF recs, header
      <3>6. ringLast' = IF header.count = 0 \/ recs[header.count] = Spoiled THEN 0 ELSE recs[header.count].t
        BY <3>1 DEF LastStamp, recs
      <3>7. ringLast' \in 0 .. RingTime
        <4>1. CASE header.count = 0 \/ recs[header.count] = Spoiled
          BY <3>6, <4>1, RingConstants
        <4>2. CASE ~ (header.count = 0 \/ recs[header.count] = Spoiled)
          <5>1. recs[header.count] \in Stamped
            BY <3>4, <4>2, RingConstants
          <5>2. QED
            BY <3>6, <4>2, <5>1, RingConstants DEF Stamped
        <4>3. QED
          BY <4>1, <4>2
      <3>8. Cached(recs, ringOrder', ringLast', ringPc')
        BY <3>1, <3>4, <3>6, RingConstants DEF Cached, LastIs
      <3>9. RingOrderOK' /\ RingHeadOK' /\ RingWriteOK' /\ RingFailOK'
        BY <1>3, <2>3, <3>1, <3>2, <3>5, <3>8 DEF RingOrderOK, RingHeadOK, RingWriteOK, RingFailOK
      <3>10. RingTypeOK'
        BY <1>1, <1>3, <3>1, <3>3, <3>7 DEF RingTypeOK
      <3>11. QED
        BY <2>2, <3>9, <3>10 DEF RingInv
    <2>4. CASE ~ (Readable(ringFile) /\ LongEnough(ringFile, header))
      <3>1. ringPc' = "failed" /\ UNCHANGED <<ringHead, ringLast, ringOrder>>
        BY <1>3, <2>4 DEF LoadRing
      <3>2. Readable(ringFile) => LongEnough(ringFile, header)
        BY <2>1 DEF Holds, Written
      <3>3. RingFailOK'
        BY <1>3, <2>1, <2>4, <3>2 DEF RingFailOK
      <3>4. RingOrderOK' /\ RingHeadOK' /\ RingWriteOK'
        BY <3>1 DEF RingOrderOK, RingHeadOK, RingWriteOK, Loaded
      <3>5. RingTypeOK'
        BY <1>1, <1>3, <3>1 DEF RingTypeOK
      <3>6. QED
        BY <2>2, <3>3, <3>4, <3>5 DEF RingInv
    <2>5. QED
      BY <2>3, <2>4
  <1>4. CASE /\ ~ IsRing(ringFile) /\ ringPc' = "converted"
             /\ UNCHANGED <<ringFile, ringHead, ringLast, ringOrder, ringKept, ringTorn, ringFaults>>
    <2>1. RingFileOK' /\ RingHeadOK' /\ RingOrderOK' /\ RingWriteOK' /\ RingFailOK'
      BY <1>4 DEF RingInv, RingFileOK, RingKeeps, RingHeadOK, RingOrderOK, RingWriteOK, RingFailOK, Loaded
    <2>2. RingTypeOK'
      BY <1>1, <1>4 DEF RingTypeOK
    <2>3. QED
      BY <2>1, <2>2 DEF RingInv
  <1>5. QED
    BY <1>2, <1>3, <1>4 DEF BootRing

\* Steps that leave the ring and the header alone.
LEMMA QuietOK ==
  ASSUME RingInv, Loaded, UNCHANGED <<ringFile, ringHead, ringLast, ringKept, ringTorn>>,
         ringPc # "seal", ringPc' \in {"idle", "setup", "rename"},
         ringOpen' \in Stamped \union {NoFile},
         ringOrder' \in {"unknown", "ordered", "unordered"},
         ringOrder' = "ordered" => Settled(Logical, 1)
  PROVE  RingInv'
  <1>1. Logical' = Logical /\ Cached(Logical, ringOrder, ringLast, ringPc)
    BY DEF Logical, RingInv, RingOrderOK
  <1>2. RingFileOK' /\ RingHeadOK' /\ RingWriteOK' /\ RingFailOK'
    BY DEF RingInv, RingFileOK, RingKeeps, RingHeadOK, RingWriteOK, RingFailOK
  <1>3. RingOrderOK'
    BY <1>1 DEF RingOrderOK, Cached
  <1>4. RingTypeOK'
    BY DEF RingInv, RingTypeOK, RingHeadOK
  <1>5. QED
    BY <1>2, <1>3, <1>4 DEF RingInv

\* While nothing is being written the cached order is true of all records.
LEMMA OrderIsTrue ==
  ASSUME RingInv, Loaded, ringPc # "seal"
  PROVE  /\ ringOrder = "ordered" => Settled(Logical, 1)
         /\ ringOrder \in {"unknown", "ordered", "unordered"}
  BY DEF RingInv, RingOrderOK, Cached, RingTypeOK

LEMMA UpdateOK ==
  ASSUME RingInv, NEW t \in 1 .. LiveTime, NEW v \in LiveReadings, UpdateTier(t, v) PROVE RingInv'
  <1> DEFINE sample == [t |-> t, v |-> v]
  <1>1. ringPc = "idle" /\ Loaded /\ ringOpen \in Stamped \union {NoFile}
    BY DEF UpdateTier, Loaded, RingInv, RingTypeOK
  <1>2. sample \in Stamped
    BY RingAssumption DEF Stamped
  <1>3. CASE ringOpen' = sample /\ UNCHANGED <<ringFile, ringHead, ringLast, ringOrder, ringPc, ringKept, ringTorn>>
    BY <1>1, <1>2, <1>3, QuietOK, OrderIsTrue
  <1>4. CASE /\ ringOpen # NoFile /\ ringOpen' = [ringOpen EXCEPT !.v = IF v = 0 THEN @ ELSE v]
             /\ UNCHANGED <<ringFile, ringHead, ringLast, ringOrder, ringPc, ringKept, ringTorn>>
    <2>1. ringOpen' \in Stamped
      BY <1>1, <1>4, RingAssumption DEF Stamped
    <2>2. QED
      BY <1>1, <1>4, <2>1, QuietOK, OrderIsTrue
  <1>5. CASE ringOpen # NoFile /\ Store(ringOpen, sample)
    BY <1>1, <1>2, <1>5, StoreOK
  <1>6. QED
    BY <1>3, <1>4, <1>5 DEF UpdateTier

LEMMA CutOK ==
  ASSUME RingInv, CutRing PROVE RingInv'
  <1> DEFINE k == CopyOf(NextHeader(ringHead, RingSize))
  <1>1. /\ ringPc' = "off" /\ ringHead' = EmptyHeader /\ ringLast' = 0 /\ ringOrder' = "unknown"
        /\ ringOpen' = NoFile /\ UNCHANGED <<ringStage, ringKept, ringTorn>>
    BY DEF CutRing
  <1>2. RingFileOK'
    <2>1. CASE ringFile' = ringFile
      BY <1>1, <2>1 DEF RingInv, RingFileOK
    <2>2. CASE ringPc = "seal" /\ ringFile' = [ringFile EXCEPT !.copies[k] = Spoiled]
      <3>1. /\ ringFile \in RingFiles(RingSize, Stamped) /\ Holds(ringFile, ringKept, RingSize)
            /\ Readable(ringFile) /\ ringHead = CurrentHeader(ringFile)
            /\ ringKept \in Seq(Stamped \union {Spoiled})
        BY <2>2, LoadedIs DEF Loaded
      <3>2. ringFile' = WithCopy(ringFile, k, Spoiled)
        BY <2>2 DEF WithCopy
      <3>3. /\ ringFile' \in RingFiles(RingSize, Stamped) /\ Holds(ringFile', ringKept, RingSize)
            /\ Readable(ringFile')
        BY <3>1, <3>2, RingConstants, SpoilHolds
      <3>4. QED
        BY <1>1, <3>1, <3>3 DEF RingFileOK, RingKeeps
    <2>3. QED
      BY <2>1, <2>2 DEF CutRing
  <1>3. RingHeadOK' /\ RingOrderOK' /\ RingWriteOK' /\ RingFailOK'
    BY <1>1 DEF RingHeadOK, RingOrderOK, RingWriteOK, RingFailOK, Loaded
  <1>4. RingTypeOK'
    BY <1>1, <1>2, RingConstants DEF RingTypeOK, RingFileOK, RingKeeps, Holds
  <1>5. QED
    BY <1>2, <1>3, <1>4 DEF RingInv

LEMMA RingStep ==
  ASSUME RingInv, [RingNext]_ringVars PROVE RingInv'
  <1>1. CASE UNCHANGED ringVars
    BY <1>1 DEF ringVars, RingInv, RingTypeOK, RingFileOK, RingHeadOK, RingWriteOK, RingOrderOK,
                RingFailOK, Loaded, Logical
  <1>2. ASSUME NEW t \in 1 .. LiveTime, NEW v \in LiveReadings, UpdateTier(t, v) PROVE RingInv'
    BY <1>2, UpdateOK
  <1>3. CASE FlushPending
    <2>1. ringOpen \in Stamped
      BY <1>3 DEF FlushPending, RingInv, RingTypeOK
    <2>2. QED
      BY <1>3, <2>1, StoreOK DEF FlushPending
  <1>4. ASSUME NEW rec \in Imports, ImportRecord(rec) PROVE RingInv'
    <2>1. rec \in Stamped /\ ringOpen \in Stamped \union {NoFile}
      BY RingAssumption DEF RingInv, RingTypeOK
    <2>2. QED
      BY <1>4, <2>1, StoreOK DEF ImportRecord
  <1>5. CASE Seal
    BY <1>5, SealOK
  <1>6. CASE FirstScan
    <2>1. /\ ringPc = "idle" /\ Loaded
          /\ ringOrder' = IF Ascending(Logical) THEN "ordered" ELSE "unordered"
          /\ UNCHANGED <<ringFile, ringHead, ringLast, ringOpen, ringPc, ringKept, ringTorn>>
      BY <1>6 DEF FirstScan, Loaded
    <2>2. Ascending(Logical) <=> Settled(Logical, 1)
      <3>1. Len(Logical) \in Nat /\ DOMAIN Logical = 1 .. Len(Logical)
        BY <2>1, LoadedIs
      <3>2. QED
        BY <3>1, AscendingIs
    <2>3. ringOpen \in Stamped \union {NoFile}
      BY DEF RingInv, RingTypeOK
    <2>4. QED
      BY <2>1, <2>2, <2>3, QuietOK
  <1>7. CASE ClearRing
    BY <1>7, CreateOK DEF ClearRing
  <1>8. CASE BootRing
    BY <1>8, BootOK
  <1>9. CASE StartLoop \/ StageCopy
    <2>1. /\ ringPc = "setup" /\ Loaded /\ ringPc' \in {"idle", "rename"}
          /\ UNCHANGED <<ringFile, ringRam, ringKept, ringTorn>>
      BY <1>9 DEF StartLoop, StageCopy, Loaded
    <2>2. ringOpen \in Stamped \union {NoFile}
      BY DEF RingInv, RingTypeOK
    <2>3. QED
      BY <2>1, <2>2, QuietOK, OrderIsTrue DEF ringRam
  <1>10. CASE ActivateCopy
    <2>1. /\ ringPc = "rename" /\ Loaded /\ UNCHANGED <<ringRam, ringKept, ringTorn>>
      BY <1>10 DEF ActivateCopy, Loaded
    <2>2. CASE ringFile' = Blocks(ringStage) /\ ringPc' = "converted"
      <3>1. ~ IsRing(ringFile')
        BY <2>2, KindsOfFile
      <3>2. RingFileOK' /\ RingHeadOK' /\ RingOrderOK' /\ RingWriteOK' /\ RingFailOK'
        BY <2>2, <3>1 DEF RingFileOK, RingKeeps, RingHeadOK, RingOrderOK, RingWriteOK, RingFailOK, Loaded
      <3>3. RingTypeOK'
        BY <2>1, <2>2, <3>1 DEF RingInv, RingTypeOK, ringRam
      <3>4. QED
        BY <3>2, <3>3 DEF RingInv
    <2>3. CASE ringPc' = "idle" /\ UNCHANGED ringFile
      <3>1. ringOpen \in Stamped \union {NoFile}
        BY DEF RingInv, RingTypeOK
      <3>2. QED
        BY <2>1, <2>3, <3>1, QuietOK, OrderIsTrue DEF ringRam
    <2>4. QED
      BY <1>10, <2>2, <2>3 DEF ActivateCopy
  <1>11. CASE CutRing
    BY <1>11, CutOK
  <1>12. QED
    BY <1>1, <1>2, <1>3, <1>4, <1>5, <1>6, <1>7, <1>8, <1>9, <1>10, <1>11 DEF RingNext

LEMMA RingAlways == RingSpec => []RingInv
  <1>1. RingInit => RingInv
    BY RingStart
  <1>2. RingInv /\ [RingNext]_ringVars => RingInv'
    BY RingStep
  <1>3. QED
    BY <1>1, <1>2, PTL DEF RingSpec
\* The types of the legacy ring; while it is in use there is a ring file.
THEOREM RingTypes == RingSpec => []RingTypeOK
  <1>1. RingInv => RingTypeOK
    BY DEF RingInv
  <1>2. QED
    BY <1>1, RingAlways, PTL

\* Wherever a write fails or the power is cut, the tier can be read again, and
\* of what was acknowledged at most the oldest record of a full ring is missing.
THEOREM RecordsAreKept == RingSpec => []RingKeepsRecords
  <1>1. ASSUME RingInv PROVE RingKeepsRecords
    <2> DEFINE k == IF Len(ringKept) < RingSize THEN RingSize ELSE RingSize - 1
               owed == Newest(ringKept, k)
               T == Stamped \union {Spoiled}
    <2>1. ringPc = "failed" => ringTorn
      BY <1>1 DEF RingInv, RingFailOK
    <2>2. ASSUME ringPc \in {"setup", "idle"} PROVE Elements(Sound(owed)) \subseteq Elements(Logical)
      <3>1. /\ ringKept \in Seq(T) /\ Len(ringKept) = Len(Logical) /\ Len(Logical) \in 0 .. RingSize
            /\ DOMAIN Logical = 1 .. Len(Logical)
            /\ Reads(ringFile, Logical, ringKept, RingSize)
        BY <1>1, <2>2, LoadedIs DEF Loaded
      <3> DEFINE d == IF Len(ringKept) <= k THEN 0 ELSE Len(ringKept) - k
      <3>2. owed \in Seq(T) /\ Suffix(owed, ringKept, d)
        <4>1. k \in Nat
          BY RingConstants
        <4> HIDE DEF k, T
        <4>2. QED
          BY <3>1, <4>1, NewestElements
      <3>3. (d = 0 /\ Len(Logical) < RingSize) \/ (d = 1 /\ Len(Logical) = RingSize)
        <4>1. CASE Len(ringKept) < RingSize
          <5>1. d = 0
            BY <3>1, <4>1, RingConstants
          <5> HIDE DEF d
          <5>2. QED
            BY <3>1, <4>1, <5>1
        <4>2. CASE Len(ringKept) = RingSize
          <5>1. d = 1
            BY <4>2, RingConstants
          <5> HIDE DEF d
          <5>2. QED
            BY <3>1, <4>2, <5>1
        <4>3. QED
          BY <3>1, <4>1, <4>2, RingConstants
      <3> HIDE DEF d, owed, k
      <3>4. /\ Sound(owed) \in Seq(Stamped) /\ \E p : Picks(owed, Len(owed), Sound(owed), p)
        BY <3>2, SoundIs
      <3>5. PICK p : Picks(owed, Len(owed), Sound(owed), p)
        BY <3>4
      <3>6. ASSUME NEW i \in 1 .. Len(Sound(owed)) PROVE \E j \in DOMAIN Logical : Sound(owed)[i] = Logical[j]
        <4>1. p[i] \in 1 .. Len(owed) /\ Sound(owed)[i] = owed[p[i]] /\ i <= p[i]
          BY <3>5 DEF Picks
        <4>2. /\ Len(owed) = Len(Logical) - d /\ owed[p[i]] = ringKept[p[i] + d] /\ d \in {0, 1}
          BY <3>1, <3>2, <3>3, <4>1 DEF Suffix
        <4>3. p[i] + d \in 1 .. Len(Logical) /\ ~ (p[i] + d = 1 /\ Len(Logical) = RingSize)
          BY <3>1, <3>3, <4>1, <4>2
        <4>4. Logical[p[i] + d] = ringKept[p[i] + d]
          BY <3>1, <4>3 DEF Reads
        <4>5. QED
          BY <3>1, <4>1, <4>2, <4>3, <4>4
      <3>7. DOMAIN Sound(owed) = 1 .. Len(Sound(owed))
        BY <3>4
      <3>8. QED
        BY <3>6, <3>7 DEF Elements
    <2>3. QED
      BY <2>1, <2>2 DEF RingKeepsRecords
  <1>2. QED
    BY <1>1, RingAlways, PTL
-----------------------------------------------------------------------------
(***************************************************************************)
(* Queries.  LowerBound is recursive over pairs of positions; the distance *)
(* between them decreases.                                                 *)
(***************************************************************************)
Spans(n) == (0 .. n) \X (0 .. n)

SearchStep(recs, since, g, span) ==
  LET low == span[1]
      high == span[2]
      middle == low + (high - low) \div 2
  IN IF low >= high THEN low
     ELSE IF recs[middle + 1] = Spoiled THEN 0
     ELSE IF recs[middle + 1].t < since THEN g[<<middle + 1, high>>]
     ELSE g[<<low, middle>>]

Searches(recs, since, g, n, m) ==
  \A span \in Spans(n) : span[2] - span[1] <= m => g[span] = SearchStep(recs, since, g, span)

LEMMA Halves ==
  ASSUME NEW n \in Nat, NEW low \in 0 .. n, NEW high \in 0 .. n, low < high
  PROVE  LET middle == low + (high - low) \div 2 IN
         /\ middle \in low .. high - 1
         /\ <<middle + 1, high>> \in Spans(n) /\ <<low, middle>> \in Spans(n)
         /\ high - (middle + 1) < high - low /\ middle - low < high - low
         /\ high - (middle + 1) >= 0 /\ middle - low >= 0
  <1> DEFINE half == (high - low) \div 2
  <1>1. half \in 0 .. high - low - 1
    OBVIOUS
  <1> HIDE DEF half
  <1>2. low + half \in low .. high - 1
    BY <1>1
  <1>3. QED
    BY <1>2 DEF half, Spans

LEMMA SearchExtends ==
  ASSUME NEW recs, NEW since, NEW n \in Nat, NEW m \in Nat,
         NEW g, Searches(recs, since, g, n, m)
  PROVE  \E h : /\ h = [span \in Spans(n) |-> h[span]]
                /\ Searches(recs, since, h, n, m + 1)
  <1> DEFINE h == [span \in Spans(n) |-> IF span[2] - span[1] <= m THEN g[span]
                                         ELSE SearchStep(recs, since, g, span)]
  <1>1. ASSUME NEW span \in Spans(n), span[2] - span[1] <= m + 1
        PROVE  h[span] = SearchStep(recs, since, h, span)
    <2> DEFINE low == span[1]
               high == span[2]
               middle == low + (high - low) \div 2
    <2>1. low \in 0 .. n /\ high \in 0 .. n
      BY DEF Spans
    <2>2. h[span] = SearchStep(recs, since, g, span)
      BY <1>1 DEF Searches
    <2>3. SearchStep(recs, since, h, span) = SearchStep(recs, since, g, span)
      <3>1. CASE low >= high
        BY <3>1 DEF SearchStep
      <3>2. CASE low < high
        <4>1. /\ <<middle + 1, high>> \in Spans(n) /\ <<low, middle>> \in Spans(n)
              /\ high - (middle + 1) < high - low /\ middle - low < high - low
              /\ middle \in Int
          BY <2>1, <3>2, Halves
        <4>2. high - (middle + 1) <= m /\ middle - low <= m
          BY <1>1, <2>1, <3>2, <4>1
        <4> HIDE DEF middle
        <4>3. h[<<middle + 1, high>>] = g[<<middle + 1, high>>] /\ h[<<low, middle>>] = g[<<low, middle>>]
          BY <4>1, <4>2
        <4> HIDE DEF h
        <4>4. QED
          BY <4>3, Zenon DEF SearchStep, middle
      <3>3. QED
        BY <2>1, <3>1, <3>2
    <2>4. QED
      BY <2>2, <2>3, Zenon
  <1>2. h = [span \in Spans(n) |-> h[span]]
    OBVIOUS
  <1>3. Searches(recs, since, h, n, m + 1)
    <2> HIDE DEF h
    <2>1. QED
      BY <1>1, Zenon DEF Searches
  <1>4. QED
    BY <1>2, <1>3, Zenon
SearchUpTo(recs, since, g, n, m) ==
  g = [span \in Spans(n) |-> g[span]] /\ Searches(recs, since, g, n, m)

LEMMA SearchRecursion ==
  ASSUME NEW recs, NEW since, Len(recs) \in Nat
  PROVE  \E g : /\ \A span \in Spans(Len(recs)) : g[span] = SearchStep(recs, since, g, span)
                /\ LowerBound(recs, since) = g[<<0, Len(recs)>>]
  <1> DEFINE n == Len(recs)
             Bad == {m \in 0 .. n : ~ \E g : SearchUpTo(recs, since, g, n, m)}
  <1>1. ASSUME Bad # {} PROVE FALSE
    <2>1. Bad \in SUBSET (0 .. n)
      BY Zenon
    <2>2. PICK m \in Bad : \A k \in Bad : m <= k
      <3> HIDE DEF Bad
      <3>1. QED
        BY <1>1, <2>1, LeastExists
    <2>3. CASE m = 0
      <3> DEFINE h == [span \in Spans(n) |-> span[1]]
      <3>1. ASSUME NEW span \in Spans(n), span[2] - span[1] <= 0
            PROVE  h[span] = SearchStep(recs, since, h, span)
        <4>1. span[1] \in 0 .. n /\ span[2] \in 0 .. n
          BY DEF Spans
        <4>2. span[1] >= span[2]
          BY <3>1, <4>1
        <4>3. QED
          BY <4>2 DEF SearchStep
      <3>2. h = [span \in Spans(n) |-> h[span]]
        OBVIOUS
      <3>3. SearchUpTo(recs, since, h, n, 0)
        <4> HIDE DEF h
        <4>1. QED
          BY <3>1, <3>2, Zenon DEF SearchUpTo, Searches
      <3>4. QED
        BY <2>2, <2>3, <3>3, Zenon
    <2>4. CASE m # 0
      <3>1. m - 1 \in Nat /\ m = (m - 1) + 1 /\ m - 1 \in 0 .. n /\ m - 1 \notin Bad
        <4> HIDE DEF Bad
        <4>1. QED
          BY <2>1, <2>2, <2>4
      <3>2. PICK g : SearchUpTo(recs, since, g, n, m - 1)
        BY <3>1, Zenon
      <3> DEFINE l == m - 1
      <3>3. l \in Nat /\ Searches(recs, since, g, n, l)
        BY <3>1, <3>2, Zenon DEF SearchUpTo
      <3> HIDE DEF l
      <3>4. \E h : h = [span \in Spans(n) |-> h[span]] /\ Searches(recs, since, h, n, l + 1)
        BY <3>3, SearchExtends
      <3>5. l + 1 = m
        BY <3>1 DEF l
      <3>6. \E h : SearchUpTo(recs, since, h, n, m)
        BY <3>4, <3>5, Zenon DEF SearchUpTo
      <3>7. QED
        BY <2>2, <3>6, Zenon
    <2>5. QED
      BY <2>3, <2>4
  <1>2. n \in 0 .. n
    OBVIOUS
  <1>3. PICK g : SearchUpTo(recs, since, g, n, n)
    BY <1>1, <1>2, Zenon
  <1>4. \A span \in Spans(n) : span[2] - span[1] <= n
    BY DEF Spans
  <1>5. \A span \in Spans(n) : g[span] = SearchStep(recs, since, g, span)
    BY <1>3, <1>4, Zenon DEF SearchUpTo, Searches
  <1>6. g = [span \in Spans(n) |-> SearchStep(recs, since, g, span)]
    <2> DEFINE copy == [span \in Spans(n) |-> g[span]]
               step == [span \in Spans(n) |-> SearchStep(recs, since, g, span)]
    <2>1. g = copy
      BY <1>3, Zenon DEF SearchUpTo
    <2>2. copy = step
      BY <1>5, Zenon
    <2>3. QED
      BY <2>1, <2>2, Zenon
  <1> DEFINE f == CHOOSE h : h = [span \in Spans(n) |-> SearchStep(recs, since, h, span)]
  <1>7. f = [span \in Spans(n) |-> SearchStep(recs, since, f, span)]
    BY <1>6, Zenon
  <1>8. LowerBound(recs, since) = f[<<0, n>>]
    BY Zenon DEF LowerBound, SearchStep, Spans
  <1>9. \A span \in Spans(n) : f[span] = SearchStep(recs, since, f, span)
    <2> HIDE DEF f
    <2>1. QED
      BY <1>7, Zenon
  <1>10. QED
    BY <1>8, <1>9, Zenon

\* In an ordered ring neighbours and all others are in order.
LEMMA OrderedPairs ==
  ASSUME NEW recs \in Seq(Stamped \union {Spoiled}), Settled(recs, 1),
         NEW i \in 1 .. Len(recs), NEW j \in 1 .. Len(recs), i <= j
  PROVE  recs[i].t <= recs[j].t
  <1> DEFINE n == Len(recs)
             Bad == {k \in i .. n : ~ (recs[i].t <= recs[k].t)}
  <1>1. /\ n \in Nat /\ i \in 1 .. n
        /\ \A k \in 1 .. n : recs[k].t \in Int
        /\ \A k \in 1 .. n - 1 : recs[k].t <= recs[k + 1].t
    BY RingConstants DEF Settled, Stamped
  <1>2. ASSUME Bad # {} PROVE FALSE
    <2>1. Bad \in SUBSET Nat
      BY <1>1
    <2>2. PICK m \in Bad : \A k \in Bad : m <= k
      <3> HIDE DEF Bad
      <3>1. QED
        BY <1>2, <2>1, LeastExists
    <2>3. m \in i .. n /\ ~ (recs[i].t <= recs[m].t)
      BY <2>2
    <2>4. m # i
      BY <1>1, <2>3
    <2>5. m - 1 \in i .. n /\ m - 1 \notin Bad /\ m - 1 \in 1 .. n - 1
      <3>1. m - 1 \in i .. n /\ m - 1 \in 1 .. n - 1
        BY <1>1, <2>3, <2>4
      <3>2. m - 1 \notin Bad
        <4> HIDE DEF Bad
        <4>1. QED
          BY <2>1, <2>2, <2>3
      <3>3. QED
        BY <3>1, <3>2
    <2>6. recs[i].t <= recs[m - 1].t
      BY <2>5
    <2> DEFINE l == m - 1
    <2>7. l \in 1 .. n - 1 /\ l + 1 = m /\ recs[i].t <= recs[l].t
      BY <1>1, <2>3, <2>5, <2>6
    <2> HIDE DEF l, Bad
    <2>8. recs[l].t <= recs[m].t /\ recs[l].t \in Int /\ recs[m].t \in Int /\ recs[i].t \in Int
      BY <1>1, <2>3, <2>7
    <2>9. QED
      BY <2>3, <2>7, <2>8
  <1>3. j \in i .. n
    BY <1>1
  <1>4. QED
    BY <1>2, <1>3, Zenon
\* The records up to low are before since, those after high are not.
Between(recs, since, low, high) ==
  /\ \A i \in 1 .. low : recs[i].t < since
  /\ \A i \in high + 1 .. Len(recs) : ~ (recs[i].t < since)

Found(recs, since, r) == r \in 0 .. Len(recs) /\ Between(recs, since, r, r)

LEMMA LowerBoundIs ==
  ASSUME NEW recs \in Seq(Stamped \union {Spoiled}), Settled(recs, 1), NEW since \in Int
  PROVE  Found(recs, since, LowerBound(recs, since))
  <1> DEFINE n == Len(recs)
  <1>1. n \in Nat /\ \A i \in 1 .. n : recs[i] # Spoiled /\ recs[i].t \in Int
    BY RingConstants DEF Settled, Stamped
  <1>2. PICK g : /\ \A span \in Spans(n) : g[span] = SearchStep(recs, since, g, span)
                 /\ LowerBound(recs, since) = g[<<0, n>>]
    BY <1>1, SearchRecursion, Zenon
  <1> DEFINE Good(m) == \A low, high \in 0 .. n :
               low <= high /\ high - low = m /\ Between(recs, since, low, high)
                 => Found(recs, since, g[<<low, high>>])
             Bad == {m \in 0 .. n : ~ Good(m)}
  <1>3. ASSUME Bad # {} PROVE FALSE
    <2>1. Bad \in SUBSET (0 .. n)
      BY Zenon
    <2>2. PICK m \in Bad : \A k \in Bad : m <= k
      <3> HIDE DEF Bad
      <3>1. QED
        BY <1>3, <2>1, LeastExists
    <2>3. \A k \in 0 .. m - 1 : Good(k)
      <3>1. ASSUME NEW k \in 0 .. m - 1 PROVE k \in 0 .. n /\ k \notin Bad
        <4> HIDE DEF Bad
        <4>1. QED
          BY <1>1, <2>1, <2>2, <3>1
      <3>2. QED
        BY <3>1, Zenon
    <2>4. ASSUME NEW low \in 0 .. n, NEW high \in 0 .. n,
                 low <= high, high - low = m, Between(recs, since, low, high)
          PROVE  Found(recs, since, g[<<low, high>>])
      <3> DEFINE middle == low + (high - low) \div 2
                 span == <<low, high>>
      <3>1. span \in Spans(n) /\ span[1] = low /\ span[2] = high
        BY DEF Spans
      <3>2. g[span] = SearchStep(recs, since, g, span)
        BY <1>2, <3>1, Zenon
      <3>3. CASE low >= high
        <4>1. g[span] = low /\ low = high
          BY <2>4, <3>1, <3>2, <3>3 DEF SearchStep
        <4> HIDE DEF span
        <4>2. Found(recs, since, low)
          BY <2>4, <4>1 DEF Found
        <4>3. QED
          BY <4>1, <4>2, Zenon DEF span
      <3>4. CASE low < high
        <4>1. /\ middle \in low .. high - 1
              /\ high - (middle + 1) < high - low /\ middle - low < high - low
              /\ high - (middle + 1) >= 0 /\ middle - low >= 0
          BY <1>1, <3>4, Halves
        <4>2. g[span] = IF recs[middle + 1] = Spoiled THEN 0
                        ELSE IF recs[middle + 1].t < since THEN g[<<middle + 1, high>>]
                        ELSE g[<<low, middle>>]
          BY <3>1, <3>2, <3>4 DEF SearchStep
        <4> HIDE DEF middle, span
        <4>3. middle + 1 \in 1 .. n /\ recs[middle + 1] # Spoiled /\ middle \in Int
          BY <1>1, <4>1
        <4>4. CASE recs[middle + 1].t < since
          <5>1. ASSUME NEW i \in 1 .. middle + 1 PROVE recs[i].t < since
            <6> DEFINE l == middle + 1
            <6>1. l \in 1 .. n /\ i \in 1 .. n /\ i <= l
              BY <1>1, <4>3
            <6> HIDE DEF l
            <6>2. recs[i].t <= recs[l].t
              BY <6>1, OrderedPairs
            <6>3. i \in 1 .. n /\ recs[i].t <= recs[middle + 1].t
              BY <6>1, <6>2 DEF l
            <6>4. QED
              BY <1>1, <4>3, <4>4, <6>3
          <5>2. Between(recs, since, middle + 1, high)
            BY <2>4, <5>1 DEF Between
          <5>3. /\ middle + 1 \in 0 .. n /\ middle + 1 <= high /\ high - (middle + 1) \in 0 .. m - 1
            BY <1>1, <2>4, <4>1, <4>3
          <5>4. Found(recs, since, g[<<middle + 1, high>>])
            <6>1. Good(high - (middle + 1))
              BY <2>3, <5>3, Zenon
            <6>2. QED
              BY <5>2, <5>3, <6>1, Zenon
          <5>5. QED
            BY <4>2, <4>3, <4>4, <5>4, Zenon DEF span
        <4>5. CASE ~ (recs[middle + 1].t < since)
          <5>1. ASSUME NEW i \in middle + 1 .. n PROVE ~ (recs[i].t < since)
            <6>1. i \in 1 .. n /\ recs[middle + 1].t <= recs[i].t
              BY <1>1, <4>3, OrderedPairs
            <6>2. QED
              BY <1>1, <4>3, <4>5, <6>1
          <5>2. Between(recs, since, low, middle)
            BY <2>4, <5>1 DEF Between
          <5>3. middle \in 0 .. n /\ low <= middle /\ middle - low \in 0 .. m - 1
            BY <1>1, <2>4, <4>1, <4>3
          <5>4. Found(recs, since, g[<<low, middle>>])
            <6>1. Good(middle - low)
              BY <2>3, <5>3, Zenon
            <6>2. QED
              BY <5>2, <5>3, <6>1, Zenon
          <5>5. QED
            BY <4>2, <4>3, <4>5, <5>4, Zenon DEF span
        <4>6. QED
          BY <4>4, <4>5
      <3>5. QED
        BY <3>3, <3>4
    <2>5. Good(m)
      BY <2>4, Zenon
    <2>6. QED
      BY <2>2, <2>5, Zenon
  <1>4. Good(n)
    <2>1. n \in 0 .. n
      BY <1>1
    <2>2. QED
      BY <1>3, <2>1, Zenon
  <1>5. /\ 0 \in 0 .. n /\ n \in 0 .. n /\ 0 <= n /\ n - 0 = n
        /\ Between(recs, since, 0, n)
    BY <1>1 DEF Between
  <1>6. Found(recs, since, g[<<0, n>>])
    BY <1>4, <1>5, Zenon
  <1>7. QED
    BY <1>2, <1>6, Zenon

\* The early start and the early stop leave out nothing.
LEMMA ForEachIs ==
  ASSUME NEW recs \in Seq(Stamped \union {Spoiled}), NEW order, NEW since \in Nat, NEW until \in Nat,
         order = "ordered" => Settled(recs, 1)
  PROVE  ForEach(recs, order, since, until) = {i \in DOMAIN recs : InRange(recs[i], since, until)}
  <1> DEFINE n == Len(recs)
             low == IF order = "ordered" /\ since # 0 THEN LowerBound(recs, since) ELSE 0
             beyond == {i \in low + 1 .. n : recs[i] # Spoiled /\ recs[i].t > until}
             stop == IF order = "ordered" /\ beyond # {}
                     THEN (CHOOSE i \in beyond : \A j \in beyond : i <= j) - 1 ELSE n
  <1>1. n \in Nat /\ DOMAIN recs = 1 .. n
        /\ \A i \in 1 .. n : recs[i] # Spoiled => recs[i].t \in Int
    BY RingConstants DEF Stamped
  <1>2. low \in 0 .. n /\ \A i \in 1 .. low : ~ InRange(recs[i], since, until)
    <2>1. CASE order = "ordered" /\ since # 0
      <3>1. Found(recs, since, low)
        BY <2>1, LowerBoundIs
      <3> HIDE DEF low
      <3>2. low \in 0 .. n /\ \A i \in 1 .. low : recs[i].t < since
        BY <3>1 DEF Found, Between
      <3>3. ASSUME NEW i \in 1 .. low PROVE ~ InRange(recs[i], since, until)
        <4>1. recs[i] # Spoiled /\ recs[i].t \in Int /\ recs[i].t < since
          BY <1>1, <2>1, <3>2 DEF Settled
        <4>2. QED
          BY <4>1 DEF InRange
      <3>4. QED
        BY <3>2, <3>3
    <2>2. CASE ~ (order = "ordered" /\ since # 0)
      <3>1. low = 0
        BY <2>2
      <3> HIDE DEF low
      <3>2. QED
        BY <1>1, <3>1
    <2>3. QED
      BY <2>1, <2>2
  <1> HIDE DEF low
  <1>3. stop \in low .. n /\ \A i \in stop + 1 .. n : ~ InRange(recs[i], since, until)
    <2>1. CASE order = "ordered" /\ beyond # {}
      <3>1. beyond \in SUBSET Nat
        BY <1>1, <1>2
      <3> DEFINE b == CHOOSE i \in beyond : \A j \in beyond : i <= j
      <3>2. b \in beyond /\ \A j \in beyond : b <= j
        <4> HIDE DEF beyond
        <4>1. \E i \in beyond : \A j \in beyond : i <= j
          BY <2>1, <3>1, LeastExists
        <4>2. QED
          BY <4>1, Zenon
      <3>3. stop = b - 1
        BY <2>1
      <3> HIDE DEF b
      <3>4. b \in low + 1 .. n /\ recs[b].t > until /\ recs[b] # Spoiled
        BY <3>2
      <3>5. ASSUME NEW i \in b .. n PROVE ~ InRange(recs[i], since, until)
        <4>1. recs[b].t <= recs[i].t /\ i \in 1 .. n /\ b \in 1 .. n
          BY <1>1, <1>2, <2>1, <3>4, OrderedPairs
        <4>2. recs[i] # Spoiled
          BY <2>1, <4>1 DEF Settled
        <4>3. recs[i].t \in Int /\ recs[b].t \in Int
          BY <1>1, <3>4, <4>1, <4>2
        <4>4. QED
          BY <3>4, <4>1, <4>3 DEF InRange
      <3> HIDE DEF stop
      <3>6. stop \in low .. n /\ stop + 1 = b
        BY <1>1, <1>2, <3>3, <3>4
      <3>7. QED
        BY <3>5, <3>6
    <2>2. CASE ~ (order = "ordered" /\ beyond # {})
      <3>1. stop = n
        BY <2>2
      <3> HIDE DEF stop
      <3>2. QED
        BY <1>1, <1>2, <3>1
    <2>3. QED
      BY <2>1, <2>2
  <1>4. ForEach(recs, order, since, until) = {i \in low + 1 .. stop : InRange(recs[i], since, until)}
    BY Zenon DEF ForEach, low
  <1> HIDE DEF stop
  <1>5. \A i : i \in 1 .. n /\ InRange(recs[i], since, until) => i \in low + 1 .. stop
    BY <1>1, <1>2, <1>3
  <1>6. \A i : i \in low + 1 .. stop => i \in 1 .. n
    BY <1>1, <1>2, <1>3
  <1>7. QED
    BY <1>1, <1>4, <1>5, <1>6

\* A query returns every sound record of its range, whatever is cached about
\* the order: it is cached as sorted only when it is, after failed writes and on
\* rings an older firmware left unsorted alike.
THEOREM QueriesAreExact == RingSpec => []QueryExact
  <1>1. ASSUME RingInv PROVE QueryExact
    <2>1. SUFFICES ASSUME ringPc = "idle", NEW since \in 0 .. RingTime, NEW until \in 0 .. RingTime
                   PROVE  ForEach(Logical, ringOrder, since, until) =
                            {i \in DOMAIN Logical : InRange(Logical[i], since, until)}
      BY DEF QueryExact
    <2>2. Loaded
      BY <2>1 DEF Loaded
    <2>3. Logical \in Seq(Stamped \union {Spoiled}) /\ (ringOrder = "ordered" => Settled(Logical, 1))
      BY <1>1, <2>1, <2>2, LoadedIs, OrderIsTrue
    <2>4. since \in Nat /\ until \in Nat
      BY RingConstants
    <2>5. QED
      BY <2>3, <2>4, ForEachIs
  <1>2. QED
    BY <1>1, RingAlways, PTL
=============================================================================
