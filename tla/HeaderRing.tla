----------------------------- MODULE HeaderRing -----------------------------
(***************************************************************************)
(* A ring file behind two header copies: the layout that the legacy        *)
(* history (HistoryStore.cpp) and the event log (EventLog.cpp) share.      *)
(* A record is written to its slot first, then the next header over the    *)
(* older copy; a reader takes the valid copy of the newer generation.      *)
(* Generations are counted modulo Span and compared by signed difference,  *)
(* as the code does with its 32-bit counter.                               *)
(***************************************************************************)
EXTENDS Integers, Sequences

CONSTANTS
  Span,    \* generations are counted modulo Span (2^32 in the code)
  NoFile,  \* the file does not exist
  Spoiled  \* a header copy or a record that fails its validity check

ASSUME SpanAssumption == Span \in Nat /\ Span >= 4 /\ Span % 2 = 0

Headers(size) == [write : 0 .. size - 1, count : 0 .. size, gen : 0 .. Span - 1]

\* The files behind such headers, with the given records.
RingFiles(size, records) ==
  [copies : [1 .. 2 -> Headers(size) \union {Spoiled}], slots : Seq(records \union {Spoiled})]

EmptyHeader == [write |-> 0, count |-> 0, gen |-> 0]

EmptyRing == [copies |-> <<EmptyHeader, EmptyHeader>>, slots |-> <<>>]

\* What a creation that was interrupted may leave: a file without a valid header.
TornRing == [copies |-> <<Spoiled, Spoiled>>, slots |-> <<>>]

NotOlder(a, b) == (a.gen - b.gen) % Span < Span \div 2

Readable(file) == file.copies[1] # Spoiled \/ file.copies[2] # Spoiled

NewestHeader(file) ==
  LET a == file.copies[1]
      b == file.copies[2]
  IN IF a = Spoiled THEN b
     ELSE IF b = Spoiled \/ NotOlder(a, b) THEN a ELSE b

LongEnough(file, header) == Len(file.slots) >= header.count

NextHeader(header, size) ==
  [write |-> (header.write + 1) % size,
   count |-> IF header.count < size THEN header.count + 1 ELSE size,
   gen |-> (header.gen + 1) % Span]

\* Mutant: every header goes over the same copy.
CopyAlways(header) == 1

\* The copy a header is written to.
CopyOf(header) == (header.gen % 2) + 1

\* A file as its writes leave it: the newest header where its generation puts
\* it, beside its predecessor, its twin of the creation, or a copy a power cut
\* has spoiled; its records are there.
Written(file, size) ==
  LET header == NewestHeader(file)
      other == file.copies[3 - CopyOf(header)]
  IN /\ header # Spoiled /\ header = file.copies[CopyOf(header)]
     /\ header.count = size \/ header.write = header.count
     /\ \/ other = Spoiled
        \/ header = EmptyHeader /\ other = EmptyHeader
        \/ header.gen = (other.gen + 1) % Span
     /\ LongEnough(file, header) /\ Len(file.slots) <= size

PutSlot(slots, i, rec) ==
  IF i >= Len(slots) THEN Append(slots, rec) ELSE [slots EXCEPT ![i + 1] = rec]

\* The records of a ring from the oldest to the newest.
InOrder(slots, header, size) ==
  LET first == IF header.count < size THEN 0 ELSE header.write
  IN [i \in 1 .. header.count |-> slots[((first + i - 1) % size) + 1]]

\* Those that pass their check, in the same order.
Sound(recs) ==
  LET sound[n \in 0 .. Len(recs)] ==
        IF n = 0 THEN <<>>
        ELSE IF recs[n] = Spoiled THEN sound[n - 1] ELSE Append(sound[n - 1], recs[n])
  IN sound[Len(recs)]

\* The last k elements, or all when there are fewer.
Newest(s, k) == IF Len(s) <= k THEN s ELSE SubSeq(s, Len(s) - k + 1, Len(s))
=============================================================================
