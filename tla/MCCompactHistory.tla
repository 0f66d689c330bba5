-------------------------- MODULE MCCompactHistory --------------------------
(***************************************************************************)
(* Small instances of CompactHistory: blocks of two records, rings of two, *)
(* and every file of up to four blocks the conversion can leave behind.    *)
(***************************************************************************)
EXTENDS CompactHistory

CONSTANT ArchiveTime, ArchiveBlocks

MCBlock ==
  UNION {{[start |-> s, recs |-> {s}], [start |-> s, recs |-> {s, s + 1}]} :
           s \in 1 .. ArchiveTime - 1}

MCCapacity == [t \in Tier |-> 2]
MCLegacy == [t \in Tier |-> IF t = "five" THEN 2 ELSE 4]
\* 24 blocks of the minute ring are its limit; 139 of the hour ring are one more.
MCKeep == [t \in Tier |-> IF t = "hour" THEN 3 ELSE 2]

Converted(t, lengths) ==
  {f \in UNION {[1 .. n -> MCBlock] : n \in lengths} : Staged(f, MCLegacy[t])}

Fresh == <<[start |-> 0, recs |-> {}]>>

\* One tier converted from a file of any shape, the others just begun.
MCHistories(lengths) ==
  UNION {{[u \in Tier |-> IF u = t THEN f ELSE Fresh] : f \in Converted(t, lengths)} : t \in Tier}

MCArchive == {[t \in Tier |-> Fresh]} \union MCHistories(1 .. ArchiveBlocks)

\* Minute and hour tier longer than their rings, and promotion nearly done.
Recent == <<[start |-> ArchiveTime - 4, recs |-> {ArchiveTime - 3}],
            [start |-> ArchiveTime - 2, recs |-> {ArchiveTime - 2}]>>

MCFullArchive ==
  {[t \in Tier |-> IF t = "minute" THEN m ELSE IF t = "hour" THEN h ELSE Recent] :
     m \in Converted("minute", {ArchiveBlocks}), h \in Converted("hour", {ArchiveBlocks})}
=============================================================================
