------------------------------ MODULE SmlParser ------------------------------
(***************************************************************************)
(* The SML parser (meter/SmlParser.cpp): it finds frames in the bytes of   *)
(* the meter, checks them and decodes them twice, by the method that was   *)
(* always used and in one pass, until the second has proved itself.        *)
(* A token is a byte of the framing, or an item of the payload: an OBIS    *)
(* code, a number, or a list tag.  The checksum is ideal: it tells every   *)
(* two frames apart.                                                       *)
(***************************************************************************)
EXTENDS Integers, Sequences, FiniteSetsExt

CONSTANTS
  SmlGroups,    \* readings: power, energy, power of a phase ...
  SmlSome,      \* telegrams a meter mixes while the line has faults
  SmlAll,       \* telegrams a meter repeats on a line without faults
  SmlSpan,      \* items that are searched behind a code (52 bytes)
  MaxSml,       \* kMaximumFrame
  SmlQualify,   \* kQualificationFrames
  SmlSentinel,  \* kSentinelInterval
  SmlFaultLimit \* bound on the faults of the line and on outside resets

ASSUME SmlAssumption ==
  /\ SmlSpan \in Nat \ {0}
  /\ MaxSml \in Nat /\ MaxSml >= 8   \* the start of a frame fits
  /\ SmlQualify \in Nat \ {0} /\ SmlSentinel \in Nat \ {0} /\ SmlFaultLimit \in Nat

\* The meter's telegrams hold items only, and their frames fit the buffer.
IsTelegram(t) ==
  /\ t \in Seq({t[i] : i \in 1 .. Len(t)})
  /\ \A i \in 1 .. Len(t) : t[i].kind \in {"code", "num", "list"}
  /\ Len(t) + 16 <= MaxSml

ASSUME TelegramAssumption == \A t \in SmlSome \union SmlAll : IsTelegram(t)

VARIABLES
  smlSends,     \* the telegrams this meter sends
  smlWire,      \* what is still to come of the frame being sent
  smlWhole,     \* nothing has happened to the frame being sent
  smlRun,       \* 0, 1 or 2: frames in a row to which nothing happened
  smlFaults,
  smlBuffer,    \* frame_
  smlMatched,   \* startMatched_
  smlCapturing, \* capturing_
  smlTrailer,   \* trailerRemaining_
  smlMatches,   \* qualificationMatches_
  smlCountdown, \* sentinelCountdown_
  smlQualified, \* onePassQualified_
  smlLatched,   \* legacyFallbackLatched_
  smlResult     \* what the last byte reported

lineVars == <<smlSends, smlWire, smlWhole, smlRun, smlFaults>>
checkVars == <<smlMatches, smlCountdown, smlQualified, smlLatched>>
smlVars == <<lineVars, smlBuffer, smlMatched, smlCapturing, smlTrailer, checkVars, smlResult>>
-----------------------------------------------------------------------------
Tok(kind) == [kind |-> kind]
Escape == Tok("escape")
Code(group, part) == [kind |-> "code", group |-> group, part |-> part]
Num(value) == [kind |-> "num", value |-> value]

Four(t) == <<t, t, t, t>>
SmlStart == Four(Escape) \o Four(Tok("one"))
SmlEnd == Append(Four(Escape), Tok("end"))

\* smlCrc16(), as an ideal checksum.
Crc(tokens) == [kind |-> "crc", of |-> tokens]

CrcOk(frame) ==
  LET checked == SubSeq(frame, 1, Len(frame) - 2)
  IN frame[Len(frame) - 1] = Crc(checked) /\ frame[Len(frame)] = Crc(checked)

\* What the meter sends for a telegram.
Encode(telegram) ==
  LET checked == Append(SmlStart \o telegram \o SmlEnd, Tok("fill"))
  IN checked \o <<Crc(checked), Crc(checked)>>
-----------------------------------------------------------------------------
NoValue == <<>>

\* The numbers decodeLegacyWindow() looks at behind the code at position i: up
\* to a list tag that does not follow the code directly.
Numbers(data, i) ==
  LET limit == Min({Len(data), i + SmlSpan})
      tags == {p \in i + 2 .. limit : data[p].kind = "list"}
      end == IF tags = {} THEN limit ELSE Min(tags) - 1
  IN SelectSeq(SubSeq(data, i + 1, end), LAMBDA x : x.kind = "num")

\* Its value: the last number, times the power of ten before it.
Decoded(data, i) ==
  LET n == Numbers(data, i)
      k == Len(n)
  IN IF k = 0 THEN NoValue
     ELSE IF k > 1 /\ n[k - 1].value \in -9 .. 9 THEN <<n[k - 1].value, n[k].value>>
     ELSE <<0, n[k].value>>

\* Mutant: the first place of a code counts, whether or not it can be decoded.
CaptureFirst(data) ==
  {<<data[i], Decoded(data, i)>> :
     i \in {k \in 1 .. Len(data) : data[k].kind = "code" /\ \A n \in 1 .. k - 1 : data[n] # data[k]}}

\* captureOnePass(): one walk through the frame, filling the slots still empty.
CaptureOnePass(data) ==
  LET found[i \in 0 .. Len(data)] ==
        IF i = 0 THEN {}
        ELSE LET before == found[i - 1]
             IN IF /\ data[i].kind = "code" /\ Decoded(data, i) # NoValue
                   /\ \A slot \in before : slot[1] # data[i]
                THEN before \union {<<data[i], Decoded(data, i)>>} ELSE before
  IN found[Len(data)]

\* applyCaptured(): the total, or what its parts amount to.
OnePass(data) ==
  LET captured == CaptureOnePass(data)
      Value(code) == LET at == {slot \in captured : slot[1] = code}
                     IN IF at = {} THEN NoValue ELSE (CHOOSE slot \in at : TRUE)[2]
  IN [g \in SmlGroups |->
       IF Value(Code(g, "total")) # NoValue THEN <<Value(Code(g, "total"))>>
       ELSE IF \A p \in {"first", "second"} : Value(Code(g, p)) = NoValue THEN NoValue
       ELSE <<Value(Code(g, "first")), Value(Code(g, "second"))>>]

\* extractObis(): the first place of a code where it can be decoded.
ExtractObis(data, code) ==
  LET at == {i \in 1 .. Len(data) : data[i] = code /\ Decoded(data, i) # NoValue}
  IN IF at = {} THEN NoValue ELSE Decoded(data, Min(at))

\* parseLegacy()
Legacy(data) ==
  [g \in SmlGroups |->
    IF ExtractObis(data, Code(g, "total")) # NoValue THEN <<ExtractObis(data, Code(g, "total"))>>
    ELSE IF \A p \in {"first", "second"} : ExtractObis(data, Code(g, p)) = NoValue THEN NoValue
    ELSE <<ExtractObis(data, Code(g, "first")), ExtractObis(data, Code(g, "second"))>>]

Finds(values) == \E g \in SmlGroups : values[g] # NoValue

Report(values) == [status |-> IF Finds(values) THEN "valid" ELSE "invalid", values |-> values]
Status(status) == [status |-> status, values |-> [g \in SmlGroups |-> NoValue]]
-----------------------------------------------------------------------------
\* reset(), but for frame_, which the next start fills anew.
ResetParser ==
  /\ smlBuffer' = <<>> /\ smlMatched' = 0 /\ smlCapturing' = FALSE /\ smlTrailer' = 0
  /\ smlMatches' = 0 /\ smlCountdown' = SmlSentinel
  /\ smlQualified' = FALSE /\ smlLatched' = FALSE

\* The parser compares the two methods for every frame until it is qualified,
\* then for every frame at which the count-down ends.
Compared == ~smlQualified \/ smlCountdown = 1

\* parseFrame()
ParseFrame(frame) ==
  \/ /\ ~CrcOk(frame)
     /\ smlResult' = Status("integrity") /\ UNCHANGED checkVars
  \/ /\ CrcOk(frame) /\ smlLatched
     /\ smlResult' = Report(Legacy(frame)) /\ UNCHANGED checkVars
  \/ /\ CrcOk(frame) /\ ~smlLatched /\ Compared /\ Legacy(frame) # OnePass(frame)
     /\ smlLatched' = TRUE
     /\ smlCountdown' = IF smlQualified THEN SmlSentinel ELSE smlCountdown
     /\ smlResult' = Report(Legacy(frame)) /\ UNCHANGED <<smlMatches, smlQualified>>
  \/ /\ CrcOk(frame) /\ ~smlLatched /\ ~smlQualified /\ Legacy(frame) = OnePass(frame)
     /\ smlMatches' = IF Finds(Legacy(frame)) THEN smlMatches + 1 ELSE smlMatches
     /\ smlQualified' = (smlMatches' = SmlQualify)
     /\ smlResult' = Report(Legacy(frame)) /\ UNCHANGED <<smlCountdown, smlLatched>>
  \/ /\ CrcOk(frame) /\ ~smlLatched /\ smlQualified
     /\ Compared => Legacy(frame) = OnePass(frame)
     /\ smlCountdown' = IF Compared THEN SmlSentinel ELSE smlCountdown - 1
     /\ smlResult' = Report(OnePass(frame)) /\ UNCHANGED <<smlMatches, smlQualified, smlLatched>>

\* Looking for the start of a frame: after a byte that does not fit, the search
\* starts again, with this byte when it is the first of a start.
SeekStart(byte) ==
  LET fits == byte = SmlStart[smlMatched + 1]
      whole == fits /\ smlMatched + 1 = Len(SmlStart)
  IN /\ smlMatched' = IF whole THEN 0 ELSE IF fits THEN smlMatched + 1
                      ELSE IF byte = SmlStart[1] THEN 1 ELSE 0
     /\ smlBuffer' = IF whole THEN SmlStart ELSE smlBuffer
     /\ smlCapturing' = whole
     /\ smlResult' = Status("none")
     /\ UNCHANGED <<smlTrailer, checkVars>>

EndsIn(tokens, tail) ==
  Len(tokens) >= Len(tail) /\ SubSeq(tokens, Len(tokens) - Len(tail) + 1, Len(tokens)) = tail

Capture(byte) ==
  LET grown == Append(smlBuffer, byte)
  IN /\ smlBuffer' = grown
     /\ \/ /\ smlTrailer = 1
           /\ smlTrailer' = 0 /\ smlCapturing' = FALSE /\ ParseFrame(grown)
        \/ /\ smlTrailer # 1
           /\ smlTrailer' = IF smlTrailer > 1 THEN smlTrailer - 1
                            ELSE IF EndsIn(grown, SmlEnd) THEN 3 ELSE 0
           /\ smlResult' = Status("none") /\ UNCHANGED <<smlCapturing, checkVars>>
     /\ UNCHANGED smlMatched

\* Mutant: more bytes are refused, and the frame that is too long is kept.
RefuseBytes ==
  /\ smlResult' = Status("invalid")
  /\ UNCHANGED <<smlBuffer, smlMatched, smlCapturing, smlTrailer, checkVars>>

\* A frame that grows beyond the maximum takes the whole parser back.
DropFrame == ResetParser /\ smlResult' = Status("invalid")

\* consumeByte()
ConsumeByte(byte) ==
  \/ ~smlCapturing /\ SeekStart(byte)
  \/ smlCapturing /\ Len(smlBuffer) >= MaxSml /\ DropFrame
  \/ smlCapturing /\ Len(smlBuffer) < MaxSml /\ Capture(byte)
-----------------------------------------------------------------------------
SmlFault ==
  /\ smlFaults < SmlFaultLimit /\ smlFaults' = smlFaults + 1
  /\ smlWhole' = FALSE /\ smlRun' = 0 /\ UNCHANGED smlSends

parserVars == <<smlBuffer, smlMatched, smlCapturing, smlTrailer, checkVars>>

SendFrame ==
  /\ smlWire = <<>>
  /\ \E t \in smlSends : smlWire' = Encode(t)
  /\ smlWhole' = TRUE /\ smlResult' = Status("none")
  /\ UNCHANGED <<smlSends, smlRun, smlFaults, parserVars>>

DeliverByte ==
  /\ smlWire # <<>>
  /\ ConsumeByte(Head(smlWire))
  /\ smlWire' = Tail(smlWire)
  /\ smlRun' = IF Len(smlWire) > 1 THEN smlRun
               ELSE IF smlWhole THEN Min({smlRun + 1, 2}) ELSE 0
  /\ UNCHANGED <<smlSends, smlWhole, smlFaults>>

LoseByte ==
  /\ smlWire # <<>> /\ SmlFault
  /\ smlWire' = Tail(smlWire) /\ smlResult' = Status("none") /\ UNCHANGED parserVars

\* A byte is damaged, or comes out of nowhere.
Noise ==
  \E byte \in {Escape, Tok("one"), Tok("end"), Tok("fill")} :
    /\ SmlFault /\ ConsumeByte(byte)
    /\ smlWire' \in {smlWire} \union {Tail(w) : w \in {smlWire} \ {<<>>}}

\* The parser is taken back from outside: other settings, a lost lock.
OutsideReset ==
  SmlFault /\ ResetParser /\ smlResult' = Status("none") /\ UNCHANGED smlWire

SmlNext == SendFrame \/ DeliverByte \/ LoseByte \/ Noise \/ OutsideReset

SmlInit ==
  /\ \/ smlSends = SmlSome /\ smlFaults = 0
     \/ smlSends \in {{t} : t \in SmlAll} /\ smlFaults = SmlFaultLimit
  /\ smlWire = <<>> /\ smlWhole = TRUE /\ smlRun = 0
  /\ smlBuffer = <<>> /\ smlMatched = 0 /\ smlCapturing = FALSE /\ smlTrailer = 0
  /\ smlMatches = 0 /\ smlCountdown = SmlSentinel
  /\ smlQualified = FALSE /\ smlLatched = FALSE
  /\ smlResult = Status("none")

SmlSpec == SmlInit /\ [][SmlNext]_smlVars
-----------------------------------------------------------------------------
SmlTypeOK ==
  /\ Len(smlBuffer) <= MaxSml
  /\ smlMatched \in 0 .. Len(SmlStart) - 1 /\ smlCapturing \in BOOLEAN /\ smlTrailer \in 0 .. 3
  /\ smlMatches \in 0 .. SmlQualify /\ smlCountdown \in 1 .. SmlSentinel
  /\ smlQualified \in BOOLEAN /\ smlLatched \in BOOLEAN
  /\ smlResult.status \in {"none", "valid", "invalid", "integrity"}
  /\ smlRun \in 0 .. 2 /\ smlFaults \in 0 .. SmlFaultLimit

\* Whatever the line has done, the second of two whole frames in a row is
\* decoded.  (The frames of the model do not end with an escape byte: a lost
\* frame that does costs the next one too.)
SmlResync ==
  smlRun = 2 /\ smlWire = <<>> =>
    \E t \in smlSends : smlResult = Report(Legacy(Encode(t)))

\* The two methods always agree: the comparison never falls back, and what is
\* reported is what the method of old finds in the frame.
SelfCheckAgrees ==
  /\ ~smlLatched
  /\ smlResult.status \in {"valid", "invalid"} /\ smlBuffer # <<>> =>
       smlResult = Report(Legacy(smlBuffer))
=============================================================================
