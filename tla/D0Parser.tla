------------------------------ MODULE D0Parser ------------------------------
(***************************************************************************)
(* The parser for older ASCII meters (meter/D0Parser.cpp): telegrams with  *)
(* STX, ETX and a check character, and passive ones that end with "!".     *)
(* A token is a control character or a whole OBIS line; the check          *)
(* character is ideal: it tells every two blocks apart.                    *)
(***************************************************************************)
EXTENDS Integers, Sequences, FiniteSetsExt

CONSTANTS
  D0Readings,  \* the values of a line
  MaxD0,       \* kMaximumFrame
  D0FaultLimit \* bound on the faults of the line and on outside resets

\* A telegram fits into the frame.
ASSUME D0Assumption == MaxD0 \in Nat /\ MaxD0 >= 10 /\ D0FaultLimit \in Nat

VARIABLES
  d0Passive,   \* this meter sends telegrams without a check character
  d0Wire,      \* what is still to come of the telegram being sent
  d0Whole,     \* nothing has happened to the telegram being sent
  d0Run,       \* telegrams in a row to which nothing happened
  d0Sent,      \* the readings of the telegram being sent
  d0Faults,
  d0Buffer,    \* frame_
  d0Capturing, \* capturing_
  d0HasStx,    \* hasStx_
  d0Wait,      \* waitForBcc_
  d0Bang,      \* sawBang_
  d0Block,     \* what bcc_ has been computed over
  d0Result     \* what the last byte reported

meterVars == <<d0Passive, d0Wire, d0Whole, d0Run, d0Sent, d0Faults>>
d0Frame == <<d0Buffer, d0Capturing, d0HasStx, d0Wait, d0Bang, d0Block>>
d0Vars == <<meterVars, d0Frame, d0Result>>
-----------------------------------------------------------------------------
Char(kind) == [kind |-> kind]
Line(code, value) == [kind |-> "line", code |-> code, value |-> value]
Bcc(block) == [kind |-> "bcc", of |-> block]

D0Codes == {"import", "power"}

\* What the meter sends for the readings r.
Telegram(passive, r) ==
  LET body == <<Line("import", r["import"]), Char("newline"),
                Line("power", r["power"]), Char("newline"), Char("bang"), Char("newline")>>
      block == <<Char("stx")>> \o body \o <<Char("etx")>>
  IN <<Char("slash"), Char("newline")>> \o
     IF passive THEN body ELSE Append(block, Bcc(block))

D0Length == Len(Telegram(TRUE, [c \in D0Codes |-> 0]))

\* So many whole telegrams the parser may need: a frame that never ends is
\* dropped at the maximum only, and then in the middle of a telegram.
D0Patience == MaxD0 \div D0Length + 2

\* parseFrame() with parseObisLine(): the text ends at ETX; a line counts when it
\* begins the text or follows a line end or STX, and the last one of a code wins.
LinesOf(frame) ==
  LET ends == {i \in DOMAIN frame : frame[i].kind = "etx"}
      end == IF ends = {} THEN Len(frame) ELSE Min(ends) - 1
  IN {i \in 1 .. end : /\ frame[i].kind = "line"
                       /\ i = 1 \/ frame[i - 1].kind \in {"newline", "stx"}}

ReadingOf(frame) ==
  [c \in D0Codes |->
    LET at == {i \in LinesOf(frame) : frame[i].code = c}
    IN IF at = {} THEN <<>> ELSE <<frame[Max(at)].value>>]

NoReading == [c \in D0Codes |-> <<>>]
D0Status(status) == [status |-> status, reading |-> NoReading]
D0Report(frame) ==
  IF LinesOf(frame) = {} THEN D0Status("none")
  ELSE [status |-> "valid", reading |-> ReadingOf(frame)]
-----------------------------------------------------------------------------
\* Mutant: reset() forgets the flag for STX.
ResetKeepingStx ==
  /\ d0Buffer' = <<>> /\ d0Capturing' = FALSE /\ d0Wait' = FALSE
  /\ d0Bang' = FALSE /\ d0Block' = <<>> /\ UNCHANGED d0HasStx

\* reset()
ResetD0 ==
  /\ d0Buffer' = <<>> /\ d0Capturing' = FALSE /\ d0HasStx' = FALSE
  /\ d0Wait' = FALSE /\ d0Bang' = FALSE /\ d0Block' = <<>>

\* The byte after ETX is the check character, whatever it is.
CheckFrame(byte) ==
  /\ d0Result' = IF byte = Bcc(d0Block) THEN D0Report(d0Buffer) ELSE D0Status("integrity")
  /\ ResetD0

\* What the check covers: STX starts it anew.
Checked(byte) ==
  IF byte.kind = "stx" THEN <<byte>>
  ELSE IF d0HasStx THEN Append(d0Block, byte) ELSE d0Block

\* A telegram without STX ends with the line end after "!".
CaptureD0(byte) ==
  LET grown == Append(d0Buffer, byte)
      stx == d0HasStx \/ byte.kind = "stx"
  IN \/ /\ byte.kind = "newline" /\ d0Bang /\ ~stx
        /\ d0Result' = D0Report(grown) /\ ResetD0
     \/ /\ ~(byte.kind = "newline" /\ d0Bang /\ ~stx)
        /\ d0Buffer' = grown /\ d0Capturing' = TRUE /\ d0HasStx' = stx
        /\ d0Block' = Checked(byte)
        /\ d0Bang' = (d0Bang \/ byte.kind = "bang")
        /\ d0Wait' = (stx /\ byte.kind = "etx")
        /\ d0Result' = D0Status("none")

\* consumeByte()
ConsumeD0(byte) ==
  \/ d0Wait /\ CheckFrame(byte)
  \/ /\ ~d0Wait /\ ~d0Capturing /\ byte.kind \notin {"slash", "stx"}
     /\ d0Result' = D0Status("none") /\ UNCHANGED d0Frame
  \/ /\ ~d0Wait /\ d0Capturing /\ Len(d0Buffer) >= MaxD0
     /\ d0Result' = D0Status("none") /\ ResetD0
  \/ /\ ~d0Wait /\ (d0Capturing \/ byte.kind \in {"slash", "stx"})
     /\ Len(d0Buffer) < MaxD0 /\ CaptureD0(byte)
-----------------------------------------------------------------------------
D0Fault ==
  /\ d0Faults < D0FaultLimit /\ d0Faults' = d0Faults + 1
  /\ d0Whole' = FALSE /\ d0Run' = 0 /\ UNCHANGED <<d0Passive, d0Sent>>

SendTelegram ==
  /\ d0Wire = <<>>
  /\ \E v \in D0Readings : d0Sent' = [c \in D0Codes |-> v]
  /\ d0Wire' = Telegram(d0Passive, d0Sent')
  /\ d0Whole' = TRUE /\ d0Result' = D0Status("none")
  /\ UNCHANGED <<d0Passive, d0Run, d0Faults, d0Frame>>

DeliverChar ==
  /\ d0Wire # <<>>
  /\ ConsumeD0(Head(d0Wire))
  /\ d0Wire' = Tail(d0Wire)
  /\ d0Run' = IF Len(d0Wire) > 1 THEN d0Run
              ELSE IF d0Whole THEN Min({d0Run + 1, D0Patience}) ELSE 0
  /\ UNCHANGED <<d0Passive, d0Whole, d0Sent, d0Faults>>

LoseChar ==
  /\ d0Wire # <<>> /\ D0Fault
  /\ d0Wire' = Tail(d0Wire) /\ d0Result' = D0Status("none") /\ UNCHANGED d0Frame

\* A character is damaged, or comes out of nowhere.
NoiseChar ==
  \E kind \in {"slash", "newline", "stx", "etx", "bang", "other"} :
    /\ D0Fault /\ ConsumeD0(Char(kind))
    /\ d0Wire' \in {d0Wire} \union {Tail(w) : w \in {d0Wire} \ {<<>>}}

OutsideD0Reset ==
  D0Fault /\ ResetD0 /\ d0Result' = D0Status("none") /\ UNCHANGED d0Wire

D0Next == SendTelegram \/ DeliverChar \/ LoseChar \/ NoiseChar \/ OutsideD0Reset

D0Init ==
  /\ d0Passive \in BOOLEAN
  /\ d0Wire = <<>> /\ d0Whole = TRUE /\ d0Run = 0 /\ d0Sent = [c \in D0Codes |-> 0]
  /\ d0Faults = 0 /\ d0Buffer = <<>> /\ d0Capturing = FALSE /\ d0HasStx = FALSE
  /\ d0Wait = FALSE /\ d0Bang = FALSE /\ d0Block = <<>>
  /\ d0Result = D0Status("none")

D0Spec == D0Init /\ [][D0Next]_d0Vars
-----------------------------------------------------------------------------
D0TypeOK ==
  /\ Len(d0Buffer) <= MaxD0
  /\ d0Capturing \in BOOLEAN /\ d0HasStx \in BOOLEAN /\ d0Wait \in BOOLEAN /\ d0Bang \in BOOLEAN
  /\ d0Result.status \in {"none", "valid", "integrity"}
  /\ d0Run \in 0 .. D0Patience /\ d0Faults \in 0 .. D0FaultLimit

\* Whatever the line has done, even when a stray STX keeps a passive telegram
\* from ending: after so many whole telegrams in a row each one is reported when
\* it ends, with its own readings.
D0Resync ==
  d0Run = D0Patience /\ d0Wire = <<>> =>
    d0Result = [status |-> "valid", reading |-> [c \in D0Codes |-> <<d0Sent[c]>>]]
=============================================================================
