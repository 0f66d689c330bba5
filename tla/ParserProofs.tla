---------------------------- MODULE ParserProofs ----------------------------
(***************************************************************************)
(* Proofs about the two parsers.  SML: for every frame the walk of         *)
(* captureOnePass() finds what the method of old finds, so that their      *)
(* comparison never falls back; and the second whole telegram in a row is  *)
(* reported, whatever came before.  D0: the same for the first, or for the *)
(* one after a frame that has had to be dropped.                           *)
(***************************************************************************)
EXTENDS SmlParser, D0Parser, SequenceTheorems, WellFoundedInduction, TLAPS

-----------------------------------------------------------------------------
(***************************************************************************)
(* Arithmetic.                                                             *)
(***************************************************************************)
\* Induction, as the least counterexample that would exist.
LEMMA LeastPosition ==
  ASSUME NEW S \in SUBSET Nat, S # {}
  PROVE  \E x \in S : \A y \in S : x <= y
  <1> DEFINE R == {p \in Nat \X Nat : p[1] < p[2]}
  <1>1. IsWellFoundedOn(R, Nat)
    BY NatLessThanWellFounded DEF OpToRel
  <1>2. PICK x \in S : \A y \in S : ~ (<<y, x>> \in R)
    BY <1>1, WFMin
  <1>3. ASSUME NEW y \in S PROVE x <= y
    <2>1. x \in Nat /\ y \in Nat
      OBVIOUS
    <2>2. ~ (y < x)
      BY <1>2, <2>1, Zenon
    <2>3. QED
      BY <2>1, <2>2
  <1>4. QED
    BY <1>3

LEMMA MinIs ==
  ASSUME NEW S \in SUBSET Nat, S # {}
  PROVE  Min(S) \in S /\ \A y \in S : Min(S) <= y
  <1>1. \E x \in S : \A y \in S : x <= y
    BY LeastPosition
  <1>2. QED
    BY <1>1, Zenon DEF Min
-----------------------------------------------------------------------------
(***************************************************************************)
(* The walk of captureOnePass() is recursive.  Step is one turn of it.     *)
(***************************************************************************)
Fits(data, i) == data[i].kind = "code" /\ Decoded(data, i) # NoValue

Step(data, g, i) ==
  IF i = 0 THEN {}
  ELSE IF Fits(data, i) /\ \A slot \in g[i - 1] : slot[1] # data[i]
       THEN g[i - 1] \union {<<data[i], Decoded(data, i)>>} ELSE g[i - 1]

Walk(data, g, k) == g = [i \in 0 .. k |-> Step(data, g, i)]

LEMMA WalkExtends ==
  ASSUME NEW data, NEW m \in Nat \ {0}, NEW g, Walk(data, g, m - 1)
  PROVE  \E h : Walk(data, h, m)
  <1> DEFINE h == [n \in 0 .. m |-> IF n = m THEN Step(data, g, m) ELSE g[n]]
  <1>1. ASSUME NEW n \in 0 .. m PROVE h[n] = Step(data, h, n)
    <2>1. n # 0 => h[n - 1] = g[n - 1]
      OBVIOUS
    <2>2. Step(data, h, n) = Step(data, g, n)
      BY <2>1, Zenon DEF Step
    <2>3. CASE n = m
      BY <2>2, <2>3
    <2>4. CASE n # m
      <3>1. n \in 0 .. m - 1
        BY <2>4
      <3>2. g[n] = Step(data, g, n)
        BY <3>1, Zenon DEF Walk
      <3>3. QED
        BY <2>2, <2>4, <3>2
    <2>5. QED
      BY <2>3, <2>4
  <1>2. Walk(data, h, m)
    BY <1>1, Zenon DEF Walk
  <1>3. QED
    BY <1>2, Zenon

LEMMA WalkExists ==
  ASSUME NEW data, Len(data) \in Nat
  PROVE  \E g : Walk(data, g, Len(data)) /\ CaptureOnePass(data) = g[Len(data)]
  <1> DEFINE N == Len(data)
             Bad == {k \in 0 .. N : ~ \E g : Walk(data, g, k)}
  <1>1. ASSUME Bad # {} PROVE FALSE
    <2>1. Bad \in SUBSET (0 .. N)
      BY Zenon
    <2>2. PICK m \in Bad : \A k \in Bad : m <= k
      <3> HIDE DEF Bad
      <3>1. QED
        BY <1>1, <2>1, LeastPosition
    <2>3. CASE m = 0
      <3> DEFINE h == [n \in 0 .. 0 |-> {}]
      <3>1. \A n \in 0 .. 0 : {} = Step(data, h, n)
        BY DEF Step
      <3>2. Walk(data, h, 0)
        BY <3>1, Zenon DEF Walk
      <3>3. QED
        BY <2>2, <2>3, <3>2, Zenon
    <2>4. CASE m # 0
      <3>1. m \in Nat \ {0} /\ m - 1 \in 0 .. N /\ m - 1 \notin Bad
        <4> HIDE DEF Bad
        <4>1. QED
          BY <2>1, <2>2, <2>4
      <3>2. PICK g : Walk(data, g, m - 1)
        BY <3>1, Zenon
      <3>3. QED
        BY <2>2, <3>1, <3>2, WalkExtends, Zenon
    <2>5. QED
      BY <2>3, <2>4
  <1>2. N \in 0 .. N
    OBVIOUS
  <1>3. \E g : Walk(data, g, N)
    BY <1>1, <1>2, Zenon
  <1> DEFINE f == CHOOSE g : g = [i \in 0 .. N |-> Step(data, g, i)]
  <1>4. f = [i \in 0 .. N |-> Step(data, f, i)]
    BY <1>3, Zenon DEF Walk
  <1>5. CaptureOnePass(data) = f[N]
    BY Zenon DEF CaptureOnePass, Step, Fits
  <1>6. QED
    BY <1>4, <1>5, Zenon DEF Walk
-----------------------------------------------------------------------------
(***************************************************************************)
(* What the walk has captured behind any position: of every code, the      *)
(* first place at which it can be decoded.                                 *)
(***************************************************************************)
First(data, i) == Fits(data, i) /\ \A k \in 1 .. i - 1 : data[k] = data[i] => ~ Fits(data, k)

Captured(data, n) == {<<data[i], Decoded(data, i)>> : i \in {k \in 1 .. n : First(data, k)}}

LEMMA CapturedNext ==
  ASSUME NEW data, NEW m \in Nat \ {0}, NEW g, g[m - 1] = Captured(data, m - 1)
  PROVE  Step(data, g, m) = Captured(data, m)
  <1> DEFINE slot(i) == <<data[i], Decoded(data, i)>>
             Firsts(n) == {k \in 1 .. n : First(data, k)}
  <1>1. \A k : k \in 1 .. m <=> k \in 1 .. m - 1 \/ k = m
    OBVIOUS
  <1>2. ASSUME Fits(data, m)
        PROVE  First(data, m) <=> \A s \in g[m - 1] : s[1] # data[m]
    <2>1. ASSUME First(data, m), NEW s \in g[m - 1] PROVE s[1] # data[m]
      <3>1. PICK i \in 1 .. m - 1 : First(data, i) /\ s = <<data[i], Decoded(data, i)>>
        BY <2>1, Zenon DEF Captured
      <3>2. Fits(data, i)
        BY <3>1, Zenon DEF First
      <3>3. s[1] = data[i]
        BY <3>1
      <3>4. QED
        BY <2>1, <3>2, <3>3, Zenon DEF First
    <2>2. ASSUME ~ First(data, m) PROVE \E s \in g[m - 1] : s[1] = data[m]
      <3> DEFINE Same == {k \in 1 .. m - 1 : data[k] = data[m] /\ Fits(data, k)}
      <3>1. Same # {} /\ Same \in SUBSET Nat
        <4>1. Same # {}
          BY <1>2, <2>2, Zenon DEF First
        <4>2. QED
          BY <4>1
      <3>2. PICK i \in Same : \A k \in Same : i <= k
        <4> HIDE DEF Same
        <4>1. QED
          BY <3>1, LeastPosition
      <3>3. i \in 1 .. m - 1 /\ data[i] = data[m] /\ Fits(data, i)
        BY <3>2, Zenon
      <3>4. ASSUME NEW k \in 1 .. i - 1, data[k] = data[i] PROVE ~ Fits(data, k)
        <4>1. k \in 1 .. m - 1 /\ ~ (i <= k)
          BY <3>3
        <4>2. k \notin Same
          BY <3>2, <4>1, Zenon
        <4>3. QED
          BY <3>3, <3>4, <4>1, <4>2, Zenon
      <3>5. First(data, i)
        BY <3>3, <3>4, Zenon DEF First
      <3>6. <<data[i], Decoded(data, i)>> \in g[m - 1]
        BY <3>3, <3>5, Zenon DEF Captured
      <3>7. <<data[i], Decoded(data, i)>>[1] = data[m]
        BY <3>3
      <3>8. QED
        BY <3>6, <3>7, Zenon
    <2>3. QED
      BY <2>1, <2>2, Zenon
  <1>3. First(data, m) => Fits(data, m)
    BY Zenon DEF First
  <1>4. CASE First(data, m)
    <2>1. Step(data, g, m) = g[m - 1] \union {slot(m)}
      BY <1>2, <1>3, <1>4, Zenon DEF Step
    <2>2. Captured(data, m) = Captured(data, m - 1) \union {slot(m)}
      BY <1>1, <1>4, Zenon DEF Captured
    <2>3. QED
      BY <2>1, <2>2
  <1>5. CASE ~ First(data, m)
    <2>1. Step(data, g, m) = g[m - 1]
      BY <1>2, <1>5, Zenon DEF Step
    <2>2. Captured(data, m) = Captured(data, m - 1)
      BY <1>1, <1>5, Zenon DEF Captured
    <2>3. QED
      BY <2>1, <2>2
  <1>6. QED
    BY <1>4, <1>5

LEMMA CaptureIs ==
  ASSUME NEW data, Len(data) \in Nat
  PROVE  CaptureOnePass(data) = Captured(data, Len(data))
  <1> DEFINE N == Len(data)
  <1>1. PICK g : Walk(data, g, N) /\ CaptureOnePass(data) = g[N]
    BY WalkExists, Zenon
  <1> DEFINE Bad == {n \in 0 .. N : g[n] # Captured(data, n)}
  <1>2. ASSUME NEW n \in 0 .. N PROVE g[n] = Step(data, g, n)
    BY <1>1, Zenon DEF Walk
  <1>3. ASSUME Bad # {} PROVE FALSE
    <2>1. Bad \in SUBSET (0 .. N)
      BY Zenon
    <2>2. PICK m \in Bad : \A k \in Bad : m <= k
      <3> HIDE DEF Bad
      <3>1. QED
        BY <1>3, <2>1, LeastPosition
    <2>3. m \in 0 .. N /\ g[m] # Captured(data, m)
      BY <2>2, Zenon
    <2>4. CASE m = 0
      <3>1. g[m] = {}
        BY <1>2, <2>3, <2>4 DEF Step
      <3>2. 1 .. m = {}
        BY <2>4
      <3>3. Captured(data, m) = {}
        BY <3>2, Zenon DEF Captured
      <3>4. QED
        BY <2>3, <3>1, <3>3
    <2>5. CASE m # 0
      <3>1. m \in Nat \ {0} /\ m - 1 \in 0 .. N /\ m - 1 \notin Bad
        <4> HIDE DEF Bad
        <4>1. QED
          BY <2>1, <2>2, <2>5
      <3>2. g[m - 1] = Captured(data, m - 1)
        BY <3>1, Zenon
      <3>3. QED
        BY <1>2, <2>3, <3>1, <3>2, CapturedNext, Zenon
    <2>6. QED
      BY <2>4, <2>5
  <1>4. N \in 0 .. N
    OBVIOUS
  <1>5. QED
    BY <1>1, <1>3, <1>4, Zenon
-----------------------------------------------------------------------------
(***************************************************************************)
(* The slot of a code holds what extractObis() finds for it.               *)
(***************************************************************************)
ValueOf(captured, code) ==
  LET at == {slot \in captured : slot[1] = code}
  IN IF at = {} THEN NoValue ELSE (CHOOSE slot \in at : TRUE)[2]

LEMMA ValueIs ==
  ASSUME NEW data, Len(data) \in Nat, NEW code, code.kind = "code"
  PROVE  ValueOf(Captured(data, Len(data)), code) = ExtractObis(data, code)
  <1> DEFINE N == Len(data)
             at == {i \in 1 .. N : data[i] = code /\ Decoded(data, i) # NoValue}
             slots == {slot \in Captured(data, N) : slot[1] = code}
  <1>1. \A i \in 1 .. N : i \in at <=> data[i] = code /\ Fits(data, i)
    BY Zenon DEF Fits
  <1>2. ASSUME NEW i \in at, First(data, i), NEW k \in at PROVE i <= k
    <2>1. i \in 1 .. N /\ k \in 1 .. N /\ data[i] = data[k] /\ Fits(data, k)
      BY <1>1, Zenon
    <2>2. k \notin 1 .. i - 1
      BY <1>2, <2>1, Zenon DEF First
    <2>3. QED
      BY <2>1, <2>2
  <1>3. ASSUME NEW slot \in slots
        PROVE  \E i \in at : First(data, i) /\ slot = <<data[i], Decoded(data, i)>>
    <2>1. PICK i \in 1 .. N : First(data, i) /\ slot = <<data[i], Decoded(data, i)>>
      BY Zenon DEF Captured
    <2>2. slot[1] = data[i] /\ slot[1] = code
      BY <2>1
    <2>3. i \in at
      BY <1>1, <2>1, <2>2, Zenon DEF First
    <2>4. QED
      BY <2>1, <2>3, Zenon
  <1>4. CASE at = {}
    <2>1. slots = {}
      BY <1>3, <1>4, Zenon
    <2>2. QED
      BY <1>4, <2>1, Zenon DEF ValueOf, ExtractObis
  <1>5. CASE at # {}
    <2> DEFINE m == Min(at)
    <2>1. m \in at /\ \A k \in at : m <= k
      <3>1. at \in SUBSET Nat
        OBVIOUS
      <3> HIDE DEF at
      <3>2. QED
        BY <1>5, <3>1, MinIs
    <2> HIDE DEF m
    <2>2. m \in 1 .. N /\ data[m] = code /\ Fits(data, m)
      BY <1>1, <2>1, Zenon
    <2>3. ASSUME NEW k \in 1 .. m - 1, data[k] = data[m] PROVE ~ Fits(data, k)
      <3>1. k \in 1 .. N /\ ~ (m <= k)
        BY <2>2
      <3>2. k \notin at
        BY <2>1, <3>1, Zenon
      <3>3. QED
        BY <1>1, <2>2, <2>3, <3>1, <3>2, Zenon
    <2>4. First(data, m)
      BY <2>2, <2>3, Zenon DEF First
    <2> DEFINE found == <<data[m], Decoded(data, m)>>
    <2>5. found \in slots
      <3>1. found \in Captured(data, N)
        BY <2>2, <2>4, Zenon DEF Captured
      <3>2. found[1] = code
        BY <2>2
      <3>3. QED
        BY <3>1, <3>2, Zenon
    <2>6. ASSUME NEW slot \in slots PROVE slot = found
      <3>1. PICK i \in at : First(data, i) /\ slot = <<data[i], Decoded(data, i)>>
        BY <1>3, Zenon
      <3>2. i <= m /\ m <= i
        BY <1>2, <2>1, <3>1, Zenon
      <3>3. i = m
        <4>1. i \in Nat /\ m \in Nat
          BY <2>2
        <4>2. QED
          BY <3>2, <4>1
      <3>4. QED
        BY <3>1, <3>3, Zenon
    <2>7. (CHOOSE slot \in slots : TRUE) = found
      <3> HIDE DEF slots, found
      <3>1. QED
        BY <2>5, <2>6, Zenon
    <2>8. found[2] = Decoded(data, m)
      OBVIOUS
    <2>9. ValueOf(Captured(data, N), code) = Decoded(data, m)
      <3>1. slots # {}
        BY <2>5, Zenon
      <3> HIDE DEF found
      <3>2. QED
        BY <2>7, <2>8, <3>1, Zenon DEF ValueOf
    <2>10. ExtractObis(data, code) = Decoded(data, m)
      BY <1>5, Zenon DEF ExtractObis, m
    <2>11. QED
      BY <2>9, <2>10
  <1>6. QED
    BY <1>4, <1>5

\* The new method finds in every frame what the method of old finds, whatever
\* the tokens of the frame are and how often a code comes.
THEOREM OnePassIsLegacy ==
  ASSUME NEW data, Len(data) \in Nat
  PROVE  OnePass(data) = Legacy(data)
  <1> DEFINE V(code) == ValueOf(CaptureOnePass(data), code)
             E(code) == ExtractObis(data, code)
  <1>1. ASSUME NEW g, NEW p PROVE V(Code(g, p)) = E(Code(g, p))
    <2>1. Code(g, p).kind = "code"
      BY DEF Code
    <2>2. QED
      BY <2>1, CaptureIs, ValueIs, Zenon
  <1>2. OnePass(data) =
          [g \in SmlGroups |->
            IF V(Code(g, "total")) # NoValue THEN <<V(Code(g, "total"))>>
            ELSE IF \A p \in {"first", "second"} : V(Code(g, p)) = NoValue THEN NoValue
            ELSE <<V(Code(g, "first")), V(Code(g, "second"))>>]
    BY Zenon DEF OnePass, ValueOf
  <1>3. QED
    BY <1>1, <1>2, Zenon DEF Legacy
-----------------------------------------------------------------------------
(***************************************************************************)
(* The invariant of the parser.                                            *)
(***************************************************************************)
IsTokens(s) == s \in Seq({s[i] : i \in 1 .. Len(s)})

\* The frame is a sequence, and a parser that is not qualified has not matched
\* often enough yet.
ParserOK ==
  /\ IsTokens(smlBuffer)
  /\ ~ smlQualified => smlMatches < SmlQualify

SmlInv == SmlTypeOK /\ ParserOK /\ SelfCheckAgrees

LEMMA TokensOf ==
  ASSUME NEW S, NEW s \in Seq(S)
  PROVE  IsTokens(s)
  <1> DEFINE A == {s[i] : i \in 1 .. Len(s)}
  <1>1. Len(s) \in Nat /\ s = [i \in 1 .. Len(s) |-> s[i]]
    OBVIOUS
  <1>2. \A i \in 1 .. Len(s) : s[i] \in A
    BY Zenon
  <1>3. s \in Seq(A)
    <2> HIDE DEF A
    <2>1. QED
      BY <1>1, <1>2
  <1>4. QED
    BY <1>3, Zenon DEF IsTokens

LEMMA TokensAppend ==
  ASSUME NEW s, IsTokens(s), NEW byte
  PROVE  /\ IsTokens(Append(s, byte)) /\ Len(s) \in Nat
         /\ Len(Append(s, byte)) = Len(s) + 1 /\ Append(s, byte) # <<>>
  <1> DEFINE S == {s[i] : i \in 1 .. Len(s)}
  <1>1. s \in Seq(S)
    BY Zenon DEF IsTokens
  <1> HIDE DEF S
  <1>2. s \in Seq(S \union {byte}) /\ Len(s) \in Nat
    BY <1>1
  <1>3. Append(s, byte) \in Seq(S \union {byte}) /\ Len(Append(s, byte)) = Len(s) + 1
    BY <1>2, AppendProperties
  <1>4. Append(s, byte) # <<>>
    BY <1>2, <1>3
  <1>5. QED
    BY <1>2, <1>3, <1>4, TokensOf, Zenon

LEMMA StartIs == IsTokens(SmlStart) /\ Len(SmlStart) = 8 /\ SmlStart # <<>>
  <1> DEFINE S == {Escape, Tok("one")}
  <1>1. Escape \in S /\ Tok("one") \in S
    OBVIOUS
  <1> HIDE DEF S
  <1>2. \A t \in S : Four(t) \in Seq(S) /\ Len(Four(t)) = 4
    BY DEF Four
  <1>3. SmlStart \in Seq(S) /\ Len(SmlStart) = Len(Four(Escape)) + Len(Four(Tok("one")))
    BY <1>1, <1>2, ConcatProperties, Zenon DEF SmlStart
  <1>4. Len(SmlStart) = 8
    <2>1. Len(Four(Escape)) = 4 /\ Len(Four(Tok("one"))) = 4
      BY <1>1, <1>2, Zenon
    <2>2. Len(SmlStart) = 4 + 4
      BY <1>3, <2>1, Zenon
    <2>3. QED
      BY <2>2
  <1>5. SmlStart # <<>>
    BY <1>4
  <1>6. QED
    BY <1>3, <1>4, <1>5, TokensOf, Zenon

LEMMA EmptyTokens == IsTokens(<<>>) /\ Len(<<>>) = 0
  BY DEF IsTokens

LEMMA ReportIs ==
  ASSUME NEW values
  PROVE  Report(values).status \in {"valid", "invalid"}
  BY DEF Report

LEMMA StatusIs ==
  ASSUME NEW status
  PROVE  Status(status).status = status
  BY DEF Status

\* What the parser keeps between two frames.
CheckOK ==
  /\ smlMatches \in 0 .. SmlQualify /\ smlCountdown \in 1 .. SmlSentinel
  /\ smlQualified \in BOOLEAN /\ smlLatched = FALSE
  /\ ~ smlQualified => smlMatches < SmlQualify

LEMMA CheckIs == SmlInv => CheckOK
  BY DEF SmlInv, SmlTypeOK, ParserOK, SelfCheckAgrees, CheckOK

LEMMA ParseFrameOK ==
  ASSUME CheckOK, NEW frame, Len(frame) \in Nat, ParseFrame(frame)
  PROVE  /\ CheckOK'
         /\ smlResult' \in {Status("integrity"), Report(Legacy(frame))}
  <1>1. OnePass(frame) = Legacy(frame)
    BY OnePassIsLegacy
  <1>2. SmlQualify \in Nat \ {0} /\ SmlSentinel \in Nat \ {0}
    BY SmlAssumption
  <1>3. CASE smlResult' = Status("integrity") /\ UNCHANGED checkVars
    BY <1>3 DEF checkVars, CheckOK
  <1>4. CASE ~ smlQualified /\ smlMatches' \in {smlMatches, smlMatches + 1}
             /\ smlQualified' = (smlMatches' = SmlQualify)
             /\ smlResult' = Report(Legacy(frame)) /\ UNCHANGED <<smlCountdown, smlLatched>>
    <2>1. /\ smlMatches \in Nat /\ smlMatches < SmlQualify /\ SmlQualify \in Nat
          /\ smlCountdown' \in 1 .. SmlSentinel /\ smlLatched' = FALSE
      BY <1>2, <1>4 DEF CheckOK
    <2>2. smlMatches' \in 0 .. SmlQualify
      BY <1>4, <2>1
    <2>3. smlQualified' \in BOOLEAN /\ (~ smlQualified' => smlMatches' # SmlQualify)
      BY <1>4, Zenon
    <2>4. ~ smlQualified' => smlMatches' < SmlQualify
      BY <2>1, <2>2, <2>3
    <2>5. QED
      BY <1>4, <2>1, <2>2, <2>3, <2>4, Zenon DEF CheckOK
  <1>5. CASE smlQualified /\ smlCountdown' = (IF Compared THEN SmlSentinel ELSE smlCountdown - 1)
             /\ smlResult' = Report(Legacy(frame)) /\ UNCHANGED <<smlMatches, smlQualified, smlLatched>>
    BY <1>2, <1>5 DEF CheckOK, Compared
  <1>6. smlLatched = FALSE
    BY DEF CheckOK
  <1>7. QED
    BY <1>1, <1>3, <1>4, <1>5, <1>6, Zenon DEF ParseFrame

LEMMA ResetOK ==
  ASSUME ResetParser
  PROVE  /\ CheckOK' /\ smlBuffer' = <<>> /\ smlMatched' = 0
         /\ smlCapturing' = FALSE /\ smlTrailer' = 0
  <1>1. 0 \in 0 .. SmlQualify /\ 0 < SmlQualify /\ SmlSentinel \in 1 .. SmlSentinel
    BY SmlAssumption
  <1>2. QED
    BY <1>1, Zenon DEF ResetParser, CheckOK

\* The state of the parser, and what it has reported.
FrameOK ==
  /\ IsTokens(smlBuffer) /\ Len(smlBuffer) <= MaxSml
  /\ smlMatched \in 0 .. 7 /\ smlCapturing \in BOOLEAN /\ smlTrailer \in 0 .. 3

ResultOK ==
  \/ smlResult \in {Status("none"), Status("integrity")}
  \/ smlResult = Status("invalid") /\ smlBuffer = <<>>
  \/ smlBuffer # <<>> /\ smlResult = Report(Legacy(smlBuffer))

LEMMA ConsumeOK ==
  ASSUME FrameOK, CheckOK, NEW byte, ConsumeByte(byte)
  PROVE  FrameOK' /\ CheckOK' /\ ResultOK'
  <1>1. MaxSml \in Nat /\ MaxSml >= 8
    BY SmlAssumption
  <1>2. CASE SeekStart(byte)
    <2>1. /\ smlMatched' \in {0, 1, smlMatched + 1}
          /\ smlMatched' = smlMatched + 1 => smlMatched + 1 # Len(SmlStart) \/ smlMatched' \in {0, 1}
          /\ smlBuffer' \in {SmlStart, smlBuffer}
          /\ smlCapturing' \in BOOLEAN
          /\ smlResult' = Status("none") /\ UNCHANGED <<smlTrailer, checkVars>>
      BY <1>2, Zenon DEF SeekStart
    <2>2. smlMatched' \in 0 .. 7
      BY <2>1, StartIs DEF FrameOK
    <2>3. IsTokens(smlBuffer') /\ Len(smlBuffer') <= MaxSml
      BY <1>1, <2>1, StartIs DEF FrameOK
    <2>4. FrameOK'
      BY <2>1, <2>2, <2>3 DEF FrameOK
    <2>5. CheckOK'
      BY <2>1 DEF CheckOK, checkVars
    <2>6. QED
      BY <2>1, <2>4, <2>5 DEF ResultOK
  <1>3. CASE DropFrame
    <2>1. FrameOK'
      <3>1. Len(<<>>) <= MaxSml /\ 0 \in 0 .. 7 /\ 0 \in 0 .. 3 /\ FALSE \in BOOLEAN
        BY <1>1, EmptyTokens
      <3>2. QED
        BY <1>3, <3>1, ResetOK, EmptyTokens, Zenon DEF FrameOK, DropFrame
    <2>2. CheckOK' /\ ResultOK'
      BY <1>3, ResetOK, Zenon DEF ResultOK, DropFrame
    <2>3. QED
      BY <2>1, <2>2
  <1>4. CASE Len(smlBuffer) < MaxSml /\ Capture(byte)
    <2> DEFINE grown == Append(smlBuffer, byte)
    <2>1. /\ IsTokens(grown) /\ Len(smlBuffer) \in Nat
          /\ Len(grown) = Len(smlBuffer) + 1 /\ grown # <<>>
      BY TokensAppend, Zenon DEF FrameOK
    <2>2. smlBuffer' = grown /\ smlMatched' = smlMatched
      BY <1>4 DEF Capture
    <2> HIDE DEF grown
    <2>3. IsTokens(smlBuffer') /\ Len(smlBuffer') <= MaxSml /\ Len(grown) \in Nat
      BY <1>1, <1>4, <2>1, <2>2
    <2>4. CASE smlTrailer = 1
      <3>1. smlTrailer' = 0 /\ smlCapturing' = FALSE /\ ParseFrame(grown)
        BY <1>4, <2>4 DEF Capture, grown
      <3>2. FrameOK'
        <4>1. 0 \in 0 .. 3 /\ FALSE \in BOOLEAN
          OBVIOUS
        <4>2. QED
          BY <2>2, <2>3, <3>1, <4>1, Zenon DEF FrameOK
      <3>3. CheckOK' /\ smlResult' \in {Status("integrity"), Report(Legacy(grown))}
        BY <2>3, <3>1, ParseFrameOK, Zenon
      <3>4. QED
        BY <2>1, <2>2, <3>2, <3>3 DEF ResultOK
    <2>5. CASE smlTrailer # 1
      <3>1. /\ smlTrailer' \in {0, 3} \/ (smlTrailer > 1 /\ smlTrailer' = smlTrailer - 1)
            /\ smlResult' = Status("none") /\ UNCHANGED <<smlCapturing, checkVars>>
        BY <1>4, <2>5 DEF Capture
      <3>2. FrameOK'
        BY <2>2, <2>3, <3>1 DEF FrameOK
      <3>3. CheckOK'
        BY <3>1 DEF CheckOK, checkVars
      <3>4. QED
        BY <3>1, <3>2, <3>3 DEF ResultOK
    <2>6. QED
      BY <2>4, <2>5
  <1>5. QED
    BY <1>2, <1>3, <1>4, Zenon DEF ConsumeByte
-----------------------------------------------------------------------------
(***************************************************************************)
(* Every step keeps the invariant.                                         *)
(***************************************************************************)
RunOK == smlRun \in 0 .. 2 /\ smlFaults \in 0 .. SmlFaultLimit

LEMMA StatusesDiffer ==
  /\ \A status : Status(status).status = status
  /\ \A values : Report(values).status \in {"valid", "invalid"}
  BY StatusIs, ReportIs, Zenon

LEMMA SmlInvIs ==
  /\ SmlInv => FrameOK /\ CheckOK /\ RunOK
  /\ FrameOK /\ CheckOK /\ RunOK /\ ResultOK => SmlInv
  <1>1. Len(SmlStart) - 1 = 7
    BY StartIs
  <1>2. SmlInv => FrameOK /\ CheckOK /\ RunOK
    BY <1>1, CheckIs, Zenon DEF SmlInv, SmlTypeOK, ParserOK, FrameOK, RunOK
  <1>3. ASSUME ResultOK PROVE smlResult.status \in {"none", "valid", "invalid", "integrity"}
    BY <1>3, StatusesDiffer, Zenon DEF ResultOK
  <1>4. ASSUME ResultOK, smlResult.status \in {"valid", "invalid"}, smlBuffer # <<>>
        PROVE  smlResult = Report(Legacy(smlBuffer))
    <2>1. smlResult \notin {Status("none"), Status("integrity")}
      BY <1>4, StatusesDiffer
    <2>2. QED
      BY <1>4, <2>1, Zenon DEF ResultOK
  <1>5. CheckOK => smlLatched \in BOOLEAN /\ ~ smlLatched
    BY DEF CheckOK
  <1>6. FrameOK /\ CheckOK /\ RunOK /\ ResultOK => SmlInv
    BY <1>1, <1>3, <1>4, <1>5, Zenon
       DEF SmlInv, SmlTypeOK, ParserOK, SelfCheckAgrees, FrameOK, CheckOK, RunOK
  <1>7. QED
    BY <1>2, <1>6

LEMMA ParserStarts ==
  ASSUME SmlInit
  PROVE  SmlInv
  <1>1. SmlQualify \in Nat \ {0} /\ SmlSentinel \in Nat \ {0} /\ SmlFaultLimit \in Nat /\ MaxSml \in Nat
    BY SmlAssumption
  <1>2. FrameOK
    <2>1. Len(<<>>) <= MaxSml /\ 0 \in 0 .. 7 /\ 0 \in 0 .. 3 /\ FALSE \in BOOLEAN
      BY <1>1, EmptyTokens
    <2>2. QED
      BY <2>1, EmptyTokens, Zenon DEF SmlInit, FrameOK
  <1>3. CheckOK
    <2>1. /\ 0 \in 0 .. SmlQualify /\ 0 < SmlQualify /\ SmlSentinel \in 1 .. SmlSentinel
          /\ FALSE \in BOOLEAN
      BY <1>1
    <2>2. QED
      BY <2>1, Zenon DEF SmlInit, CheckOK
  <1>4. RunOK
    BY <1>1 DEF SmlInit, RunOK
  <1>5. ResultOK
    BY DEF SmlInit, ResultOK
  <1>6. QED
    BY <1>2, <1>3, <1>4, <1>5, SmlInvIs

LEMMA SmlFaultOK ==
  ASSUME RunOK, SmlFault
  PROVE  RunOK'
  BY SmlAssumption DEF RunOK, SmlFault

LEMMA SmlStep ==
  ASSUME SmlInv, [SmlNext]_smlVars
  PROVE  SmlInv'
  <1>1. FrameOK /\ CheckOK /\ RunOK
    BY SmlInvIs
  <1>2. ASSUME UNCHANGED parserVars PROVE FrameOK' /\ CheckOK'
    BY <1>1, <1>2 DEF FrameOK, CheckOK, IsTokens, parserVars, checkVars
  <1>3. ASSUME FrameOK', CheckOK', RunOK', ResultOK' PROVE SmlInv'
    BY <1>3, SmlInvIs, PTL
  <1>4. CASE SendFrame
    <2>1. RunOK' /\ ResultOK'
      BY <1>1, <1>4 DEF SendFrame, RunOK, ResultOK
    <2>2. QED
      BY <1>2, <1>3, <1>4, <2>1, Zenon DEF SendFrame
  <1>5. CASE DeliverByte
    <2>1. FrameOK' /\ CheckOK' /\ ResultOK'
      BY <1>1, <1>5, ConsumeOK, Zenon DEF DeliverByte
    <2>2. Min({smlRun + 1, 2}) \in 0 .. 2
      <3>1. {smlRun + 1, 2} \in SUBSET Nat /\ {smlRun + 1, 2} # {}
        BY <1>1 DEF RunOK
      <3>2. QED
        BY <3>1, MinIs DEF RunOK
    <2>3. smlRun' \in {smlRun, 0, Min({smlRun + 1, 2})} /\ smlFaults' = smlFaults
      BY <1>5, Zenon DEF DeliverByte
    <2>4. RunOK'
      BY <1>1, <2>2, <2>3 DEF RunOK
    <2>5. QED
      BY <1>3, <2>1, <2>4
  <1>6. CASE LoseByte
    <2>1. ResultOK' /\ RunOK'
      BY <1>1, <1>6, SmlFaultOK, Zenon DEF LoseByte, ResultOK
    <2>2. QED
      BY <1>2, <1>3, <1>6, <2>1, Zenon DEF LoseByte
  <1>7. CASE Noise
    <2>1. PICK byte : SmlFault /\ ConsumeByte(byte)
      BY <1>7, Zenon DEF Noise
    <2>2. QED
      BY <1>1, <1>3, <2>1, ConsumeOK, SmlFaultOK, Zenon
  <1>8. CASE OutsideReset
    <2>1. SmlFault /\ ResetParser /\ smlResult' = Status("none")
      BY <1>8 DEF OutsideReset
    <2>2. FrameOK'
      <3>1. Len(<<>>) <= MaxSml /\ 0 \in 0 .. 7 /\ 0 \in 0 .. 3 /\ FALSE \in BOOLEAN
        BY SmlAssumption, EmptyTokens
      <3>2. QED
        BY <2>1, <3>1, ResetOK, EmptyTokens, Zenon DEF FrameOK
    <2>3. CheckOK' /\ ResultOK' /\ RunOK'
      BY <1>1, <2>1, ResetOK, SmlFaultOK, Zenon DEF ResultOK
    <2>4. QED
      BY <1>3, <2>2, <2>3
  <1>9. CASE UNCHANGED smlVars
    BY <1>9 DEF SmlInv, SmlTypeOK, ParserOK, SelfCheckAgrees, IsTokens, smlVars, lineVars, checkVars
  <1>10. QED
    BY <1>4, <1>5, <1>6, <1>7, <1>8, <1>9, Zenon DEF SmlNext

LEMMA SmlInvariant == SmlSpec => []SmlInv
  <1>1. SmlInit => SmlInv
    BY ParserStarts
  <1>2. SmlInv /\ [SmlNext]_smlVars => SmlInv'
    BY SmlStep
  <1>3. QED
    BY <1>1, <1>2, PTL DEF SmlSpec

\* The parser's state keeps its types, whatever the line does: the frame never
\* outgrows kMaximumFrame, the trailer and the two counters stay in range.
THEOREM SmlTypes == SmlSpec => []SmlTypeOK
  <1>1. SmlInv => SmlTypeOK
    BY DEF SmlInv
  <1>2. QED
    BY <1>1, SmlInvariant, PTL

\* parseFrame() never falls back to the method of old: whatever bytes come, and
\* for telegrams of any items, the comparison finds no difference and what is
\* reported is what the method of old finds in the frame.
THEOREM SelfCheckHolds == SmlSpec => []SelfCheckAgrees
  <1>1. SmlInv => SelfCheckAgrees
    BY DEF SmlInv
  <1>2. QED
    BY <1>1, SmlInvariant, PTL
-----------------------------------------------------------------------------
(***************************************************************************)
(* Where the parser can be while a whole frame arrives, n bytes of it.     *)
(***************************************************************************)
WireFrom(s, n) == SubSeq(s, n + 1, Len(s))

\* Not capturing: a match can only have begun with the escapes of the start,
\* or be one of those before the end.
Seeking(len, n) ==
  /\ n \in 1 .. 4 => smlMatched <= 4
  /\ n \in 5 .. 8 => smlMatched = 0 \/ (smlMatched = n /\ n # 8)
  /\ n \in 9 .. len + 8 => smlMatched = 0
  /\ n \in len + 9 .. len + 12 => smlMatched <= 4
  /\ n > len + 12 => smlMatched = 0

\* Capturing, this frame or what came before: its end is seen.
Capturing(len, n) ==
  /\ n < len + 13 => smlTrailer = 0 \/ smlTrailer + n <= 3
  /\ n \in len + 9 .. len + 12 =>
       /\ Len(smlBuffer) >= n - 8 - len
       /\ \A j \in 0 .. n - 9 - len : smlBuffer[Len(smlBuffer) - j] = Escape
  /\ n > len + 12 => smlTrailer = len + 16 - n

\* After a whole frame the next one is captured from its first byte on.
Synced(t, n) ==
  /\ n < 8 => ~ smlCapturing /\ smlMatched = n
  /\ n >= 8 => smlCapturing /\ smlBuffer = SubSeq(Encode(t), 1, n)

Position(len, n) == IF smlCapturing THEN Capturing(len, n) ELSE Seeking(len, n)

Within(t, n) ==
  /\ smlWire = WireFrom(Encode(t), n)
  /\ Position(Len(t), n)
  /\ smlRun # 0 => Synced(t, n)

\* A match is given up when a frame begins, a trailer when it ends.
PhaseOK == IF smlCapturing THEN smlMatched = 0 ELSE smlTrailer = 0

LineOK ==
  /\ \A t \in smlSends : IsTelegram(t)
  /\ PhaseOK
  /\ smlWhole /\ smlWire # <<>> =>
       \E t \in smlSends : \E n \in 0 .. Len(t) + 15 : Within(t, n)
  /\ smlRun # 0 => IF smlWire = <<>> THEN ~ smlCapturing /\ smlMatched = 0 ELSE smlWhole

ResyncInv == SmlInv /\ LineOK /\ SmlResync
-----------------------------------------------------------------------------
LEMMA Kinds == \A k : Tok(k).kind = k
  BY DEF Tok

LEMMA TelegramIs ==
  ASSUME NEW t, IsTelegram(t)
  PROVE  /\ Len(t) \in Nat /\ Len(t) + 16 <= MaxSml
         /\ \A i \in 1 .. Len(t) : t[i].kind \in {"code", "num", "list"}
  <1> DEFINE S == {t[i] : i \in 1 .. Len(t)}
  <1>1. t \in Seq(S)
    BY Zenon DEF IsTelegram
  <1> HIDE DEF S
  <1>2. Len(t) \in Nat
    BY <1>1
  <1>3. QED
    BY <1>2, Zenon DEF IsTelegram

\* The frame of a telegram, byte by byte.
ByteString(e, len) ==
  /\ \A i \in 1 .. 4 : e[i] = Escape
  /\ \A i \in 5 .. 8 : e[i] = Tok("one")
  /\ \A i \in 9 .. len + 8 : e[i].kind \in {"code", "num", "list"}
  /\ \A i \in len + 9 .. len + 12 : e[i] = Escape
  /\ e[len + 13] = Tok("end")
  /\ \A i \in len + 14 .. len + 16 : e[i].kind \in {"fill", "crc"}

LEMMA FourIs ==
  ASSUME NEW S, NEW t \in S
  PROVE  /\ Four(t) \in Seq(S) /\ Len(Four(t)) = 4
         /\ \A i \in 1 .. 4 : Four(t)[i] = t
  BY DEF Four

\* c is what a, m long, and b, n long, are together.
Joins(c, a, b, m, n) ==
  /\ Len(c) = m + n
  /\ \A i \in 1 .. m : c[i] = a[i]
  /\ \A i \in m + 1 .. m + n : c[i] = b[i - m]

LEMMA ConcatIs ==
  ASSUME NEW S, NEW a \in Seq(S), NEW b \in Seq(S), NEW m, NEW n, Len(a) = m, Len(b) = n
  PROVE  a \o b \in Seq(S) /\ Joins(a \o b, a, b, m, n)
  <1>1. m \in Nat /\ n \in Nat
    OBVIOUS
  <1>2. /\ a \o b \in Seq(S) /\ Len(a \o b) = m + n
        /\ \A i \in 1 .. m + n : (a \o b)[i] = IF i <= m THEN a[i] ELSE b[i - m]
    BY ConcatProperties
  <1>3. \A i \in 1 .. m : i \in 1 .. m + n /\ i <= m
    BY <1>1
  <1>4. \A i \in m + 1 .. m + n : i \in 1 .. m + n /\ ~ (i <= m)
    BY <1>1
  <1>5. QED
    BY <1>2, <1>3, <1>4, Zenon DEF Joins

\* c is a, m long, and x.
Extends(c, a, x, m) ==
  Len(c) = m + 1 /\ c[m + 1] = x /\ \A i \in 1 .. m : c[i] = a[i]

LEMMA AppendIs ==
  ASSUME NEW S, NEW a \in Seq(S), NEW x \in S, NEW m, Len(a) = m
  PROVE  Append(a, x) \in Seq(S) /\ Extends(Append(a, x), a, x, m)
  BY AppendProperties DEF Extends

LEMMA StartBytes ==
  /\ \A i \in 1 .. 4 : SmlStart[i] = Escape
  /\ \A i \in 5 .. 8 : SmlStart[i] = Tok("one")
  <1> DEFINE S == {Escape, Tok("one")}
             a == Four(Escape)
             b == Four(Tok("one"))
  <1>1. /\ a \in Seq(S) /\ Len(a) = 4 /\ \A i \in 1 .. 4 : a[i] = Escape
        /\ b \in Seq(S) /\ Len(b) = 4 /\ \A i \in 1 .. 4 : b[i] = Tok("one")
    <2>1. Escape \in S /\ Tok("one") \in S
      OBVIOUS
    <2> HIDE DEF S
    <2>2. QED
      BY <2>1, FourIs, Zenon
  <1>2. SmlStart = a \o b
    BY DEF SmlStart
  <1> HIDE DEF S, a, b
  <1>3. Joins(a \o b, a, b, 4, 4)
    BY <1>1, ConcatIs
  <1>4. \A i \in 5 .. 8 : i \in 4 + 1 .. 4 + 4 /\ i - 4 \in 1 .. 4
    OBVIOUS
  <1>5. QED
    BY <1>1, <1>2, <1>3, <1>4, Zenon DEF Joins

LEMMA EncodeIs ==
  ASSUME NEW t, IsTelegram(t)
  PROVE  /\ ByteString(Encode(t), Len(t)) /\ Len(Encode(t)) = Len(t) + 16
         /\ \E S : Encode(t) \in Seq(S)
         /\ CrcOk(Encode(t))
  <1> DEFINE len == Len(t)
             T == {t[i] : i \in 1 .. len}
             one == Tok("one")
             end == Tok("end")
             fill == Tok("fill")
             S == T \union {Escape, one, end, fill}
             head == SmlStart \o t
             tail == SmlEnd
             checked == Append(head \o tail, fill)
             crc == Crc(checked)
             e == checked \o <<crc, crc>>
  <1>1. t \in Seq(T) /\ len \in Nat /\ \A i \in 1 .. len : t[i].kind \in {"code", "num", "list"}
    BY TelegramIs, Zenon DEF IsTelegram
  <1>2. Encode(t) = e
    BY Zenon DEF Encode
  <1>3. SmlStart \in Seq(S) /\ Len(SmlStart) = 8
    <2>1. SmlStart \in Seq({SmlStart[i] : i \in 1 .. 8}) /\ Len(SmlStart) = 8
      BY StartIs, Zenon DEF IsTokens
    <2>2. \A i \in 1 .. 8 : SmlStart[i] \in S
      BY StartBytes
    <2> HIDE DEF S
    <2>3. QED
      BY <2>1, <2>2
  <1>4. /\ tail \in Seq(S) /\ Len(tail) = 5
        /\ \A i \in 1 .. 4 : tail[i] = Escape
        /\ tail[5] = end
    <2>1. Escape \in S /\ end \in S
      OBVIOUS
    <2> HIDE DEF S, end
    <2> DEFINE four == Four(Escape)
    <2>2. four \in Seq(S) /\ Len(four) = 4 /\ \A i \in 1 .. 4 : four[i] = Escape
      BY <2>1, FourIs, Zenon
    <2>3. tail = Append(four, end)
      BY Zenon DEF SmlEnd, end
    <2> HIDE DEF four, tail
    <2>4. Append(four, end) \in Seq(S) /\ Extends(Append(four, end), four, end, 4)
      BY <2>1, <2>2, AppendIs
    <2>5. QED
      BY <2>2, <2>3, <2>4 DEF Extends
  <1>5. t \in Seq(S)
    <2>1. \A x \in T : x \in S
      OBVIOUS
    <2> HIDE DEF S, T
    <2>2. QED
      BY <1>1, <2>1
  <1>6. fill \in S
    OBVIOUS
  <1>7. crc.kind = "crc"
    BY DEF Crc
  <1>8. end.kind = "end" /\ fill.kind = "fill"
    BY DEF Tok
  <1> HIDE DEF S, T, one, end, fill, tail, crc
  <1>9. /\ head \in Seq(S) /\ Len(head) = len + 8
        /\ \A i \in 1 .. 8 : head[i] = SmlStart[i]
        /\ \A i \in 9 .. len + 8 : head[i] = t[i - 8]
    <2> HIDE DEF len
    <2>1. Len(t) = len
      BY DEF len
    <2>2. head \in Seq(S) /\ Joins(head, SmlStart, t, 8, len)
      BY <1>3, <1>5, <2>1, ConcatIs
    <2>3. 8 + len = len + 8 /\ 8 + 1 = 9
      BY <1>1
    <2> HIDE DEF head
    <2>4. QED
      BY <2>2, <2>3 DEF Joins
  <1> HIDE DEF head
  <1> DEFINE both == head \o tail
  <1>10. /\ both \in Seq(S) /\ Len(both) = len + 13
         /\ \A i \in 1 .. len + 8 : both[i] = head[i]
         /\ \A i \in len + 9 .. len + 13 : both[i] = tail[i - len - 8]
    <2> DEFINE m == len + 8
    <2>1. Len(head) = m /\ m \in Nat
      BY <1>1, <1>9
    <2>2. m + 5 = len + 13 /\ m + 1 = len + 9 /\ \A i \in len + 9 .. len + 13 : i - m = i - len - 8
      BY <1>1
    <2> HIDE DEF m
    <2>3. both \in Seq(S) /\ Joins(both, head, tail, m, 5)
      BY <1>4, <1>9, <2>1, ConcatIs
    <2> HIDE DEF both
    <2>4. QED
      BY <2>2, <2>3, Zenon DEF Joins, m
  <1> HIDE DEF both
  <1>11. /\ checked \in Seq(S) /\ Len(checked) = len + 14
         /\ \A i \in 1 .. len + 13 : checked[i] = both[i]
         /\ checked[len + 14] = fill
    <2>1. checked = Append(both, fill)
      BY DEF both
    <2> HIDE DEF checked
    <2>2. QED
      BY <1>1, <1>6, <1>10, <2>1
  <1> HIDE DEF checked
  <1>12. /\ e \in Seq(S \union {crc}) /\ Len(e) = len + 16
         /\ \A i \in 1 .. len + 14 : e[i] = checked[i]
         /\ e[len + 15] = crc /\ e[len + 16] = crc
    BY <1>1, <1>11
  <1> HIDE DEF e
  <1>13. ByteString(e, len)
    <2>1. ASSUME NEW i \in 1 .. len + 8 PROVE e[i] = head[i]
      <3>1. i \in 1 .. len + 13 /\ i \in 1 .. len + 14
        BY <1>1
      <3>2. QED
        BY <1>10, <1>11, <1>12, <3>1, Zenon
    <2>2. ASSUME NEW i \in len + 9 .. len + 13 PROVE e[i] = tail[i - len - 8]
      <3>1. i \in 1 .. len + 13 /\ i \in 1 .. len + 14
        BY <1>1
      <3>2. QED
        BY <1>10, <1>11, <1>12, <3>1, Zenon
    <2>3. ASSUME NEW i \in 1 .. 4 PROVE e[i] = Escape
      <3>1. i \in 1 .. len + 8 /\ i \in 1 .. 8
        BY <1>1
      <3>2. QED
        BY <1>9, <2>1, <3>1, StartBytes, Zenon
    <2>4. ASSUME NEW i \in 5 .. 8 PROVE e[i] = Tok("one")
      <3>1. i \in 1 .. len + 8 /\ i \in 1 .. 8
        BY <1>1
      <3>2. QED
        BY <1>9, <2>1, <3>1, StartBytes, Zenon
    <2>5. ASSUME NEW i \in 9 .. len + 8 PROVE e[i].kind \in {"code", "num", "list"}
      <3>1. i \in 1 .. len + 8 /\ i - 8 \in 1 .. len
        BY <1>1
      <3>2. e[i] = t[i - 8]
        BY <1>9, <2>1, <3>1, Zenon
      <3>3. QED
        BY <1>1, <3>1, <3>2, Zenon
    <2>6. \A i \in len + 9 .. len + 12 : e[i] = Escape
      <3>1. \A i \in len + 9 .. len + 12 : i - len - 8 \in 1 .. 4 /\ i \in len + 9 .. len + 13
        BY <1>1
      <3>2. QED
        BY <1>4, <2>2, <3>1, Zenon
    <2>7. e[len + 13] = Tok("end")
      <3>1. len + 13 \in len + 9 .. len + 13 /\ len + 13 - len - 8 = 5
        BY <1>1
      <3>2. QED
        BY <1>4, <2>2, <3>1 DEF end
    <2>8. \A i \in len + 14 .. len + 16 : e[i].kind \in {"fill", "crc"}
      <3>1. ASSUME NEW i \in len + 14 .. len + 16 PROVE e[i] \in {fill, crc}
        <4>1. i = len + 14 \/ i = len + 15 \/ i = len + 16
          BY <1>1
        <4>2. e[len + 14] = fill
          BY <1>1, <1>11, <1>12
        <4>3. QED
          BY <1>12, <4>1, <4>2
      <3>2. QED
        BY <1>7, <1>8, <3>1, Zenon
    <2>9. QED
      BY <2>3, <2>4, <2>5, <2>6, <2>7, <2>8 DEF ByteString
  <1>14. CrcOk(e)
    <2>1. SubSeq(e, 1, Len(e) - 2) = checked
      <3>1. Len(e) - 2 = len + 14
        BY <1>1, <1>12
      <3>2. SubSeq(e, 1, len + 14) = [i \in 1 .. len + 14 |-> e[i]]
        BY <1>1, <1>12
      <3>3. checked = [i \in 1 .. len + 14 |-> checked[i]]
        BY <1>1, <1>11
      <3>4. QED
        BY <1>12, <3>1, <3>2, <3>3
    <2>2. Len(e) - 1 = len + 15 /\ Len(e) = len + 16
      BY <1>1, <1>12
    <2>3. QED
      BY <1>12, <2>1, <2>2 DEF CrcOk, crc
  <1>15. QED
    BY <1>2, <1>12, <1>13, <1>14, Zenon
-----------------------------------------------------------------------------
(***************************************************************************)
(* One byte further.                                                       *)
(***************************************************************************)
\* What is left of a sequence behind n of its elements.
Leaves(s, n) ==
  /\ WireFrom(s, n) # <<>> /\ Len(WireFrom(s, n)) = Len(s) - n
  /\ Head(WireFrom(s, n)) = s[n + 1] /\ Tail(WireFrom(s, n)) = WireFrom(s, n + 1)

LEMMA SuffixIs ==
  ASSUME NEW S, NEW s \in Seq(S), NEW n \in 0 .. Len(s) - 1
  PROVE  Leaves(s, n)
  <1> DEFINE m == n + 1
             last == Len(s)
             rest == SubSeq(s, m, last)
  <1>1. last \in Nat /\ m \in 1 .. last /\ last \in m .. last /\ last - m + 1 = last - n
    OBVIOUS
  <1>2. WireFrom(s, n) = rest /\ WireFrom(s, m) = SubSeq(s, m + 1, last)
    BY DEF WireFrom
  <1>3. Head(rest) = s[m] /\ Tail(rest) = SubSeq(s, m + 1, last)
    <2> HIDE DEF m
    <2>1. QED
      BY <1>1, HeadTailOfSubSeq
  <1>4. Len(rest) = last - n /\ rest # <<>>
    <2>1. \A i \in m .. last : s[i] \in S
      BY <1>1
    <2>2. rest \in Seq(S) /\ Len(rest) = last - n
      BY <1>1, <2>1, SubSeqProperties
    <2> HIDE DEF rest
    <2>3. QED
      BY <1>1, <2>2
  <1>5. QED
    BY <1>2, <1>3, <1>4, Zenon DEF Leaves

LEMMA WholeSuffix ==
  ASSUME NEW S, NEW s \in Seq(S)
  PROVE  WireFrom(s, 0) = s /\ WireFrom(s, Len(s)) = <<>>
  BY DEF WireFrom

\* The search for a start is at its beginning, or goes on with the next byte.
LEMMA SeekStartIs ==
  ASSUME FrameOK, NEW byte, SeekStart(byte)
  PROVE  /\ byte = Escape =>
              /\ smlMatched' = IF smlMatched < 4 THEN smlMatched + 1 ELSE 1
              /\ ~ smlCapturing' /\ smlBuffer' = smlBuffer
         /\ byte = Tok("one") =>
              /\ smlMatched' = IF smlMatched \in 4 .. 6 THEN smlMatched + 1 ELSE 0
              /\ smlCapturing' = (smlMatched = 7)
              /\ smlMatched = 7 => smlBuffer' = SmlStart
         /\ byte.kind \notin {"escape", "one"} => smlMatched' = 0 /\ ~ smlCapturing'
         /\ smlCapturing' \in BOOLEAN /\ smlTrailer' = smlTrailer
  <1> DEFINE fits == byte = SmlStart[smlMatched + 1]
             whole == fits /\ smlMatched + 1 = 8
  <1>1. /\ smlMatched' = IF whole THEN 0 ELSE IF fits THEN smlMatched + 1
                         ELSE IF byte = Escape THEN 1 ELSE 0
        /\ smlBuffer' = (IF whole THEN SmlStart ELSE smlBuffer) /\ smlCapturing' = whole
        /\ smlTrailer' = smlTrailer
    <2>1. 1 \in 1 .. 4
      OBVIOUS
    <2>2. SmlStart[1] = Escape
      BY <2>1, StartBytes, Zenon
    <2>3. QED
      BY <2>2, StartIs, Zenon DEF SeekStart
  <1>2. smlMatched \in 0 .. 7
    BY DEF FrameOK
  <1>3. SmlStart[smlMatched + 1] = IF smlMatched < 4 THEN Escape ELSE Tok("one")
    <2>1. smlMatched < 4 => smlMatched + 1 \in 1 .. 4
      BY <1>2
    <2>2. ~ (smlMatched < 4) => smlMatched + 1 \in 5 .. 8
      BY <1>2
    <2>3. QED
      BY <2>1, <2>2, StartBytes, Zenon
  <1>4. Escape.kind = "escape" /\ Tok("one").kind = "one"
    BY DEF Escape, Tok
  <1>5. Escape # Tok("one")
    <2>1. "escape" # "one"
      OBVIOUS
    <2>2. QED
      BY <1>4, <2>1, Zenon
  <1>6. CASE byte = Escape
    <2>1. byte.kind = "escape" /\ byte # Tok("one") /\ (fits <=> smlMatched < 4)
      BY <1>3, <1>4, <1>5, <1>6, Zenon
    <2>2. ~ whole
      BY <1>2, <2>1
    <2>3. byte.kind \in {"escape", "one"}
      BY <2>1
    <2> HIDE DEF fits, whole
    <2>4. whole \in BOOLEAN
      BY DEF whole
    <2>5. QED
      BY <1>1, <1>6, <2>1, <2>2, <2>3, <2>4
  <1>7. CASE byte = Tok("one")
    <2>1. byte.kind = "one" /\ byte # Escape /\ (fits <=> ~ (smlMatched < 4))
      BY <1>3, <1>4, <1>5, <1>7, Zenon
    <2>2. whole <=> smlMatched = 7
      BY <1>2, <2>1
    <2>3. byte.kind \in {"escape", "one"}
      BY <2>1
    <2>4. whole \in BOOLEAN
      OBVIOUS
    <2> HIDE DEF fits, whole
    <2>5. smlMatched' = IF smlMatched \in 4 .. 6 THEN smlMatched + 1 ELSE 0
      BY <1>1, <1>2, <2>1, <2>2
    <2>6. QED
      BY <1>1, <2>1, <2>2, <2>3, <2>4, <2>5
  <1>8. CASE byte # Escape /\ byte # Tok("one")
    <2>1. ~ fits
      BY <1>3, <1>8
    <2>2. smlMatched' = 0 /\ smlCapturing' = FALSE
      BY <1>1, <1>8, <2>1
    <2>3. QED
      BY <1>1, <1>8, <2>2
  <1>9. QED
    BY <1>6, <1>7, <1>8
-----------------------------------------------------------------------------
\* The search goes on.
LEMMA SeekNext ==
  ASSUME FrameOK, PhaseOK, ~ smlCapturing, NEW len \in Nat, NEW n \in 0 .. len + 15,
         Seeking(len, n), NEW e, ByteString(e, len), SeekStart(e[n + 1])
  PROVE  /\ Position(len, n + 1)' /\ PhaseOK'
         /\ n = len + 15 => ~ smlCapturing' /\ smlMatched' = 0
  <1>1. smlMatched \in 0 .. 7 /\ smlTrailer = 0
    BY DEF FrameOK, PhaseOK
  <1>2. smlTrailer' = 0 /\ smlCapturing' \in BOOLEAN
    BY <1>1, SeekStartIs
  <1>3. ASSUME smlMatched' = 0, ~ smlCapturing'
        PROVE  /\ Position(len, n + 1)' /\ PhaseOK'
               /\ n = len + 15 => ~ smlCapturing' /\ smlMatched' = 0
    <2>1. Seeking(len, n + 1)'
      BY <1>3 DEF Seeking
    <2>2. QED
      BY <1>2, <1>3, <2>1, Zenon DEF Position, PhaseOK
  <1>4. CASE n \in 0 .. 3
    <2>1. e[n + 1] = Escape
      <3>1. n + 1 \in 1 .. 4
        BY <1>4
      <3>2. QED
        BY <3>1, Zenon DEF ByteString
    <2>2. smlMatched' = (IF smlMatched < 4 THEN smlMatched + 1 ELSE 1) /\ ~ smlCapturing'
      BY <2>1, SeekStartIs, Zenon
    <2>3. Seeking(len, n + 1)'
      BY <1>1, <1>4, <2>2 DEF Seeking
    <2>4. n # len + 15
      BY <1>4
    <2>5. QED
      BY <1>2, <2>2, <2>3, <2>4, Zenon DEF Position, PhaseOK
  <1>5. CASE n \in 4 .. 7
    <2>1. e[n + 1] = Tok("one")
      <3>1. n + 1 \in 5 .. 8
        BY <1>5
      <3>2. QED
        BY <3>1, Zenon DEF ByteString
    <2>2. /\ smlMatched' = IF smlMatched \in 4 .. 6 THEN smlMatched + 1 ELSE 0
          /\ smlCapturing' = (smlMatched = 7)
      BY <2>1, SeekStartIs, Zenon
    <2>3. smlMatched = 0 \/ smlMatched = n \/ (n = 4 /\ smlMatched < 4)
      BY <1>1, <1>5 DEF Seeking
    <2>4. n # len + 15
      BY <1>5
    <2>5. CASE smlMatched = 7
      <3>1. n + 1 = 8 /\ smlMatched' = 0 /\ smlCapturing' = TRUE
        <4>1. n + 1 = 8 /\ smlMatched' = 0
          BY <1>5, <2>2, <2>3, <2>5
        <4>2. smlCapturing'
          BY <2>2, <2>5, Zenon
        <4>3. QED
          BY <1>2, <4>1, <4>2
      <3>2. Capturing(len, n + 1)'
        BY <1>2, <3>1 DEF Capturing
      <3>3. QED
        BY <2>4, <3>1, <3>2, Zenon DEF Position, PhaseOK
    <2>6. CASE smlMatched # 7
      <3>1. smlCapturing' = FALSE
        BY <2>2, <2>6
      <3>2. n # 7 \/ smlMatched' = 0
        BY <1>5, <2>2, <2>3, <2>6
      <3>3. Seeking(len, n + 1)'
        BY <1>5, <2>2, <2>3, <2>6, <3>2 DEF Seeking
      <3>4. QED
        BY <1>2, <2>4, <3>1, <3>3, Zenon DEF Position, PhaseOK
    <2>7. QED
      BY <2>5, <2>6
  <1>6. CASE n \in len + 8 .. len + 11
    <2>1. e[n + 1] = Escape
      <3>1. n + 1 \in len + 9 .. len + 12
        BY <1>6
      <3>2. QED
        BY <3>1, Zenon DEF ByteString
    <2>2. smlMatched' = (IF smlMatched < 4 THEN smlMatched + 1 ELSE 1) /\ ~ smlCapturing'
      BY <2>1, SeekStartIs, Zenon
    <2>3. Seeking(len, n + 1)'
      BY <1>1, <1>6, <2>2 DEF Seeking
    <2>4. n # len + 15
      BY <1>6
    <2>5. QED
      BY <1>2, <2>2, <2>3, <2>4, Zenon DEF Position, PhaseOK
  <1>7. CASE n \in 8 .. len + 7 \/ n >= len + 12
    <2>1. e[n + 1].kind \notin {"escape", "one"}
      <3>1. n + 1 \in 9 .. len + 8 \/ n + 1 = len + 13 \/ n + 1 \in len + 14 .. len + 16
        BY <1>7
      <3>2. e[n + 1].kind \in {"code", "num", "list", "end", "fill", "crc"}
        <4>1. Tok("end").kind = "end"
          BY Kinds
        <4>2. e[n + 1].kind \in {"code", "num", "list"} \/ e[n + 1].kind = "end"
                \/ e[n + 1].kind \in {"fill", "crc"}
          BY <3>1, <4>1, Zenon DEF ByteString
        <4>3. QED
          BY <4>2
      <3>3. QED
        BY <3>2
    <2>2. smlMatched' = 0 /\ ~ smlCapturing'
      BY <2>1, SeekStartIs, Zenon
    <2>3. QED
      BY <1>3, <2>2
  <1>8. n \in 0 .. 3 \/ n \in 4 .. 7 \/ n \in len + 8 .. len + 11 \/ n \in 8 .. len + 7 \/ n >= len + 12
    OBVIOUS
  <1>9. QED
    BY <1>4, <1>5, <1>6, <1>7, <1>8

\* The end of a frame.
LEMMA EndIs ==
  /\ SmlEnd = [i \in 1 .. 5 |-> SmlEnd[i]] /\ Len(SmlEnd) = 5
  /\ \A i \in 1 .. 4 : SmlEnd[i] = Escape
  /\ SmlEnd[5] = Tok("end")
  <1> DEFINE end == Tok("end")
             S == {Escape, end}
             four == Four(Escape)
  <1>1. Escape \in S /\ end \in S
    OBVIOUS
  <1> HIDE DEF S, end
  <1>2. four \in Seq(S) /\ Len(four) = 4 /\ \A i \in 1 .. 4 : four[i] = Escape
    BY <1>1, FourIs, Zenon
  <1>3. SmlEnd = Append(four, end)
    BY Zenon DEF SmlEnd, end
  <1> HIDE DEF four
  <1>4. SmlEnd \in Seq(S) /\ Extends(SmlEnd, four, end, 4)
    BY <1>1, <1>2, <1>3, AppendIs
  <1>5. Len(SmlEnd) = 5
    BY <1>4 DEF Extends
  <1>6. SmlEnd = [i \in 1 .. 5 |-> SmlEnd[i]]
    BY <1>4, <1>5
  <1>7. QED
    BY <1>2, <1>4, <1>5, <1>6 DEF Extends, end

LEMMA EndsInIs ==
  ASSUME NEW S, NEW s \in Seq(S), Len(s) > 0
  PROVE  /\ s[Len(s)] # Tok("end") => ~ EndsIn(s, SmlEnd)
         /\ Len(s) >= 5 /\ s[Len(s)] = Tok("end") /\ (\A j \in 1 .. 4 : s[Len(s) - j] = Escape)
              => EndsIn(s, SmlEnd)
  <1> DEFINE m == Len(s)
             tail == SubSeq(s, m - 5 + 1, m)
  <1>1. m \in Nat
    OBVIOUS
  <1>2. EndsIn(s, SmlEnd) <=> m >= 5 /\ tail = SmlEnd
    BY EndIs DEF EndsIn
  <1>3. ASSUME m >= 5 PROVE tail = [i \in 1 .. 5 |-> s[m - 5 + i]]
    <2>1. /\ m - 5 + 1 \in Int /\ m - 5 + 1 >= 1 /\ m \in Int /\ m - (m - 5 + 1) + 1 = 5
          /\ \A i \in m - 5 + 1 .. m : s[i] \in S
      BY <1>1, <1>3
    <2>2. /\ tail \in Seq(S) /\ Len(tail) = 5
          /\ \A i \in 1 .. 5 : tail[i] = s[(m - 5 + 1) + i - 1]
      <3>1. /\ tail \in Seq(S)
            /\ Len(tail) = IF m - 5 + 1 <= m THEN m - (m - 5 + 1) + 1 ELSE 0
            /\ \A i \in 1 .. m - (m - 5 + 1) + 1 : tail[i] = s[(m - 5 + 1) + i - 1]
        BY <2>1, SubSeqProperties
      <3>2. m - 5 + 1 <= m
        BY <1>1
      <3>3. QED
        BY <2>1, <3>1, <3>2, Zenon
    <2> HIDE DEF tail
    <2>3. tail = [i \in 1 .. 5 |-> tail[i]]
      BY <2>2
    <2>4. ASSUME NEW i \in 1 .. 5 PROVE (m - 5 + 1) + i - 1 = m - 5 + i
      BY <1>1
    <2>5. ASSUME NEW i \in 1 .. 5 PROVE tail[i] = s[m - 5 + i]
      BY <2>2, <2>4, Zenon
    <2>6. QED
      BY <2>3, <2>5, Zenon
  <1>4. ASSUME m >= 5 PROVE tail[5] = s[m]
    BY <1>1, <1>3, <1>4
  <1>5. ASSUME EndsIn(s, SmlEnd) PROVE s[m] = Tok("end")
    BY <1>2, <1>4, <1>5, EndIs, Zenon
  <1>6. ASSUME m >= 5, s[m] = Tok("end"), \A j \in 1 .. 4 : s[m - j] = Escape
        PROVE  tail = SmlEnd
    <2>1. ASSUME NEW i \in 1 .. 5 PROVE s[m - 5 + i] = SmlEnd[i]
      <3>1. CASE i = 5
        BY <1>1, <1>6, <3>1, EndIs
      <3>2. CASE i # 5
        <4>1. 5 - i \in 1 .. 4 /\ i \in 1 .. 4 /\ m - (5 - i) = m - 5 + i
          BY <1>1, <3>2
        <4>2. s[m - (5 - i)] = Escape
          BY <1>6, <4>1, Zenon
        <4>3. QED
          BY <4>1, <4>2, EndIs
      <3>3. QED
        BY <3>1, <3>2
    <2>2. tail = [i \in 1 .. 5 |-> SmlEnd[i]]
      <3> HIDE DEF tail
      <3>1. QED
        BY <1>3, <1>6, <2>1
    <2>3. QED
      BY <2>2, EndIs, Zenon
  <1>7. QED
    BY <1>2, <1>5, <1>6, Zenon
\* The capture goes on: the end of this frame is seen, wherever it began.
LEMMA CaptureNext ==
  ASSUME FrameOK, PhaseOK, smlCapturing, NEW len \in Nat, NEW n \in 0 .. len + 15,
         Capturing(len, n), NEW e, ByteString(e, len), Capture(e[n + 1])
  PROVE  /\ Position(len, n + 1)' /\ PhaseOK'
         /\ n = len + 15 => ~ smlCapturing' /\ smlMatched' = 0
  <1> DEFINE byte == e[n + 1]
             grown == Append(smlBuffer, byte)
             m == Len(smlBuffer)
             S == {smlBuffer[i] : i \in 1 .. m} \union {byte}
  <1>1. smlTrailer \in 0 .. 3 /\ smlMatched = 0 /\ smlCapturing = TRUE
    BY DEF FrameOK, PhaseOK
  <1>2. smlBuffer' = grown /\ smlMatched' = 0
    BY <1>1 DEF Capture
  <1>3. grown \in Seq(S) /\ Extends(grown, smlBuffer, byte, m) /\ m \in Nat
    <2> DEFINE T == {smlBuffer[i] : i \in 1 .. m}
    <2>1. smlBuffer \in Seq(T)
      BY Zenon DEF FrameOK, IsTokens
    <2> HIDE DEF T, byte
    <2>2. smlBuffer \in Seq(T \union {byte}) /\ m \in Nat /\ byte \in T \union {byte}
      BY <2>1
    <2> HIDE DEF m
    <2>3. Len(smlBuffer) = m
      BY DEF m
    <2>4. grown \in Seq(T \union {byte}) /\ Extends(grown, smlBuffer, byte, m)
      BY <2>2, <2>3, AppendIs
    <2>5. QED
      BY <2>2, <2>4, Zenon DEF T
  <1> HIDE DEF S, byte, grown, m
  <1>4. Len(grown) = m + 1 /\ grown[m + 1] = byte /\ \A i \in 1 .. m : grown[i] = smlBuffer[i]
    BY <1>3, Zenon DEF Extends
  <1>5. CASE smlTrailer = 1
    <2>1. smlTrailer' = 0 /\ smlCapturing' = FALSE
      BY <1>5 DEF Capture
    <2>2. Seeking(len, n + 1)'
      BY <1>2 DEF Seeking
    <2>3. QED
      BY <1>2, <2>1, <2>2, Zenon DEF Position, PhaseOK
  <1>6. CASE smlTrailer # 1
    <2>1. /\ smlTrailer' = IF smlTrailer > 1 THEN smlTrailer - 1
                           ELSE IF EndsIn(grown, SmlEnd) THEN 3 ELSE 0
          /\ smlCapturing' = TRUE
      BY <1>1, <1>6 DEF Capture, grown, byte
    <2>2. n # len + 15
      BY <1>1, <1>6 DEF Capturing
    <2>3. ASSUME Capturing(len, n + 1)'
          PROVE  /\ Position(len, n + 1)' /\ PhaseOK'
                 /\ n = len + 15 => ~ smlCapturing' /\ smlMatched' = 0
      BY <1>2, <2>1, <2>2, <2>3, Zenon DEF Position, PhaseOK
    <2>4. ASSUME n + 1 \in len + 9 .. len + 12
          PROVE  /\ Len(smlBuffer') >= n + 1 - 8 - len
                 /\ \A j \in 0 .. n + 1 - 9 - len : smlBuffer'[Len(smlBuffer') - j] = Escape
      <3>1. byte = Escape
        BY <2>4, Zenon DEF ByteString, byte
      <3>2. /\ m >= n - 8 - len
            /\ \A j \in 0 .. n - 9 - len : smlBuffer[m - j] = Escape
        <4>1. CASE n = len + 8
          BY <1>3, <4>1
        <4>2. CASE n # len + 8
          <5>1. n \in len + 9 .. len + 12
            BY <2>4, <4>2
          <5>2. QED
            BY <5>1, Zenon DEF Capturing, m
        <4>3. QED
          BY <4>1, <4>2
      <3>3. ASSUME NEW j \in 0 .. n + 1 - 9 - len PROVE grown[m + 1 - j] = Escape
        <4>1. CASE j = 0
          BY <1>3, <1>4, <3>1, <4>1
        <4>2. CASE j # 0
          <5>1. j - 1 \in 0 .. n - 9 - len /\ m + 1 - j \in 1 .. m /\ m + 1 - j = m - (j - 1)
            BY <1>3, <2>4, <3>2, <4>2
          <5>2. grown[m + 1 - j] = smlBuffer[m + 1 - j]
            BY <1>4, <5>1, Zenon
          <5>3. smlBuffer[m - (j - 1)] = Escape
            BY <3>2, <5>1, Zenon
          <5>4. QED
            BY <5>1, <5>2, <5>3
        <4>3. QED
          BY <4>1, <4>2
      <3>4. m + 1 >= n + 1 - 8 - len
        BY <1>3, <2>4, <3>2
      <3>5. Len(grown) = m + 1
        BY <1>4
      <3>6. ASSUME NEW j \in 0 .. n + 1 - 9 - len PROVE smlBuffer'[Len(smlBuffer') - j] = Escape
        <4>1. Len(smlBuffer') - j = m + 1 - j
          BY <1>2, <1>3, <3>5
        <4>2. grown[m + 1 - j] = Escape
          BY <3>3, Zenon
        <4>3. QED
          BY <1>2, <4>1, <4>2, Zenon
      <3>7. Len(smlBuffer') >= n + 1 - 8 - len
        BY <1>2, <3>4, <3>5
      <3>8. QED
        BY <3>6, <3>7
    <2>5. CASE n < len + 12
      <3>1. byte # Tok("end")
        <4>1. Tok("end").kind = "end" /\ Tok("one").kind = "one" /\ Escape.kind = "escape"
          BY Kinds DEF Escape
        <4>2. n + 1 \in 1 .. 4 \/ n + 1 \in 5 .. 8 \/ n + 1 \in 9 .. len + 8
                \/ n + 1 \in len + 9 .. len + 12
          BY <2>5
        <4>3. byte = Escape \/ byte = Tok("one") \/ byte.kind \in {"code", "num", "list"}
          BY <4>2, Zenon DEF ByteString, byte
        <4>4. byte.kind # "end"
          BY <4>1, <4>3
        <4>5. QED
          BY <4>1, <4>4
      <3>2. ~ EndsIn(grown, SmlEnd)
        <4>1. Len(grown) > 0 /\ grown[Len(grown)] # Tok("end")
          BY <1>3, <1>4, <3>1
        <4>2. QED
          BY <1>3, <4>1, EndsInIs, Zenon
      <3>3. smlTrailer' = IF smlTrailer > 1 THEN smlTrailer - 1 ELSE 0
        BY <2>1, <3>2, Zenon
      <3>4. smlTrailer = 0 \/ smlTrailer + n <= 3
        BY <2>5 DEF Capturing
      <3>5. smlTrailer' = 0 \/ smlTrailer' + (n + 1) <= 3
        BY <1>1, <3>3, <3>4
      <3>6. ~ (n + 1 > len + 12)
        BY <2>5
      <3>7. Capturing(len, n + 1)'
        BY <2>4, <3>5, <3>6 DEF Capturing
      <3>8. QED
        BY <2>3, <3>7, Zenon
    <2>6. CASE n = len + 12
      <3>1. smlTrailer = 0
        BY <1>1, <2>6 DEF Capturing
      <3>2. byte = Tok("end")
        <4>1. n + 1 = len + 13
          BY <2>6
        <4>2. QED
          BY <4>1, Zenon DEF ByteString, byte
      <3>3. m >= 4 /\ \A j \in 0 .. 3 : smlBuffer[m - j] = Escape
        <4>1. n \in len + 9 .. len + 12 /\ n - 8 - len = 4 /\ n - 9 - len = 3
          BY <2>6
        <4>2. QED
          BY <4>1, Zenon DEF Capturing, m
      <3>4. ASSUME NEW j \in 1 .. 4 PROVE grown[m + 1 - j] = Escape
        <4>1. j - 1 \in 0 .. 3 /\ m + 1 - j \in 1 .. m /\ m + 1 - j = m - (j - 1)
          BY <1>3, <3>3
        <4>2. grown[m + 1 - j] = smlBuffer[m + 1 - j]
          BY <1>4, <4>1, Zenon
        <4>3. smlBuffer[m - (j - 1)] = Escape
          BY <3>3, <4>1, Zenon
        <4>4. QED
          BY <4>1, <4>2, <4>3
      <3>5. EndsIn(grown, SmlEnd)
        <4>1. Len(grown) > 0 /\ Len(grown) >= 5 /\ grown[Len(grown)] = Tok("end")
          BY <1>3, <1>4, <3>2, <3>3
        <4>2. \A j \in 1 .. 4 : grown[Len(grown) - j] = Escape
          <5>1. Len(grown) = m + 1
            BY <1>4
          <5>2. ASSUME NEW j \in 1 .. 4 PROVE grown[Len(grown) - j] = Escape
            <6>1. Len(grown) - j = m + 1 - j
              BY <1>3, <5>1
            <6>2. QED
              BY <3>4, <6>1, Zenon
          <5>3. QED
            BY <5>2
        <4>3. QED
          BY <1>3, <4>1, <4>2, EndsInIs, Zenon
      <3>6. smlTrailer' = 3
        BY <2>1, <3>1, <3>5
      <3>7. Capturing(len, n + 1)'
        BY <2>6, <3>6 DEF Capturing
      <3>8. QED
        BY <2>3, <3>7, Zenon
    <2>7. CASE n > len + 12
      <3>1. smlTrailer = len + 16 - n
        BY <2>7 DEF Capturing
      <3>2. smlTrailer' = len + 16 - (n + 1)
        BY <1>1, <1>6, <2>1, <2>2, <2>7, <3>1
      <3>3. ~ (n + 1 < len + 13) /\ n + 1 \notin len + 9 .. len + 12
        BY <2>7
      <3>4. Capturing(len, n + 1)'
        BY <3>2, <3>3, Zenon DEF Capturing
      <3>5. QED
        BY <2>3, <3>4, Zenon
    <2>8. QED
      BY <2>5, <2>6, <2>7
  <1>7. QED
    BY <1>5, <1>6

LEMMA PositionNext ==
  ASSUME FrameOK, PhaseOK, NEW len \in Nat, NEW n \in 0 .. len + 15,
         Position(len, n), NEW e, ByteString(e, len), ConsumeByte(e[n + 1])
  PROVE  /\ Position(len, n + 1)' /\ PhaseOK'
         /\ n = len + 15 => ~ smlCapturing' /\ smlMatched' = 0
  <1>1. CASE ~ smlCapturing /\ SeekStart(e[n + 1])
    <2>1. Seeking(len, n)
      BY <1>1 DEF Position
    <2>2. QED
      BY <1>1, <2>1, SeekNext
  <1>2. CASE smlCapturing /\ DropFrame
    <2>1. smlMatched' = 0 /\ smlCapturing' = FALSE /\ smlTrailer' = 0
      BY <1>2 DEF DropFrame, ResetParser
    <2>2. Seeking(len, n + 1)'
      BY <2>1 DEF Seeking
    <2>3. QED
      BY <2>1, <2>2, Zenon DEF Position, PhaseOK
  <1>3. CASE smlCapturing /\ Capture(e[n + 1])
    <2>1. Capturing(len, n)
      BY <1>3 DEF Position
    <2>2. QED
      BY <1>3, <2>1, CaptureNext
  <1>4. QED
    BY <1>1, <1>2, <1>3, Zenon DEF ConsumeByte
LEMMA ParseGood ==
  ASSUME CheckOK, NEW frame, Len(frame) \in Nat, CrcOk(frame), ParseFrame(frame)
  PROVE  smlResult' = Report(Legacy(frame))
  <1>1. OnePass(frame) = Legacy(frame)
    BY OnePassIsLegacy
  <1>2. QED
    BY <1>1, Zenon DEF ParseFrame

LEMMA PrefixIs ==
  ASSUME NEW S, NEW e \in Seq(S), NEW n \in 0 .. Len(e) - 1
  PROVE  /\ SubSeq(e, 1, n) \in Seq(S) /\ Len(SubSeq(e, 1, n)) = n
         /\ Append(SubSeq(e, 1, n), e[n + 1]) = SubSeq(e, 1, n + 1)
  <1> DEFINE part == SubSeq(e, 1, n)
             x == e[n + 1]
             m == n + 1
  <1>1. Len(e) \in Nat /\ n \in Nat /\ m \in 1 .. Len(e) /\ x \in S
    OBVIOUS
  <1>2. part \in Seq(S) /\ Len(part) = n /\ \A i \in 1 .. n : part[i] = e[i]
    BY <1>1
  <1>3. SubSeq(e, 1, m) = [i \in 1 .. m |-> e[i]]
    BY <1>1
  <1> HIDE DEF part, x
  <1>4. Append(part, x) \in Seq(S) /\ Extends(Append(part, x), part, x, n)
    BY <1>1, <1>2, AppendIs
  <1> DEFINE a == Append(part, x)
  <1>5. a = [i \in 1 .. m |-> a[i]]
    <2> HIDE DEF a
    <2>1. a \in Seq(S) /\ Len(a) = m
      BY <1>4, Zenon DEF Extends, a
    <2>2. QED
      BY <2>1
  <1>6. ASSUME NEW i \in 1 .. m PROVE a[i] = e[i]
    <2>1. CASE i = m
      BY <1>4, <2>1 DEF Extends, x
    <2>2. CASE i # m
      <3>1. i \in 1 .. n
        BY <1>1, <2>2
      <3>2. QED
        BY <1>2, <1>4, <3>1, Zenon DEF Extends
    <2>3. QED
      BY <2>1, <2>2
  <1> HIDE DEF a
  <1>7. a = SubSeq(e, 1, m)
    BY <1>3, <1>5, <1>6
  <1>8. QED
    BY <1>2, <1>7 DEF a, part, x

\* A parser that has stayed with a frame from its first byte on goes on so and
\* decodes it.
LEMMA SyncedNext ==
  ASSUME FrameOK, PhaseOK, CheckOK, NEW t, IsTelegram(t), NEW n \in 0 .. Len(t) + 15,
         Position(Len(t), n), Synced(t, n), ConsumeByte(Encode(t)[n + 1])
  PROVE  /\ n < Len(t) + 15 => Synced(t, n + 1)'
         /\ n = Len(t) + 15 => smlResult' = Report(Legacy(Encode(t)))
  <1> DEFINE len == Len(t)
             e == Encode(t)
  <1>1. len \in Nat /\ len + 16 <= MaxSml /\ MaxSml \in Nat
    BY TelegramIs, SmlAssumption
  <1>2. PICK S : e \in Seq(S)
    BY EncodeIs, Zenon
  <1>3. ByteString(e, len) /\ Len(e) = len + 16 /\ CrcOk(e)
    BY EncodeIs, Zenon
  <1>4. CASE n < 8
    <2>1. ~ smlCapturing /\ smlMatched = n /\ SeekStart(e[n + 1])
      BY <1>4, Zenon DEF Synced, ConsumeByte
    <2>2. n # len + 15 /\ n \in 0 .. 7
      BY <1>1, <1>4
    <2>3. CASE n < 4
      <3>1. e[n + 1] = Escape
        <4>1. n + 1 \in 1 .. 4
          BY <2>2, <2>3
        <4>2. QED
          BY <1>3, <4>1, Zenon DEF ByteString
      <3>2. smlMatched' = n + 1 /\ ~ smlCapturing'
        <4>1. smlMatched < 4
          BY <2>1, <2>3, Zenon
        <4>2. QED
          BY <2>1, <3>1, <4>1, SeekStartIs, Zenon
      <3>3. n + 1 < 8 /\ ~ (n + 1 >= 8)
        BY <2>2, <2>3
      <3>4. Synced(t, n + 1)'
        BY <3>2, <3>3, Zenon DEF Synced
      <3>5. QED
        BY <2>2, <3>4, Zenon
    <2>4. CASE n \in 4 .. 7
      <3>1. e[n + 1] = Tok("one")
        <4>1. n + 1 \in 5 .. 8
          BY <2>4
        <4>2. QED
          BY <1>3, <4>1, Zenon DEF ByteString
      <3>2. /\ smlMatched' = IF smlMatched \in 4 .. 6 THEN smlMatched + 1 ELSE 0
            /\ smlCapturing' = (smlMatched = 7)
            /\ smlMatched = 7 => smlBuffer' = SmlStart
        BY <2>1, <3>1, SeekStartIs, Zenon
      <3>3. CASE n = 7
        <4>1. smlCapturing' /\ smlBuffer' = SmlStart
          BY <2>1, <3>2, <3>3, Zenon
        <4>2. SmlStart = SubSeq(e, 1, 8)
          <5>1. SmlStart = [i \in 1 .. 8 |-> SmlStart[i]]
            <6>1. SmlStart \in Seq({SmlStart[i] : i \in 1 .. Len(SmlStart)}) /\ Len(SmlStart) = 8
              BY StartIs, Zenon DEF IsTokens
            <6>2. QED
              BY <6>1
          <5>2. SubSeq(e, 1, 8) = [i \in 1 .. 8 |-> e[i]]
            <6>1. 8 \in 0 .. Len(e)
              BY <1>1, <1>3
            <6> HIDE DEF e
            <6>2. QED
              BY <1>2, <6>1
          <5>3. ASSUME NEW i \in 1 .. 8 PROVE SmlStart[i] = e[i]
            <6>1. i \in 1 .. 4 \/ i \in 5 .. 8
              OBVIOUS
            <6>2. QED
              BY <1>3, <6>1, StartBytes, Zenon DEF ByteString
          <5> HIDE DEF e
          <5>4. QED
            BY <5>1, <5>2, <5>3
        <4>3. n + 1 = 8 /\ ~ (n + 1 < 8)
          BY <3>3
        <4>4. Synced(t, n + 1)'
          BY <4>1, <4>2, <4>3, Zenon DEF Synced
        <4>5. QED
          BY <2>2, <4>4, Zenon
      <3>4. CASE n # 7
        <4>1. smlMatched \in 4 .. 6 /\ smlMatched # 7
          BY <2>1, <2>4, <3>4
        <4>2. smlMatched' = n + 1 /\ ~ smlCapturing'
          BY <2>1, <3>2, <4>1, Zenon
        <4>3. n + 1 < 8 /\ ~ (n + 1 >= 8)
          BY <2>4, <3>4
        <4>4. Synced(t, n + 1)'
          BY <4>2, <4>3, Zenon DEF Synced
        <4>5. QED
          BY <2>2, <4>4, Zenon
      <3>5. QED
        BY <3>3, <3>4
    <2>5. QED
      BY <2>2, <2>3, <2>4
  <1>5. CASE n >= 8
    <2> DEFINE grown == Append(smlBuffer, e[n + 1])
    <2>1. smlCapturing /\ smlBuffer = SubSeq(e, 1, n)
      BY <1>5, Zenon DEF Synced
    <2>2. n \in 0 .. Len(e) - 1
      BY <1>1, <1>3
    <2>3. Len(smlBuffer) = n /\ grown = SubSeq(e, 1, n + 1)
      <3> HIDE DEF e
      <3>1. QED
        BY <1>2, <2>1, <2>2, PrefixIs
    <2>4. ~ (Len(smlBuffer) >= MaxSml)
      BY <1>1, <2>3
    <2>5. Capture(e[n + 1])
      BY <2>1, <2>4, Zenon DEF ConsumeByte
    <2>6. Capturing(len, n)
      BY <2>1, Zenon DEF Position
    <2>7. smlTrailer \in 0 .. 3
      BY DEF FrameOK
    <2>8. CASE n < len + 15
      <3>1. smlTrailer # 1
        <4>1. CASE n < len + 13
          BY <1>1, <1>5, <2>6, <2>7, <4>1 DEF Capturing
        <4>2. CASE n \in {len + 13, len + 14}
          BY <1>1, <2>6, <2>7, <4>2 DEF Capturing
        <4>3. QED
          BY <1>1, <2>8, <4>1, <4>2
      <3>2. smlBuffer' = grown /\ smlCapturing' = smlCapturing
        BY <2>5, <3>1 DEF Capture
      <3>3. ~ (n + 1 < 8)
        BY <1>5
      <3>4. Synced(t, n + 1)'
        BY <2>1, <2>3, <3>2, <3>3, Zenon DEF Synced
      <3>5. n # len + 15
        BY <1>1, <2>8
      <3>6. QED
        BY <3>4, <3>5, Zenon
    <2>9. CASE n = len + 15
      <3>1. smlTrailer = 1
        BY <1>1, <2>6, <2>9 DEF Capturing
      <3>2. ParseFrame(grown)
        BY <2>5, <3>1 DEF Capture
      <3>3. grown = e
        <4>1. n + 1 = Len(e)
          BY <1>1, <1>3, <2>9
        <4> HIDE DEF e
        <4>2. SubSeq(e, 1, Len(e)) = e
          BY <1>2
        <4>3. QED
          BY <2>3, <4>1, <4>2
      <3>4. Len(e) \in Nat
        BY <1>1, <1>3
      <3>5. smlResult' = Report(Legacy(e))
        BY <1>3, <3>2, <3>3, <3>4, ParseGood, Zenon
      <3>6. ~ (n < len + 15)
        BY <1>1, <2>9
      <3>7. QED
        BY <3>5, <3>6, Zenon
    <2>10. QED
      BY <1>1, <2>8, <2>9
  <1>6. QED
    BY <1>4, <1>5
-----------------------------------------------------------------------------
(***************************************************************************)
(* The line and the parser together.                                       *)
(***************************************************************************)
LEMMA PhaseNext ==
  ASSUME FrameOK, PhaseOK, NEW byte, ConsumeByte(byte)
  PROVE  PhaseOK'
  <1>1. CASE ~ smlCapturing /\ SeekStart(byte)
    <2>1. (smlCapturing' => smlMatched' = 0) /\ smlTrailer' = smlTrailer
      BY <1>1, Zenon DEF SeekStart
    <2>2. QED
      BY <1>1, <2>1, Zenon DEF PhaseOK
  <1>2. CASE DropFrame
    BY <1>2 DEF DropFrame, ResetParser, PhaseOK
  <1>3. CASE smlCapturing /\ Capture(byte)
    <2>1. smlMatched = 0 /\ smlMatched' = smlMatched
      BY <1>3, Zenon DEF PhaseOK, Capture
    <2>2. smlTrailer' = 0 \/ smlCapturing' = smlCapturing
      BY <1>3, Zenon DEF Capture
    <2>3. QED
      BY <1>3, <2>1, <2>2, Zenon DEF PhaseOK
  <1>4. QED
    BY <1>1, <1>2, <1>3, Zenon DEF ConsumeByte

LEMMA LineStarts ==
  ASSUME SmlInit
  PROVE  LineOK /\ SmlResync
  <1>1. \A t \in smlSends : IsTelegram(t)
    <2>1. \/ smlSends = SmlSome
          \/ \E t \in SmlAll : smlSends = {t}
      BY DEF SmlInit
    <2>2. QED
      BY <2>1, TelegramAssumption
  <1>2. smlWire = <<>> /\ smlRun = 0 /\ smlTrailer = 0 /\ smlCapturing = FALSE
    BY DEF SmlInit
  <1>3. SmlResync
    BY <1>2 DEF SmlResync
  <1>4. QED
    BY <1>1, <1>2, <1>3, Zenon DEF LineOK, PhaseOK

\* Behind a fault nothing is promised but that.
LEMMA LineBroken ==
  ASSUME LineOK, smlSends' = smlSends, smlWhole' = FALSE, smlRun' = 0, PhaseOK'
  PROVE  LineOK' /\ SmlResync'
  <1>1. smlRun' # 2
    OBVIOUS
  <1>2. QED
    BY <1>1, Zenon DEF LineOK, SmlResync

LEMMA SendOK ==
  ASSUME SmlInv, LineOK, SendFrame
  PROVE  LineOK' /\ SmlResync'
  <1>1. FrameOK /\ RunOK /\ PhaseOK
    BY SmlInvIs, Zenon DEF LineOK
  <1>2. PICK t \in smlSends : smlWire' = Encode(t)
    BY Zenon DEF SendFrame
  <1>3. /\ smlWire = <<>> /\ smlSends' = smlSends /\ smlWhole' /\ smlRun' = smlRun
        /\ smlCapturing' = smlCapturing /\ smlMatched' = smlMatched
        /\ smlTrailer' = smlTrailer /\ smlBuffer' = smlBuffer
    BY DEF SendFrame, parserVars
  <1>4. IsTelegram(t)
    BY Zenon DEF LineOK
  <1> DEFINE e == Encode(t)
             len == Len(t)
  <1>5. len \in Nat
    BY <1>4, TelegramIs
  <1>6. smlWire' = WireFrom(e, 0) /\ smlWire' # <<>>
    <2>1. PICK S : e \in Seq(S)
      BY <1>4, EncodeIs, Zenon
    <2>2. Len(e) = len + 16
      BY <1>4, EncodeIs, Zenon
    <2>3. 0 \in 0 .. Len(e) - 1
      BY <1>5, <2>2
    <2> HIDE DEF e
    <2>4. Leaves(e, 0) /\ WireFrom(e, 0) = e
      BY <2>1, <2>3, SuffixIs, WholeSuffix, Zenon
    <2>5. QED
      BY <1>2, <2>4, Zenon DEF Leaves, e
  <1>7. Position(len, 0)'
    <2>1. smlTrailer + 0 <= 3
      BY <1>1 DEF FrameOK
    <2>2. Capturing(len, 0)'
      BY <1>3, <1>5, <2>1 DEF Capturing
    <2>3. Seeking(len, 0)'
      BY <1>5 DEF Seeking
    <2>4. QED
      BY <2>2, <2>3, Zenon DEF Position
  <1>8. smlRun' # 0 => Synced(t, 0)'
    <2>1. 0 < 8 /\ ~ (0 >= 8)
      OBVIOUS
    <2>2. smlRun # 0 => ~ smlCapturing /\ smlMatched = 0
      BY <1>3, Zenon DEF LineOK
    <2>3. QED
      BY <1>3, <2>1, <2>2, Zenon DEF Synced
  <1>9. Within(t, 0)'
    BY <1>6, <1>7, <1>8, Zenon DEF Within
  <1>10. 0 \in 0 .. len + 15
    BY <1>5
  <1>11. PhaseOK'
    BY <1>1, <1>3, Zenon DEF PhaseOK
  <1>12. SmlResync'
    BY <1>6, Zenon DEF SmlResync
  <1>13. QED
    BY <1>3, <1>6, <1>9, <1>10, <1>11, <1>12, Zenon DEF LineOK

LEMMA DeliverOK ==
  ASSUME SmlInv, LineOK, DeliverByte
  PROVE  LineOK' /\ SmlResync'
  <1>1. FrameOK /\ CheckOK /\ RunOK /\ PhaseOK
    BY SmlInvIs, Zenon DEF LineOK
  <1>2. /\ smlWire # <<>> /\ ConsumeByte(Head(smlWire)) /\ smlWire' = Tail(smlWire)
        /\ smlRun' = IF Len(smlWire) > 1 THEN smlRun
                     ELSE IF smlWhole THEN Min({smlRun + 1, 2}) ELSE 0
        /\ smlSends' = smlSends /\ smlWhole' = smlWhole
    BY DEF DeliverByte
  <1>3. PhaseOK'
    BY <1>1, <1>2, PhaseNext, Zenon
  <1>4. CASE ~ smlWhole
    <2>1. smlRun = 0
      BY <1>2, <1>4, Zenon DEF LineOK
    <2>2. smlRun' = 0
      BY <1>2, <1>4, <2>1, Zenon
    <2>3. smlRun' # 2
      BY <2>2
    <2>4. QED
      BY <1>2, <1>3, <1>4, <2>2, <2>3, Zenon DEF LineOK, SmlResync
  <1>5. CASE smlWhole
    <2>1. PICK t \in smlSends : \E n \in 0 .. Len(t) + 15 : Within(t, n)
      BY <1>2, <1>5, Zenon DEF LineOK
    <2>2. PICK n \in 0 .. Len(t) + 15 : Within(t, n)
      BY <2>1, Zenon
    <2> DEFINE e == Encode(t)
               len == Len(t)
    <2>3. IsTelegram(t) /\ len \in Nat
      BY TelegramIs, Zenon DEF LineOK
    <2>4. PICK S : e \in Seq(S)
      BY <2>3, EncodeIs, Zenon
    <2>5. ByteString(e, len) /\ Len(e) = len + 16
      BY <2>3, EncodeIs, Zenon
    <2>6. smlWire = WireFrom(e, n) /\ Position(len, n) /\ (smlRun # 0 => Synced(t, n))
      BY <2>2, Zenon DEF Within
    <2>7. Leaves(e, n)
      <3>1. n \in 0 .. Len(e) - 1
        BY <2>3, <2>5
      <3> HIDE DEF e
      <3>2. QED
        BY <2>4, <3>1, SuffixIs, Zenon
    <2>8. ConsumeByte(e[n + 1]) /\ smlWire' = WireFrom(e, n + 1) /\ Len(smlWire) = len + 16 - n
      <3>1. Head(smlWire) = e[n + 1] /\ smlWire' = WireFrom(e, n + 1) /\ Len(smlWire) = Len(e) - n
        BY <1>2, <2>6, <2>7, Zenon DEF Leaves
      <3>2. Len(e) - n = len + 16 - n
        BY <2>3, <2>5
      <3>3. QED
        BY <1>2, <3>1, <3>2, Zenon
    <2>9. /\ Position(len, n + 1)'
          /\ n = len + 15 => ~ smlCapturing' /\ smlMatched' = 0
      BY <1>1, <2>3, <2>5, <2>6, <2>8, PositionNext, Zenon
    <2>10. ASSUME smlRun # 0
           PROVE  /\ n < len + 15 => Synced(t, n + 1)'
                  /\ n = len + 15 => smlResult' = Report(Legacy(e))
      <3>1. Synced(t, n)
        BY <2>6, <2>10, Zenon
      <3>2. QED
        BY <1>1, <2>3, <2>6, <2>8, <3>1, SyncedNext, Zenon
    <2>11. CASE n < len + 15
      <3>1. Len(smlWire) > 1 /\ n + 1 \in 0 .. len + 15 /\ n + 1 \in 0 .. Len(e) - 1
        BY <2>3, <2>5, <2>8, <2>11
      <3>2. smlRun' = smlRun
        BY <1>2, <3>1, Zenon
      <3>3. Within(t, n + 1)'
        BY <2>8, <2>9, <2>10, <2>11, <3>2, Zenon DEF Within
      <3>4. smlWire' # <<>>
        <4>1. Leaves(e, n + 1)
          <5> HIDE DEF e
          <5>1. QED
            BY <2>4, <3>1, SuffixIs, Zenon
        <4>2. QED
          BY <2>8, <4>1, Zenon DEF Leaves
      <3>5. QED
        BY <1>2, <1>3, <1>5, <3>1, <3>3, <3>4, Zenon DEF LineOK, SmlResync
    <2>12. CASE n = len + 15
      <3>1. ~ (Len(smlWire) > 1) /\ n + 1 = Len(e)
        BY <2>3, <2>5, <2>8, <2>12
      <3>2. smlWire' = <<>>
        <4>1. smlWire' = WireFrom(e, Len(e))
          BY <2>8, <3>1, Zenon
        <4> HIDE DEF e
        <4>2. QED
          BY <2>4, <4>1, WholeSuffix, Zenon
      <3>3. smlRun' = Min({smlRun + 1, 2})
        BY <1>2, <1>5, <3>1, Zenon
      <3>4. smlRun' = 2 => smlRun # 0
        <4>1. {smlRun + 1, 2} \in SUBSET Nat /\ {smlRun + 1, 2} # {} /\ smlRun \in Nat
          BY <1>1 DEF RunOK
        <4>2. smlRun' <= smlRun + 1
          BY <3>3, <4>1, MinIs
        <4>3. QED
          BY <4>1, <4>2
      <3>5. ~ smlCapturing' /\ smlMatched' = 0
        BY <2>9, <2>12, Zenon
      <3>6. SmlResync'
        BY <1>2, <2>10, <2>12, <3>4, Zenon DEF SmlResync
      <3>7. QED
        BY <1>2, <1>3, <3>2, <3>5, <3>6, Zenon DEF LineOK
    <2>13. QED
      BY <2>3, <2>11, <2>12
  <1>6. QED
    BY <1>4, <1>5

LEMMA LineStep ==
  ASSUME SmlInv, LineOK, SmlResync, [SmlNext]_smlVars
  PROVE  LineOK' /\ SmlResync'
  <1>1. FrameOK /\ PhaseOK
    BY SmlInvIs, Zenon DEF LineOK
  <1>2. ASSUME SmlFault, PhaseOK' PROVE LineOK' /\ SmlResync'
    BY <1>2, LineBroken, Zenon DEF SmlFault
  <1>3. CASE LoseByte
    <2>1. PhaseOK'
      BY <1>1, <1>3 DEF LoseByte, parserVars, PhaseOK
    <2>2. QED
      BY <1>2, <1>3, <2>1, Zenon DEF LoseByte
  <1>4. CASE Noise
    <2>1. PICK byte : SmlFault /\ ConsumeByte(byte)
      BY <1>4, Zenon DEF Noise
    <2>2. QED
      BY <1>1, <1>2, <2>1, PhaseNext, Zenon
  <1>5. CASE OutsideReset
    <2>1. PhaseOK'
      BY <1>5 DEF OutsideReset, ResetParser, PhaseOK
    <2>2. QED
      BY <1>2, <1>5, <2>1, Zenon DEF OutsideReset
  <1>6. CASE UNCHANGED smlVars
    BY <1>6 DEF LineOK, PhaseOK, Within, Position, Capturing, Seeking, Synced, SmlResync,
                smlVars, lineVars, checkVars
  <1>7. QED
    BY <1>3, <1>4, <1>5, <1>6, SendOK, DeliverOK, Zenon DEF SmlNext

\* Whatever bytes were lost, damaged or came out of nowhere before, and however
\* often the parser was taken back: the second of two whole frames in a row is
\* decoded, for telegrams of any items and a buffer they just fit.
THEOREM ResyncHolds == SmlSpec => []SmlResync
  <1> DEFINE Inv == SmlInv /\ LineOK /\ SmlResync
  <1>1. SmlInit => Inv
    BY ParserStarts, LineStarts
  <1>2. Inv /\ [SmlNext]_smlVars => Inv'
    BY SmlStep, LineStep
  <1>3. QED
    BY <1>1, <1>2, PTL DEF SmlSpec
-----------------------------------------------------------------------------
(***************************************************************************)
(* The telegrams of a D0 meter, character by character.                    *)
(***************************************************************************)
Body(r) == <<Line("import", r["import"]), Char("newline"),
             Line("power", r["power"]), Char("newline"), Char("bang"), Char("newline")>>

\* The text between its beginning and its end, of which k characters come before.
TextAt(e, r, k) ==
  /\ e[k + 1] = Line("import", r["import"]) /\ e[k + 2] = Char("newline")
  /\ e[k + 3] = Line("power", r["power"]) /\ e[k + 4] = Char("newline")
  /\ e[k + 5] = Char("bang") /\ e[k + 6] = Char("newline")

PassiveText(e, r) ==
  /\ IsTokens(e) /\ Len(e) = 8
  /\ e[1] = Char("slash") /\ e[2] = Char("newline") /\ TextAt(e, r, 2)

Block(e) == SubSeq(e, 3, 10)

ActiveText(e, r) ==
  /\ IsTokens(e) /\ Len(e) = 11
  /\ e[1] = Char("slash") /\ e[2] = Char("newline") /\ e[3] = Char("stx")
  /\ TextAt(e, r, 3) /\ e[10] = Char("etx") /\ e[11] = Bcc(Block(e))

LEMMA BodyIs ==
  ASSUME NEW r
  PROVE  /\ Body(r) \in Seq({Body(r)[i] : i \in 1 .. 6}) /\ Len(Body(r)) = 6
         /\ TextAt(Body(r), r, 0)
  BY DEF Body, TextAt

\* The body, moved by k places.
LEMMA TextJoins ==
  ASSUME NEW r, NEW c, NEW a, NEW k \in Nat, Joins(c, a, Body(r), k, 6)
  PROVE  TextAt(c, r, k)
  <1>1. \A j \in 1 .. 6 : k + j \in k + 1 .. k + 6 /\ (k + j) - k = j
    OBVIOUS
  <1>2. \A j \in 1 .. 6 : c[k + j] = Body(r)[j]
    BY <1>1, Zenon DEF Joins
  <1>3. TextAt(Body(r), r, 0)
    BY BodyIs
  <1> HIDE DEF Body
  <1>4. QED
    BY <1>2, <1>3 DEF TextAt

LEMMA PassiveIs ==
  ASSUME NEW r
  PROVE  PassiveText(Telegram(TRUE, r), r)
  <1> DEFINE S == {Body(r)[i] : i \in 1 .. 6} \union {Char("slash"), Char("newline")}
             a == <<Char("slash"), Char("newline")>>
             e == a \o Body(r)
  <1>1. Telegram(TRUE, r) = e
    BY DEF Telegram, Body
  <1>2. Char("slash") \in S /\ Char("newline") \in S /\ {Body(r)[i] : i \in 1 .. 6} \subseteq S
    OBVIOUS
  <1>3. Body(r) \in Seq({Body(r)[i] : i \in 1 .. 6}) /\ Len(Body(r)) = 6
    BY BodyIs
  <1> HIDE DEF S
  <1>4. Body(r) \in Seq(S)
    <2> HIDE DEF Body
    <2>1. QED
      BY <1>2, <1>3
  <1>5. a \in Seq(S) /\ Len(a) = 2 /\ a[1] = Char("slash") /\ a[2] = Char("newline")
    BY <1>2
  <1> HIDE DEF a
  <1>6. e \in Seq(S) /\ Joins(e, a, Body(r), 2, 6)
    BY <1>3, <1>4, <1>5, ConcatIs
  <1> HIDE DEF e
  <1>7. TextAt(e, r, 2)
    BY <1>6, TextJoins
  <1>8. IsTokens(e) /\ Len(e) = 8 /\ e[1] = Char("slash") /\ e[2] = Char("newline")
    BY <1>5, <1>6, TokensOf DEF Joins
  <1>9. QED
    BY <1>1, <1>7, <1>8 DEF PassiveText

LEMMA ActiveIs ==
  ASSUME NEW r
  PROVE  ActiveText(Telegram(FALSE, r), r)
  <1> DEFINE a == <<Char("slash"), Char("newline")>>
             b == <<Char("stx")>>
             c == <<Char("etx")>>
             block == (b \o Body(r)) \o c
             x == Bcc(block)
             S == {Body(r)[i] : i \in 1 .. 6}
                    \union {Char("slash"), Char("newline"), Char("stx"), Char("etx"), x}
             e == a \o Append(block, x)
  <1>1. Telegram(FALSE, r) = e
    BY DEF Telegram, Body
  <1> HIDE DEF x
  <1>2. /\ Char("slash") \in S /\ Char("newline") \in S /\ Char("stx") \in S
        /\ Char("etx") \in S /\ x \in S /\ {Body(r)[i] : i \in 1 .. 6} \subseteq S
    OBVIOUS
  <1>3. Body(r) \in Seq({Body(r)[i] : i \in 1 .. 6}) /\ Len(Body(r)) = 6
    BY BodyIs
  <1> HIDE DEF S
  <1>4. Body(r) \in Seq(S)
    <2> HIDE DEF Body
    <2>1. QED
      BY <1>2, <1>3
  <1>5. /\ a \in Seq(S) /\ Len(a) = 2 /\ a[1] = Char("slash") /\ a[2] = Char("newline")
        /\ b \in Seq(S) /\ Len(b) = 1 /\ b[1] = Char("stx")
        /\ c \in Seq(S) /\ Len(c) = 1 /\ c[1] = Char("etx")
    BY <1>2
  <1> HIDE DEF a, b, c
  <1> DEFINE p == b \o Body(r)
  <1>6. p \in Seq(S) /\ Joins(p, b, Body(r), 1, 6)
    BY <1>3, <1>4, <1>5, ConcatIs
  <1>7. TextAt(p, r, 1) /\ p[1] = Char("stx") /\ Len(p) = 7
    <2>1. TextAt(p, r, 1)
      BY <1>6, TextJoins
    <2>2. 1 \in 1 .. 1 /\ 1 + 6 = 7
      OBVIOUS
    <2>3. p[1] = b[1] /\ Len(p) = 7
      BY <1>6, <2>2, Zenon DEF Joins
    <2>4. QED
      BY <1>5, <2>1, <2>3, Zenon
  <1> HIDE DEF p
  <1>8. p \o c \in Seq(S) /\ Joins(p \o c, p, c, 7, 1)
    BY <1>5, <1>6, <1>7, ConcatIs
  <1>9. block = p \o c
    BY DEF p
  <1> HIDE DEF block
  <1>10. /\ block \in Seq(S) /\ Len(block) = 8 /\ TextAt(block, r, 1)
         /\ block[1] = Char("stx") /\ block[8] = Char("etx")
    <2>1. \A i \in 1 .. 7 : block[i] = p[i]
      BY <1>8, <1>9, Zenon DEF Joins
    <2>2. 8 \in 7 + 1 .. 7 + 1 /\ 8 - 7 = 1 /\ 7 + 1 = 8
      OBVIOUS
    <2>3. block[8] = c[1] /\ Len(block) = 8
      BY <1>8, <1>9, <2>2 DEF Joins
    <2>4. TextAt(block, r, 1) /\ block[1] = Char("stx")
      BY <1>7, <2>1 DEF TextAt
    <2>5. QED
      BY <1>5, <1>8, <1>9, <2>3, <2>4
  <1> DEFINE q == Append(block, x)
  <1>11. q \in Seq(S) /\ Extends(q, block, x, 8)
    BY <1>2, <1>10, AppendIs
  <1>12. Len(q) = 9 /\ q[9] = x /\ \A i \in 1 .. 8 : q[i] = block[i]
    BY <1>11 DEF Extends
  <1> HIDE DEF q
  <1>13. a \o q \in Seq(S) /\ Joins(a \o q, a, q, 2, 9)
    BY <1>5, <1>11, <1>12, ConcatIs
  <1>14. e = a \o q
    BY DEF q
  <1> HIDE DEF e
  <1>15. e \in Seq(S) /\ Len(e) = 11 /\ e[1] = Char("slash") /\ e[2] = Char("newline")
    <2>1. 1 \in 1 .. 2 /\ 2 \in 1 .. 2 /\ 2 + 9 = 11
      OBVIOUS
    <2>2. QED
      BY <1>5, <1>13, <1>14, <2>1, Zenon DEF Joins
  <1>16. \A j \in 1 .. 9 : e[2 + j] = q[j]
    <2>1. \A j \in 1 .. 9 : 2 + j \in 2 + 1 .. 2 + 9 /\ (2 + j) - 2 = j
      OBVIOUS
    <2>2. QED
      BY <1>13, <1>14, <2>1, Zenon DEF Joins
  <1>17. /\ e[3] = Char("stx") /\ TextAt(e, r, 3) /\ e[10] = Char("etx") /\ e[11] = x
    BY <1>10, <1>12, <1>16 DEF TextAt
  <1>18. Block(e) = block
    <2>1. Block(e) = [i \in 1 .. 8 |-> e[i + 2]]
      BY <1>15 DEF Block
    <2>2. block = [i \in 1 .. 8 |-> block[i]]
      BY <1>10
    <2>3. \A i \in 1 .. 8 : e[i + 2] = block[i]
      BY <1>12, <1>16
    <2>4. QED
      BY <2>1, <2>2, <2>3
  <1>19. IsTokens(e)
    BY <1>15, TokensOf
  <1>20. QED
    BY <1>1, <1>15, <1>17, <1>18, <1>19 DEF ActiveText, x
-----------------------------------------------------------------------------
(***************************************************************************)
(* The D0 parser: what a byte can do to it.                                *)
(***************************************************************************)
D0Idle ==
  /\ d0Capturing = FALSE /\ d0HasStx = FALSE /\ d0Wait = FALSE /\ d0Bang = FALSE
  /\ d0Buffer = <<>> /\ d0Block = <<>>

\* The frame is a sequence, an idle parser holds nothing, and only a frame with
\* STX waits for its check character.
D0FrameOK ==
  /\ IsTokens(d0Buffer) /\ IsTokens(d0Block) /\ Len(d0Buffer) <= MaxD0
  /\ d0Capturing \in BOOLEAN /\ d0HasStx \in BOOLEAN /\ d0Wait \in BOOLEAN /\ d0Bang \in BOOLEAN
  /\ ~ d0Capturing => D0Idle
  /\ d0Wait => d0HasStx

Starts(byte) == byte.kind \in {"slash", "stx"}

Stx(byte) == d0HasStx \/ byte.kind = "stx"

Checks(byte) ==
  /\ d0Wait /\ D0Idle'
  /\ d0Result' = IF byte = Bcc(d0Block) THEN D0Report(d0Buffer) ELSE D0Status("integrity")

Ignores(byte) ==
  /\ ~ d0Wait /\ ~ d0Capturing /\ ~ Starts(byte)
  /\ d0Result' = D0Status("none") /\ UNCHANGED d0Frame

Drops ==
  /\ ~ d0Wait /\ d0Capturing /\ Len(d0Buffer) >= MaxD0
  /\ D0Idle' /\ d0Result' = D0Status("none")

Ends(byte) ==
  /\ ~ d0Wait /\ (d0Capturing \/ Starts(byte))
  /\ byte.kind = "newline" /\ d0Bang /\ ~ Stx(byte)
  /\ d0Result' = D0Report(Append(d0Buffer, byte)) /\ D0Idle'

Keeps(byte) ==
  /\ ~ d0Wait /\ (d0Capturing \/ Starts(byte)) /\ ~ (Len(d0Buffer) >= MaxD0)
  /\ ~ (byte.kind = "newline" /\ d0Bang /\ ~ Stx(byte))
  /\ d0Buffer' = Append(d0Buffer, byte) /\ d0Capturing'
  /\ d0HasStx' = Stx(byte) /\ d0Block' = Checked(byte)
  /\ d0Bang' = (d0Bang \/ byte.kind = "bang")
  /\ d0Wait' = (Stx(byte) /\ byte.kind = "etx")
  /\ d0Result' = D0Status("none") /\ d0Capturing' \in BOOLEAN

LEMMA IdleAfter == ResetD0 => D0Idle'
  BY Zenon DEF ResetD0, D0Idle

LEMMA ConsumeIs ==
  ASSUME D0FrameOK, NEW byte, ConsumeD0(byte)
  PROVE  Checks(byte) \/ Ignores(byte) \/ Drops \/ Ends(byte) \/ Keeps(byte)
  <1>1. CASE d0Wait /\ CheckFrame(byte)
    BY <1>1, IdleAfter, Zenon DEF CheckFrame, Checks
  <1>2. CASE /\ ~ d0Wait /\ ~ d0Capturing /\ byte.kind \notin {"slash", "stx"}
             /\ d0Result' = D0Status("none") /\ UNCHANGED d0Frame
    BY <1>2, Zenon DEF Ignores, Starts
  <1>3. CASE /\ ~ d0Wait /\ d0Capturing /\ Len(d0Buffer) >= MaxD0
             /\ d0Result' = D0Status("none") /\ ResetD0
    BY <1>3, IdleAfter, Zenon DEF Drops
  <1>4. CASE /\ ~ d0Wait /\ (d0Capturing \/ byte.kind \in {"slash", "stx"})
             /\ Len(d0Buffer) < MaxD0 /\ CaptureD0(byte)
    <2>1. Len(d0Buffer) \in Nat
      BY TokensAppend DEF D0FrameOK
    <2>2. ~ (Len(d0Buffer) >= MaxD0)
      BY <1>4, <2>1, D0Assumption
    <2>3. TRUE \in BOOLEAN
      OBVIOUS
    <2>4. CASE /\ byte.kind = "newline" /\ d0Bang /\ ~ Stx(byte)
               /\ d0Result' = D0Report(Append(d0Buffer, byte)) /\ ResetD0
      BY <1>4, <2>4, IdleAfter, Zenon DEF Ends, Starts
    <2>5. CASE /\ ~ (byte.kind = "newline" /\ d0Bang /\ ~ Stx(byte))
               /\ d0Buffer' = Append(d0Buffer, byte) /\ d0Capturing' = TRUE /\ d0HasStx' = Stx(byte)
               /\ d0Block' = Checked(byte)
               /\ d0Bang' = (d0Bang \/ byte.kind = "bang")
               /\ d0Wait' = (Stx(byte) /\ byte.kind = "etx")
               /\ d0Result' = D0Status("none")
      BY <1>4, <2>2, <2>3, <2>5, Zenon DEF Keeps, Starts
    <2>6. QED
      BY <1>4, <2>4, <2>5, Zenon DEF CaptureD0, Stx
  <1>5. QED
    BY <1>1, <1>2, <1>3, <1>4, Zenon DEF ConsumeD0

LEMMA IdleOK == D0Idle => D0FrameOK
  <1>1. IsTokens(<<>>) /\ Len(<<>>) = 0
    BY EmptyTokens
  <1>2. 0 <= MaxD0 /\ FALSE \in BOOLEAN
    BY D0Assumption
  <1>3. QED
    BY <1>1, <1>2, Zenon DEF D0Idle, D0FrameOK

LEMMA IdleNext == D0Idle' => D0FrameOK'
  <1>1. IsTokens(<<>>) /\ Len(<<>>) = 0
    BY EmptyTokens
  <1>2. 0 <= MaxD0 /\ FALSE \in BOOLEAN
    BY D0Assumption
  <1>3. QED
    BY <1>1, <1>2, Zenon DEF D0Idle, D0FrameOK

\* What UNCHANGED d0Frame says of each of its variables.
FrameKept ==
  /\ d0Buffer' = d0Buffer /\ d0Capturing' = d0Capturing /\ d0HasStx' = d0HasStx
  /\ d0Wait' = d0Wait /\ d0Bang' = d0Bang /\ d0Block' = d0Block

LEMMA KeptIs == UNCHANGED d0Frame => FrameKept
  BY DEF d0Frame, FrameKept

LEMMA SameFrame == D0FrameOK /\ UNCHANGED d0Frame => D0FrameOK'
  BY KeptIs, Zenon DEF FrameKept, D0FrameOK, D0Idle

D0Statuses == {"none", "valid", "integrity"}

LEMMA D0ReportIs == \A frame : D0Report(frame).status \in D0Statuses
  BY DEF D0Report, D0Status, D0Statuses

LEMMA D0StatusIs == \A status : D0Status(status).status = status
  BY DEF D0Status

LEMMA ConsumeD0OK ==
  ASSUME D0FrameOK, NEW byte, ConsumeD0(byte)
  PROVE  D0FrameOK' /\ d0Result'.status \in D0Statuses
  <1>1. "none" \in D0Statuses /\ "integrity" \in D0Statuses
    BY DEF D0Statuses
  <1>2. CASE Checks(byte)
    <2>1. d0Result' = D0Report(d0Buffer) \/ d0Result' = D0Status("integrity")
      BY <1>2, Zenon DEF Checks
    <2>2. QED
      BY <1>1, <1>2, <2>1, IdleNext, D0ReportIs, D0StatusIs, Zenon DEF Checks
  <1>3. CASE Ignores(byte)
    BY <1>1, <1>3, SameFrame, D0StatusIs, Zenon DEF Ignores
  <1>4. CASE Drops
    BY <1>1, <1>4, IdleNext, D0StatusIs, Zenon DEF Drops
  <1>5. CASE Ends(byte)
    BY <1>5, IdleNext, D0ReportIs, Zenon DEF Ends
  <1>6. CASE Keeps(byte)
    <2>1. IsTokens(d0Buffer') /\ Len(d0Buffer') = Len(d0Buffer) + 1 /\ Len(d0Buffer) \in Nat
      BY <1>6, TokensAppend, Zenon DEF Keeps, D0FrameOK
    <2>2. Len(d0Buffer') <= MaxD0
      BY <1>6, <2>1, D0Assumption DEF Keeps
    <2>3. IsTokens(d0Block')
      <3>1. IsTokens(<<byte>>)
        <4>1. <<byte>> \in Seq({byte})
          OBVIOUS
        <4>2. QED
          BY <4>1, TokensOf
      <3>2. d0Block' \in {<<byte>>, Append(d0Block, byte), d0Block}
        BY <1>6, Zenon DEF Keeps, Checked
      <3>3. QED
        BY <3>1, <3>2, TokensAppend, Zenon DEF D0FrameOK
    <2>4. d0HasStx' \in BOOLEAN /\ d0Bang' \in BOOLEAN /\ d0Wait' \in BOOLEAN
      BY <1>6, Zenon DEF Keeps, Stx, D0FrameOK
    <2>5. d0Result'.status \in D0Statuses
      BY <1>1, <1>6, D0StatusIs, Zenon DEF Keeps
    <2>6. QED
      BY <1>6, <2>1, <2>2, <2>3, <2>4, <2>5, Zenon DEF Keeps, D0FrameOK
  <1>7. QED
    BY <1>2, <1>3, <1>4, <1>5, <1>6, ConsumeIs, Zenon
-----------------------------------------------------------------------------
(***************************************************************************)
(* Where the parser can be after n characters of a whole telegram e, with  *)
(* r whole ones before it.                                                 *)
(***************************************************************************)
Copies(b, e, k, n) == IsTokens(b) /\ Len(b) = n /\ \A i \in 1 .. n : b[i] = e[k + i]

SyncedPassive(e, n) ==
  IF n = 0 THEN D0Idle
  ELSE d0Capturing /\ ~ d0HasStx /\ ~ d0Wait /\ (d0Bang <=> n >= 7) /\ Copies(d0Buffer, e, 0, n)

SyncedActive(e, n) ==
  IF n = 0 THEN D0Idle
  ELSE /\ d0Capturing /\ (d0HasStx <=> n >= 3) /\ (d0Wait <=> n = 10) /\ (n < 3 => ~ d0Bang)
       /\ Copies(d0Buffer, e, 0, n)
       /\ n >= 3 => Copies(d0Block, e, 2, n - 2)

\* A stray STX keeps the frame from ending; it grows with each telegram.
Stuck(r, n) == d0Capturing /\ d0HasStx /\ Len(d0Buffer) >= 8 * r + n

\* Such a frame has been dropped in the middle of this telegram.
D0Dropped(r, n) == D0Idle /\ n >= 1 /\ 8 * r <= MaxD0

\* A frame that began before this telegram and ends with it.
Loose(r, n) == r = 0 /\ d0Capturing /\ ~ d0HasStx /\ (n >= 7 => d0Bang)

PassiveLine(e, r, n) ==
  SyncedPassive(e, n) \/ Stuck(r, n) \/ D0Dropped(r, n) \/ Loose(r, n)

\* The first telegram after a disturbance: from its STX on it is checked right.
Behind(e, r, n) ==
  /\ r = 0
  /\ n >= 3 => \/ D0Idle
               \/ /\ d0Capturing /\ d0HasStx /\ (d0Wait <=> n = 10)
                  /\ Copies(d0Block, e, 2, n - 2)

ActiveLine(e, r, n) == SyncedActive(e, n) \/ Behind(e, r, n)

LEMMA CopiesNext ==
  ASSUME NEW b, NEW e, NEW k \in Nat, NEW n \in Nat, Copies(b, e, k, n), NEW x, x = e[k + n + 1]
  PROVE  Copies(Append(b, x), e, k, n + 1)
  <1>1. IsTokens(Append(b, x)) /\ Len(Append(b, x)) = n + 1
    BY TokensAppend, Zenon DEF Copies
  <1>2. ASSUME NEW i \in 1 .. n + 1 PROVE Append(b, x)[i] = e[k + i]
    <2> DEFINE S == {b[j] : j \in 1 .. Len(b)} \union {x}
    <2>1. b \in Seq({b[j] : j \in 1 .. Len(b)}) /\ Len(b) = n /\ \A j \in 1 .. n : b[j] = e[k + j]
      BY Zenon DEF Copies, IsTokens
    <2>2. {b[j] : j \in 1 .. Len(b)} \subseteq S /\ x \in S
      OBVIOUS
    <2> HIDE DEF S
    <2>3. b \in Seq(S)
      BY <2>1, <2>2
    <2>4. Append(b, x) \in Seq(S) /\ Extends(Append(b, x), b, x, n)
      BY <2>1, <2>2, <2>3, AppendIs
    <2>5. CASE i = n + 1
      <3>1. k + n + 1 = k + i
        BY <2>5
      <3>2. Append(b, x)[i] = x
        BY <2>4, <2>5, Zenon DEF Extends
      <3>3. QED
        BY <3>1, <3>2
    <2>6. CASE i # n + 1
      <3>1. i \in 1 .. n
        BY <2>6
      <3>2. QED
        BY <2>1, <2>4, <3>1, Zenon DEF Extends
    <2>7. QED
      BY <2>5, <2>6, Zenon
  <1>3. QED
    BY <1>1, <1>2, Zenon DEF Copies

LEMMA CopiesFirst ==
  ASSUME NEW e, NEW k \in Nat, NEW x, x = e[k + 1]
  PROVE  Copies(<<x>>, e, k, 1) /\ Copies(Append(<<>>, x), e, k, 1)
  <1>1. <<x>> \in Seq({x}) /\ Len(<<x>>) = 1 /\ Append(<<>>, x) = <<x>>
    OBVIOUS
  <1>2. IsTokens(<<x>>)
    BY <1>1, TokensOf
  <1>3. \A i \in 1 .. 1 : <<x>>[i] = e[k + i]
    OBVIOUS
  <1>4. QED
    BY <1>1, <1>2, <1>3, Zenon DEF Copies

\* The characters of the two telegrams that matter.
LEMMA D0Kinds ==
  /\ \A k : Char(k).kind = k
  /\ \A c, v : Line(c, v).kind = "line" /\ Line(c, v).code = c /\ Line(c, v).value = v
  /\ \A b : Bcc(b).kind = "bcc"
  BY DEF Char, Line, Bcc

LEMMA PassiveKinds ==
  ASSUME NEW e, NEW r, PassiveText(e, r), NEW n \in 0 .. 7
  PROVE  /\ n = 0 => e[n + 1].kind = "slash"
         /\ n # 0 => e[n + 1].kind \notin {"slash", "stx"}
         /\ e[n + 1].kind # "stx" /\ e[n + 1].kind # "etx"
         /\ e[n + 1].kind = "bang" <=> n = 6
         /\ n = 7 => e[n + 1].kind = "newline"
  <1>1. /\ e[1].kind = "slash" /\ e[2].kind = "newline" /\ e[3].kind = "line"
        /\ e[4].kind = "newline" /\ e[5].kind = "line" /\ e[6].kind = "newline"
        /\ e[7].kind = "bang" /\ e[8].kind = "newline"
    BY D0Kinds DEF PassiveText, TextAt
  <1>2. n \in {0, 1, 2, 3, 4, 5, 6, 7}
    OBVIOUS
  <1>3. QED
    BY <1>1, <1>2

LEMMA ActiveKinds ==
  ASSUME NEW e, NEW r, ActiveText(e, r), NEW n \in 0 .. 10
  PROVE  /\ n = 0 => e[n + 1].kind = "slash"
         /\ n = 1 => e[n + 1].kind = "newline"
         /\ n = 2 => e[n + 1].kind = "stx"
         /\ n >= 3 => e[n + 1].kind \notin {"slash", "stx"}
         /\ e[n + 1].kind = "etx" <=> n = 9
         /\ n = 10 => e[n + 1] = Bcc(Block(e))
  <1>1. /\ e[1].kind = "slash" /\ e[2].kind = "newline" /\ e[3].kind = "stx"
        /\ e[4].kind = "line" /\ e[5].kind = "newline" /\ e[6].kind = "line"
        /\ e[7].kind = "newline" /\ e[8].kind = "bang" /\ e[9].kind = "newline"
        /\ e[10].kind = "etx" /\ e[11] = Bcc(Block(e)) /\ e[11].kind = "bcc"
    BY D0Kinds DEF ActiveText, TextAt
  <1>2. n \in {0, 1, 2, 3, 4, 5, 6, 7, 8, 9, 10}
    OBVIOUS
  <1>3. QED
    BY <1>1, <1>2

\* One more character of a whole telegram without STX.
LEMMA PassiveNext ==
  ASSUME D0FrameOK, NEW e, NEW v, PassiveText(e, v), NEW r \in Nat, NEW n \in 0 .. 7,
         PassiveLine(e, r, n), ConsumeD0(e[n + 1])
  PROVE  /\ n < 7 => SyncedPassive(e, n + 1)' \/ Stuck(r, n + 1)' \/ D0Dropped(r, n + 1)' \/ Loose(r, n + 1)'
         /\ n = 7 => D0Idle' \/ Stuck(r, 8)'
         /\ n = 7 /\ SyncedPassive(e, 7) => D0Idle' /\ d0Result' = D0Report(Append(d0Buffer, e[8]))
  <1> DEFINE x == e[n + 1]
  <1>1. /\ n = 0 => x.kind = "slash"
        /\ n # 0 => x.kind \notin {"slash", "stx"}
        /\ x.kind # "stx" /\ x.kind # "etx"
        /\ x.kind = "bang" <=> n = 6
        /\ n = 7 => x.kind = "newline"
    BY PassiveKinds
  <1>2. Checks(x) \/ Ignores(x) \/ Drops \/ Ends(x) \/ Keeps(x)
    BY ConsumeIs
  <1>3. Len(d0Buffer) \in Nat /\ MaxD0 \in Nat /\ MaxD0 >= 10 /\ Len(d0Buffer) <= MaxD0
    BY TokensAppend, D0Assumption DEF D0FrameOK
  <1>4. n = 7 => x = e[8]
    OBVIOUS
  <1>5. n \in Nat /\ n + 1 >= 1 /\ n + 1 # 0 /\ (n = 0 \/ n >= 1) /\ ~ (0 >= 1)
    OBVIOUS
  <1> HIDE DEF x
  <1>6. CASE SyncedPassive(e, n) /\ n = 0
    <2>1. D0Idle
      BY <1>6, Zenon DEF SyncedPassive
    <2>2. Keeps(x)
      BY <1>1, <1>2, <1>6, <2>1, Zenon DEF D0Idle, Checks, Ignores, Starts, Drops, Ends
    <2>3. Copies(d0Buffer', e, 0, 1)
      <3>1. d0Buffer' = Append(<<>>, x) /\ x = e[0 + 1]
        BY <1>6, <2>1, <2>2 DEF Keeps, D0Idle, x
      <3>2. QED
        BY <3>1, CopiesFirst
    <2>4. d0Capturing' /\ ~ d0HasStx' /\ ~ d0Wait' /\ ~ d0Bang'
      BY <1>1, <1>6, <2>1, <2>2 DEF Keeps, D0Idle, Stx
    <2>5. SyncedPassive(e, 1)'
      BY <2>3, <2>4 DEF SyncedPassive
    <2>6. QED
      BY <1>6, <2>5
  <1>7. CASE SyncedPassive(e, n) /\ n # 0
    <2>1. d0Capturing /\ ~ d0HasStx /\ ~ d0Wait /\ (d0Bang <=> n >= 7) /\ Copies(d0Buffer, e, 0, n)
      BY <1>7, Zenon DEF SyncedPassive
    <2>2. ~ Checks(x) /\ ~ Ignores(x)
      BY <2>1, Zenon DEF Checks, Ignores
    <2>3. CASE n = 7
      <3>1. d0Bang /\ ~ Stx(x) /\ x.kind = "newline"
        BY <1>1, <2>1, <2>3 DEF Stx
      <3>2. Len(d0Buffer) = 7
        BY <2>1, <2>3 DEF Copies
      <3>3. ~ Keeps(x) /\ ~ (Len(d0Buffer) >= MaxD0)
        BY <1>3, <3>1, <3>2 DEF Keeps
      <3>5. Ends(x)
        BY <1>2, <2>2, <3>3, Zenon DEF Drops
      <3>6. D0Idle' /\ d0Result' = D0Report(Append(d0Buffer, e[8])) /\ ~ (n < 7)
        BY <1>4, <2>3, <3>5 DEF Ends
      <3>7. QED
        BY <3>6, Zenon
    <2>4. CASE n # 7
      <3>1. ~ d0Bang /\ n < 7 /\ ~ (Len(d0Buffer) >= MaxD0) /\ ~ (n = 7)
        BY <1>3, <2>1, <2>4 DEF Copies
      <3>2. Keeps(x)
        BY <1>2, <2>2, <3>1, Zenon DEF Drops, Ends
      <3>3. /\ d0Buffer' = Append(d0Buffer, x) /\ d0Capturing' /\ d0HasStx' = Stx(x)
            /\ d0Bang' = (d0Bang \/ x.kind = "bang") /\ d0Wait' = (Stx(x) /\ x.kind = "etx")
        BY <3>2, Zenon DEF Keeps
      <3>4. ~ Stx(x)
        BY <1>1, <2>1, Zenon DEF Stx
      <3>5. d0Capturing' /\ ~ d0HasStx' /\ ~ d0Wait' /\ (d0Bang' <=> n = 6)
        BY <1>1, <3>1, <3>3, <3>4, Zenon
      <3>6. n = 6 <=> n + 1 >= 7
        BY <3>1
      <3>7. Copies(d0Buffer', e, 0, n + 1)
        <4>1. x = e[0 + n + 1]
          BY DEF x
        <4>2. QED
          BY <2>1, <3>3, <4>1, CopiesNext
      <3>8. SyncedPassive(e, n + 1)'
        BY <1>5, <3>5, <3>6, <3>7, Zenon DEF SyncedPassive
      <3>9. QED
        BY <3>1, <3>8, Zenon
    <2>5. QED
      BY <2>3, <2>4
  <1>8. CASE Stuck(r, n)
    <2>1. d0Capturing /\ d0HasStx /\ Len(d0Buffer) >= 8 * r + n
      BY <1>8, Zenon DEF Stuck
    <2>2. 8 * r <= MaxD0
      BY <1>3, <2>1
    <2>3. Stx(x) /\ ~ Ends(x) /\ ~ Ignores(x)
      BY <2>1, Zenon DEF Stx, Ends, Ignores
    <2>4. CASE Checks(x) \/ Drops
      <3>1. D0Idle'
        BY <2>4, Zenon DEF Checks, Drops
      <3>2. D0Dropped(r, n + 1)'
        BY <1>5, <2>2, <3>1, Zenon DEF D0Dropped
      <3>3. ~ SyncedPassive(e, 7)
        <4>1. 7 # 0
          OBVIOUS
        <4>2. QED
          BY <2>1, <4>1, Zenon DEF SyncedPassive
      <3>4. QED
        BY <3>1, <3>2, <3>3, Zenon
    <2>5. CASE Keeps(x)
      <3>1. Len(d0Buffer') = Len(d0Buffer) + 1
        BY <2>5, TokensAppend, Zenon DEF Keeps, D0FrameOK
      <3>2. Len(d0Buffer') >= 8 * r + (n + 1)
        BY <1>3, <2>1, <3>1
      <3>3. Stuck(r, n + 1)'
        BY <2>3, <2>5, <3>2, Zenon DEF Keeps, Stuck
      <3>4. n = 7 => n + 1 = 8
        OBVIOUS
      <3>5. ~ SyncedPassive(e, 7)
        <4>1. 7 # 0
          OBVIOUS
        <4>2. QED
          BY <2>1, <4>1, Zenon DEF SyncedPassive
      <3>6. QED
        BY <3>3, <3>4, <3>5
    <2>6. QED
      BY <1>2, <2>3, <2>4, <2>5, Zenon
  <1>9. CASE D0Dropped(r, n)
    <2>1. D0Idle /\ n # 0 /\ 8 * r <= MaxD0
      BY <1>5, <1>9 DEF D0Dropped
    <2>2. Ignores(x)
      BY <1>1, <1>2, <2>1, Zenon DEF D0Idle, Checks, Drops, Ends, Keeps, Starts
    <2>3. D0Idle'
      BY <2>1, <2>2, KeptIs, Zenon DEF Ignores, FrameKept, D0Idle
    <2>4. D0Dropped(r, n + 1)'
      BY <1>5, <2>1, <2>3, Zenon DEF D0Dropped
    <2>5. ~ SyncedPassive(e, 7)
      <3>1. 7 # 0
        OBVIOUS
      <3>2. QED
        BY <2>1, <3>1, Zenon DEF SyncedPassive, D0Idle
    <2>6. QED
      BY <2>3, <2>4, <2>5, Zenon
  <1>10. CASE Loose(r, n) /\ ~ SyncedPassive(e, n)
    <2>1. r = 0 /\ d0Capturing /\ ~ d0HasStx /\ (n >= 7 => d0Bang) /\ ~ d0Wait
      BY <1>10, Zenon DEF Loose, D0FrameOK
    <2>2. 8 * r <= MaxD0
      BY <1>3, <2>1
    <2>3. ~ Checks(x) /\ ~ Ignores(x) /\ ~ Stx(x)
      BY <1>1, <2>1, Zenon DEF Checks, Ignores, Stx
    <2>4. n = 7 => ~ SyncedPassive(e, 7)
      BY <1>10
    <2>5. CASE Drops \/ Ends(x)
      <3>1. D0Idle'
        BY <2>5, Zenon DEF Drops, Ends
      <3>2. D0Dropped(r, n + 1)'
        BY <1>5, <2>2, <3>1, Zenon DEF D0Dropped
      <3>3. QED
        BY <2>4, <3>1, <3>2, Zenon
    <2>6. CASE Keeps(x)
      <3>1. n # 7
        <4>1. n = 7 => n >= 7
          OBVIOUS
        <4>2. QED
          BY <1>1, <2>1, <2>3, <2>6, <4>1, Zenon DEF Keeps
      <3>2. n + 1 >= 7 => n = 6
        BY <3>1
      <3>3. n + 1 >= 7 => d0Bang'
        BY <1>1, <2>6, <3>2, Zenon DEF Keeps
      <3>4. Loose(r, n + 1)'
        BY <2>1, <2>3, <2>6, <3>3, Zenon DEF Keeps, Loose
      <3>5. QED
        BY <3>1, <3>4, Zenon
    <2>7. QED
      BY <1>2, <2>3, <2>5, <2>6, Zenon
  <1>11. QED
    BY <1>6, <1>7, <1>8, <1>9, <1>10, Zenon DEF PassiveLine

\* One more character of a whole telegram with STX.
LEMMA ActiveNext ==
  ASSUME D0FrameOK, NEW e, NEW v, ActiveText(e, v), NEW r \in Nat, NEW n \in 0 .. 10,
         ActiveLine(e, r, n), ConsumeD0(e[n + 1])
  PROVE  /\ n < 10 => SyncedActive(e, n + 1)' \/ Behind(e, r, n + 1)'
         /\ n = 10 => D0Idle'
         /\ n = 10 /\ SyncedActive(e, 10) =>
              d0Result' = IF e[11] = Bcc(d0Block) THEN D0Report(d0Buffer) ELSE D0Status("integrity")
  <1> DEFINE x == e[n + 1]
  <1>1. /\ n = 0 => x.kind = "slash"
        /\ n = 1 => x.kind = "newline"
        /\ n = 2 => x.kind = "stx"
        /\ n >= 3 => x.kind \notin {"slash", "stx"}
        /\ x.kind = "etx" <=> n = 9
    BY ActiveKinds
  <1>2. Checks(x) \/ Ignores(x) \/ Drops \/ Ends(x) \/ Keeps(x)
    BY ConsumeIs
  <1>3. Len(d0Buffer) \in Nat /\ MaxD0 \in Nat /\ MaxD0 >= 10 /\ Len(d0Buffer) <= MaxD0
    BY TokensAppend, D0Assumption DEF D0FrameOK
  <1>4. n = 10 => x = e[11]
    OBVIOUS
  <1>5. n \in Nat /\ n + 1 # 0 /\ 10 # 0
    OBVIOUS
  <1>6. x = e[0 + n + 1] /\ (n >= 3 => x = e[2 + (n - 2) + 1]) /\ (n = 2 => x = e[2 + 1])
    OBVIOUS
  <1> HIDE DEF x
  \* A block goes on.
  <1>7. ASSUME n >= 3, d0HasStx, Copies(d0Block, e, 2, n - 2), d0Block' = Checked(x)
        PROVE  Copies(d0Block', e, 2, n + 1 - 2)
    <2>1. n - 2 \in Nat /\ n + 1 - 2 = n - 2 + 1
      BY <1>7
    <2>2. d0Block' = Append(d0Block, x)
      BY <1>1, <1>7, Zenon DEF Checked
    <2>3. Copies(Append(d0Block, x), e, 2, n - 2 + 1)
      BY <1>6, <1>7, <2>1, CopiesNext
    <2>4. QED
      BY <2>1, <2>2, <2>3
  <1>8. ASSUME n = 2, d0Block' = Checked(x)
        PROVE  Copies(d0Block', e, 2, n + 1 - 2)
    <2>1. d0Block' = <<x>> /\ n + 1 - 2 = 1
      BY <1>1, <1>8 DEF Checked
    <2>2. Copies(<<x>>, e, 2, 1)
      BY <1>6, <1>8, CopiesFirst
    <2>3. QED
      BY <2>1, <2>2
  <1>9. CASE SyncedActive(e, n) /\ n = 0
    <2>1. D0Idle
      BY <1>9, Zenon DEF SyncedActive
    <2>2. Keeps(x)
      BY <1>1, <1>2, <1>9, <2>1, Zenon DEF D0Idle, Checks, Ignores, Starts, Drops, Ends
    <2>3. Copies(d0Buffer', e, 0, 1)
      <3>1. d0Buffer' = Append(<<>>, x) /\ x = e[0 + 1]
        BY <1>6, <1>9, <2>1, <2>2 DEF Keeps, D0Idle
      <3>2. QED
        BY <3>1, CopiesFirst
    <2>4. d0Capturing' /\ ~ d0HasStx' /\ ~ d0Wait' /\ ~ d0Bang'
      BY <1>1, <1>9, <2>1, <2>2 DEF Keeps, D0Idle, Stx
    <2>5. SyncedActive(e, 1)'
      BY <2>3, <2>4 DEF SyncedActive
    <2>6. QED
      BY <1>9, <2>5
  <1>10. CASE SyncedActive(e, n) /\ n # 0
    <2>1. /\ d0Capturing /\ (d0HasStx <=> n >= 3) /\ (d0Wait <=> n = 10) /\ (n < 3 => ~ d0Bang)
          /\ Copies(d0Buffer, e, 0, n) /\ (n >= 3 => Copies(d0Block, e, 2, n - 2))
      BY <1>10, Zenon DEF SyncedActive
    <2>2. CASE n = 10
      <3>1. Checks(x)
        BY <1>2, <2>1, <2>2, Zenon DEF Ignores, Drops, Ends, Keeps
      <3>2. QED
        BY <1>4, <2>2, <3>1 DEF Checks
    <2>3. CASE n # 10
      <3>1. n < 10 /\ ~ (Len(d0Buffer) >= MaxD0) /\ (n >= 3 \/ n < 3)
        BY <1>3, <2>1, <2>3 DEF Copies
      <3>2. Keeps(x)
        BY <1>2, <2>1, <2>3, <3>1, Zenon DEF Checks, Ignores, Drops, Ends, Stx
      <3>3. Copies(d0Buffer', e, 0, n + 1)
        <4>1. Copies(Append(d0Buffer, x), e, 0, n + 1)
          BY <1>5, <1>6, <2>1, CopiesNext
        <4>2. QED
          BY <3>2, <4>1, Zenon DEF Keeps
      <3>4. n + 1 >= 3 <=> n >= 3 \/ n = 2
        BY <3>1
      <3>5. d0HasStx' <=> n + 1 >= 3
        <4>1. n < 2 => x.kind # "stx"
          BY <1>1, <1>10
        <4>2. n < 2 \/ n = 2 \/ n >= 3
          OBVIOUS
        <4>3. n < 2 => ~ (n >= 3) /\ n # 2
          OBVIOUS
        <4>4. QED
          BY <1>1, <2>1, <3>2, <3>4, <4>1, <4>2, <4>3, Zenon DEF Keeps, Stx
      <3>6. d0Wait' <=> n + 1 = 10
        <4>1. n = 9 <=> n + 1 = 10
          OBVIOUS
        <4>2. n = 9 => n + 1 >= 3
          OBVIOUS
        <4>3. QED
          BY <1>1, <3>2, <3>5, <4>1, <4>2, Zenon DEF Keeps
      <3>7. n + 1 < 3 => ~ d0Bang'
        <4>1. n + 1 < 3 => n = 1
          BY <1>10
        <4>2. n = 1 => n < 3 /\ x.kind # "bang"
          BY <1>1
        <4>3. QED
          BY <2>1, <3>2, <4>1, <4>2, Zenon DEF Keeps
      <3>8. n + 1 >= 3 => Copies(d0Block', e, 2, n + 1 - 2)
        BY <1>7, <1>8, <2>1, <3>2, <3>4, Zenon DEF Keeps
      <3>9. SyncedActive(e, n + 1)'
        <4>1. d0Capturing'
          BY <3>2, Zenon DEF Keeps
        <4>2. QED
          BY <1>5, <3>3, <3>5, <3>6, <3>7, <3>8, <4>1 DEF SyncedActive
      <3>10. QED
        BY <2>3, <3>1, <3>9, Zenon
    <2>4. QED
      BY <2>2, <2>3
  <1>11. CASE Behind(e, r, n)
    <2>8. r = 0
      BY <1>11, Zenon DEF Behind
    <2>1. CASE n < 2
      <3>1. ~ (n + 1 >= 3) /\ n # 10
        BY <2>1
      <3>2. Behind(e, r, n + 1)'
        BY <1>11, <3>1, Zenon DEF Behind
      <3>3. QED
        BY <3>1, <3>2, Zenon
    <2>2. ASSUME D0Idle' PROVE Behind(e, r, n + 1)'
      BY <1>11, <2>2, Zenon DEF Behind
    <2>3. CASE n = 2
      <3>1. n + 1 # 10 /\ n # 10
        BY <2>3
      <3>2. ~ Ignores(x) /\ ~ Ends(x) /\ Stx(x)
        BY <1>1, <2>3, Zenon DEF Ignores, Ends, Starts, Stx
      <3>3. ASSUME Keeps(x) PROVE Behind(e, r, n + 1)'
        <4>1. Copies(d0Block', e, 2, n + 1 - 2)
          BY <1>8, <2>3, <3>3, Zenon DEF Keeps
        <4>2. ~ d0Wait'
          <5>1. n # 9
            BY <2>3
          <5>2. QED
            BY <1>1, <3>3, <5>1, Zenon DEF Keeps
        <4>3. d0Capturing' /\ d0HasStx'
          BY <3>2, <3>3, Zenon DEF Keeps
        <4>4. QED
          BY <2>8, <3>1, <4>1, <4>2, <4>3 DEF Behind
      <3>4. QED
        BY <1>2, <2>2, <3>1, <3>2, <3>3, Zenon DEF Checks, Drops
    <2>4. CASE n >= 3 /\ D0Idle
      <3>1. Ignores(x)
        BY <1>1, <1>2, <2>4, Zenon DEF D0Idle, Checks, Drops, Ends, Keeps, Starts
      <3>2. D0Idle'
        BY <2>4, <3>1, KeptIs, Zenon DEF Ignores, FrameKept, D0Idle
      <3>3. ~ SyncedActive(e, 10)
        BY <1>5, <2>4, Zenon DEF SyncedActive, D0Idle
      <3>4. QED
        BY <2>2, <3>2, <3>3, Zenon
    <2>5. CASE n >= 3 /\ d0Capturing /\ d0HasStx /\ (d0Wait <=> n = 10) /\ Copies(d0Block, e, 2, n - 2)
      <3>1. ~ Ignores(x) /\ ~ Ends(x) /\ Stx(x)
        BY <2>5, Zenon DEF Ignores, Ends, Stx
      <3>2. CASE n = 10
        <4>1. Checks(x)
          BY <1>2, <2>5, <3>2, <3>1, Zenon DEF Drops, Keeps
        <4>2. QED
          BY <1>4, <3>2, <4>1 DEF Checks
      <3>3. CASE n # 10
        <4>1. ASSUME Keeps(x) PROVE Behind(e, r, n + 1)'
          <5>1. Copies(d0Block', e, 2, n + 1 - 2)
            BY <1>7, <2>5, <4>1, Zenon DEF Keeps
          <5>2. n + 1 = 10 <=> n = 9
            OBVIOUS
          <5>3. d0Wait' <=> n + 1 = 10
            BY <1>1, <3>1, <4>1, <5>2, Zenon DEF Keeps
          <5>4. d0Capturing' /\ d0HasStx'
            BY <3>1, <4>1, Zenon DEF Keeps
          <5>5. QED
            BY <2>8, <5>1, <5>3, <5>4 DEF Behind
        <4>2. QED
          BY <1>2, <2>2, <3>1, <3>3, <4>1, Zenon DEF Checks, Drops
      <3>4. QED
        BY <3>2, <3>3
    <2>6. n < 2 \/ n = 2 \/ n >= 3
      OBVIOUS
    <2>7. QED
      BY <1>11, <2>1, <2>3, <2>4, <2>5, <2>6, Zenon DEF Behind
  <1>12. QED
    BY <1>9, <1>10, <1>11, Zenon DEF ActiveLine
-----------------------------------------------------------------------------
(***************************************************************************)
(* A whole telegram is read with its own values.                           *)
(***************************************************************************)
LEMMA MaxOne == \A k \in Nat : Max({k}) = k
  <1> SUFFICES ASSUME NEW k \in Nat PROVE Max({k}) = k
    OBVIOUS
  <1>1. k \in {k} /\ \A y \in {k} : k >= y
    OBVIOUS
  <1>2. QED
    BY <1>1, Zenon DEF Max

ReadFrom(v) == [status |-> "valid", reading |-> [c \in D0Codes |-> <<v[c]>>]]

LEMMA TextReport ==
  ASSUME NEW b, NEW v, NEW k \in Nat, TextAt(b, v, k), LinesOf(b) = {k + 1, k + 3}
  PROVE  D0Report(b) = ReadFrom(v)
  <1>1. /\ b[k + 1].code = "import" /\ b[k + 1].value = v["import"]
        /\ b[k + 3].code = "power" /\ b[k + 3].value = v["power"]
    BY DEF TextAt, Line
  <1>2. {i \in LinesOf(b) : b[i].code = "import"} = {k + 1}
    BY <1>1
  <1>3. {i \in LinesOf(b) : b[i].code = "power"} = {k + 3}
    BY <1>1
  <1>4. Max({k + 1}) = k + 1 /\ Max({k + 3}) = k + 3
    BY MaxOne
  <1> DEFINE One(c) == LET at == {i \in LinesOf(b) : b[i].code = c}
                       IN IF at = {} THEN <<>> ELSE <<b[Max(at)].value>>
  <1>5. ReadingOf(b) = [c \in D0Codes |-> One(c)]
    BY DEF ReadingOf
  <1>6. One("import") = <<v["import"]>>
    <2>1. {k + 1} # {}
      OBVIOUS
    <2>2. QED
      BY <1>1, <1>2, <1>4, <2>1, Zenon
  <1>7. One("power") = <<v["power"]>>
    <2>1. {k + 3} # {}
      OBVIOUS
    <2>2. QED
      BY <1>1, <1>3, <1>4, <2>1, Zenon
  <1> HIDE DEF One
  <1>8. ASSUME NEW c \in D0Codes PROVE One(c) = <<v[c]>>
    <2>1. c = "import" \/ c = "power"
      BY DEF D0Codes
    <2>2. QED
      BY <1>6, <1>7, <2>1
  <1>9. ReadingOf(b) = [c \in D0Codes |-> <<v[c]>>]
    BY <1>5, <1>8
  <1>10. LinesOf(b) # {}
    OBVIOUS
  <1>11. QED
    BY <1>9, <1>10 DEF D0Report, ReadFrom

LEMMA PassiveReport ==
  ASSUME NEW e, NEW v, PassiveText(e, v), NEW b, Copies(b, e, 0, 8)
  PROVE  D0Report(b) = ReadFrom(v)
  <1>1. DOMAIN b = 1 .. 8 /\ Len(b) = 8 /\ \A i \in 1 .. 8 : b[i] = e[i]
    <2>1. b \in Seq({b[i] : i \in 1 .. Len(b)}) /\ Len(b) = 8 /\ \A i \in 1 .. 8 : b[i] = e[0 + i]
      BY Zenon DEF Copies, IsTokens
    <2>2. DOMAIN b = 1 .. Len(b)
      BY <2>1
    <2>3. QED
      BY <2>1, <2>2
  <1>2. TextAt(b, v, 2) /\ b[1].kind = "slash" /\ b[2].kind = "newline"
    BY <1>1, D0Kinds DEF PassiveText, TextAt
  <1>3. /\ b[3].kind = "line" /\ b[4].kind = "newline" /\ b[5].kind = "line"
        /\ b[6].kind = "newline" /\ b[7].kind = "bang" /\ b[8].kind = "newline"
    BY <1>2, D0Kinds DEF TextAt
  <1>4. \A i \in 1 .. 8 : i \in {1, 2, 3, 4, 5, 6, 7, 8}
    OBVIOUS
  <1>5. {i \in DOMAIN b : b[i].kind = "etx"} = {}
    BY <1>1, <1>2, <1>3, <1>4
  <1>6. LinesOf(b) = {i \in 1 .. 8 : /\ b[i].kind = "line"
                                     /\ i = 1 \/ b[i - 1].kind \in {"newline", "stx"}}
    BY <1>1, <1>5, Zenon DEF LinesOf
  <1>7. LinesOf(b) = {3, 5}
    BY <1>2, <1>3, <1>6
  <1>8. QED
    BY <1>2, <1>7, TextReport

LEMMA ActiveReport ==
  ASSUME NEW e, NEW v, ActiveText(e, v), NEW b, Copies(b, e, 0, 10)
  PROVE  D0Report(b) = ReadFrom(v)
  <1>1. DOMAIN b = 1 .. 10 /\ Len(b) = 10 /\ \A i \in 1 .. 10 : b[i] = e[i]
    <2>1. b \in Seq({b[i] : i \in 1 .. Len(b)}) /\ Len(b) = 10 /\ \A i \in 1 .. 10 : b[i] = e[0 + i]
      BY Zenon DEF Copies, IsTokens
    <2>2. DOMAIN b = 1 .. Len(b)
      BY <2>1
    <2>3. QED
      BY <2>1, <2>2
  <1>2. TextAt(b, v, 3) /\ b[1].kind = "slash" /\ b[2].kind = "newline" /\ b[3].kind = "stx"
        /\ b[10].kind = "etx"
    BY <1>1, D0Kinds DEF ActiveText, TextAt
  <1>3. /\ b[4].kind = "line" /\ b[5].kind = "newline" /\ b[6].kind = "line"
        /\ b[7].kind = "newline" /\ b[8].kind = "bang" /\ b[9].kind = "newline"
    BY <1>2, D0Kinds DEF TextAt
  <1>4. {i \in DOMAIN b : b[i].kind = "etx"} = {10}
    BY <1>1, <1>2, <1>3
  <1>5. Min({10}) = 10 /\ 10 - 1 = 9 /\ {10} # {}
    <2>1. {10} \in SUBSET Nat /\ {10} # {}
      OBVIOUS
    <2>2. Min({10}) \in {10}
      BY <2>1, MinIs
    <2>3. QED
      BY <2>1, <2>2
  <1>6. LinesOf(b) = {i \in 1 .. 9 : /\ b[i].kind = "line"
                                     /\ i = 1 \/ b[i - 1].kind \in {"newline", "stx"}}
    BY <1>4, <1>5, Zenon DEF LinesOf
  <1>7. LinesOf(b) = {4, 6}
    BY <1>2, <1>3, <1>6
  <1>8. QED
    BY <1>2, <1>7, TextReport

\* What the meter has computed its check character over.
LEMMA BlockIs ==
  ASSUME NEW e, NEW v, ActiveText(e, v), NEW b, Copies(b, e, 2, 8)
  PROVE  b = Block(e)
  <1>1. b \in Seq({b[i] : i \in 1 .. Len(b)}) /\ Len(b) = 8 /\ \A i \in 1 .. 8 : b[i] = e[2 + i]
    BY Zenon DEF Copies, IsTokens
  <1>2. b = [i \in 1 .. 8 |-> b[i]]
    BY <1>1
  <1>3. e \in Seq({e[i] : i \in 1 .. Len(e)}) /\ Len(e) = 11
    BY Zenon DEF ActiveText, IsTokens
  <1>4. Block(e) = [i \in 1 .. 8 |-> e[2 + i]]
    BY <1>3 DEF Block
  <1>5. QED
    BY <1>1, <1>2, <1>4

LEMMA PassiveResult ==
  ASSUME NEW e, NEW v, PassiveText(e, v), SyncedPassive(e, 7)
  PROVE  D0Report(Append(d0Buffer, e[8])) = ReadFrom(v)
  <1>1. Copies(d0Buffer, e, 0, 7) /\ e[8] = e[0 + 7 + 1] /\ 7 + 1 = 8
    BY DEF SyncedPassive
  <1>2. Copies(Append(d0Buffer, e[8]), e, 0, 7 + 1)
    BY <1>1, CopiesNext
  <1>3. QED
    BY <1>1, <1>2, PassiveReport

LEMMA ActiveResult ==
  ASSUME NEW e, NEW v, ActiveText(e, v), SyncedActive(e, 10)
  PROVE  e[11] = Bcc(d0Block) /\ D0Report(d0Buffer) = ReadFrom(v)
  <1>1. Copies(d0Buffer, e, 0, 10) /\ Copies(d0Block, e, 2, 8)
    BY DEF SyncedActive
  <1>2. d0Block = Block(e)
    BY <1>1, BlockIs
  <1>3. QED
    BY <1>1, <1>2, ActiveReport DEF ActiveText
-----------------------------------------------------------------------------
(***************************************************************************)
(* The invariant of the line, and its theorems.                            *)
(***************************************************************************)
Sending == Telegram(d0Passive, d0Sent)

LineOf(e, r, n) == IF d0Passive THEN PassiveLine(e, r, n) ELSE ActiveLine(e, r, n)

BetweenTelegrams(r) == r = 0 \/ D0Idle \/ (d0Passive /\ Stuck(r, 0))

D0LineOK ==
  /\ d0Run # 0 => d0Whole
  /\ d0Wire = <<>> => BetweenTelegrams(d0Run)
  /\ d0Whole /\ d0Wire # <<>> =>
       \E n \in 0 .. Len(Sending) - 1 : d0Wire = WireFrom(Sending, n) /\ LineOf(Sending, d0Run, n)

CountsOK ==
  /\ d0Passive \in BOOLEAN /\ d0Run \in 0 .. D0Patience /\ d0Faults \in 0 .. D0FaultLimit
  /\ d0Result.status \in D0Statuses

D0Inv == D0FrameOK /\ CountsOK /\ D0LineOK /\ D0Resync

LEMMA PatienceIs ==
  /\ D0Patience \in Nat /\ D0Patience >= 2
  /\ \A r \in Nat : r + 1 >= D0Patience => 8 * r > MaxD0
  <1>1. D0Length = 8
    BY PassiveIs DEF D0Length, PassiveText
  <1>2. MaxD0 \in Nat
    BY D0Assumption
  <1>3. D0Patience = MaxD0 \div 8 + 2
    BY <1>1 DEF D0Patience
  <1>4. MaxD0 \div 8 \in Nat /\ 8 * (MaxD0 \div 8 + 1) > MaxD0
    BY <1>2
  <1>5. QED
    BY <1>2, <1>3, <1>4

LEMMA TelegramsAre ==
  ASSUME NEW passive \in BOOLEAN, NEW v, NEW e, e = Telegram(passive, v)
  PROVE  /\ passive => PassiveText(e, v) /\ Len(e) = 8
         /\ ~ passive => ActiveText(e, v) /\ Len(e) = 11
         /\ e \in Seq({e[i] : i \in 1 .. Len(e)})
         /\ WireFrom(e, 0) = e /\ e # <<>> /\ 0 \in 0 .. Len(e) - 1
  <1>1. /\ passive => PassiveText(e, v)
        /\ ~ passive => ActiveText(e, v)
    <2>1. (passive = TRUE => e = Telegram(TRUE, v)) /\ (passive = FALSE => e = Telegram(FALSE, v))
      OBVIOUS
    <2>2. passive = TRUE \/ passive = FALSE
      OBVIOUS
    <2>3. QED
      BY <2>1, <2>2, PassiveIs, ActiveIs, Zenon
  <1>2. /\ passive => Len(e) = 8
        /\ ~ passive => Len(e) = 11
        /\ IsTokens(e)
    BY <1>1, Zenon DEF PassiveText, ActiveText
  <1> DEFINE S == {e[i] : i \in 1 .. Len(e)}
  <1>3. e \in Seq(S)
    BY <1>2, Zenon DEF IsTokens
  <1> HIDE DEF S
  <1>4. WireFrom(e, 0) = e
    BY <1>3, WholeSuffix
  <1>5. Len(e) >= 1 /\ e # <<>> /\ 0 \in 0 .. Len(e) - 1
    <2>1. Len(e) = 8 \/ Len(e) = 11
      BY <1>2, Zenon
    <2>2. e # <<>>
      <3>1. Len(<<>>) = 0 /\ 0 # 8 /\ 0 # 11
        OBVIOUS
      <3>2. QED
        BY <2>1, <3>1, Zenon
    <2>3. QED
      BY <2>1, <2>2
  <1>6. QED
    BY <1>1, <1>2, <1>3, <1>4, <1>5, Zenon DEF S

LEMMA D0Starts == D0Init => D0Inv
  <1> SUFFICES ASSUME D0Init PROVE D0Inv
    OBVIOUS
  <1>1. D0Idle
    BY Zenon DEF D0Init, D0Idle
  <1>2. D0FrameOK
    BY <1>1, IdleOK
  <1>3. CountsOK
    <2>1. 0 \in 0 .. D0Patience /\ 0 \in 0 .. D0FaultLimit /\ "none" \in D0Statuses
      BY PatienceIs, D0Assumption DEF D0Statuses
    <2>2. QED
      BY <2>1, D0StatusIs, Zenon DEF D0Init, CountsOK
  <1>4. D0LineOK
    BY <1>1, Zenon DEF D0Init, D0LineOK, BetweenTelegrams
  <1>5. D0Resync
    <2>1. d0Run # D0Patience
      BY PatienceIs DEF D0Init
    <2>2. QED
      BY <2>1, Zenon DEF D0Resync
  <1>6. QED
    BY <1>2, <1>3, <1>4, <1>5, Zenon DEF D0Inv

\* A disturbance starts the count anew.
LEMMA D0FaultOK ==
  ASSUME CountsOK, D0Fault, d0Result'.status \in D0Statuses
  PROVE  CountsOK' /\ D0LineOK' /\ D0Resync'
  <1>1. d0Faults' \in 0 .. D0FaultLimit
    BY D0Assumption DEF D0Fault, CountsOK
  <1>2. d0Passive' = d0Passive /\ d0Run' = 0 /\ d0Whole' = FALSE
    BY DEF D0Fault
  <1>3. 0 \in 0 .. D0Patience /\ 0 # D0Patience
    BY PatienceIs
  <1>4. CountsOK'
    BY <1>1, <1>2, <1>3, Zenon DEF CountsOK
  <1>5. D0LineOK'
    BY <1>2, Zenon DEF D0LineOK, BetweenTelegrams
  <1>6. D0Resync'
    BY <1>2, <1>3, Zenon DEF D0Resync
  <1>7. QED
    BY <1>4, <1>5, <1>6

\* A new telegram begins where the parser is.
LEMMA SendTelegramOK ==
  ASSUME D0Inv, SendTelegram
  PROVE  D0Inv'
  <1>1. /\ d0Wire = <<>> /\ d0Whole' = TRUE /\ d0Result' = D0Status("none")
        /\ d0Wire' = Telegram(d0Passive, d0Sent') /\ d0Passive' = d0Passive /\ d0Run' = d0Run
        /\ d0Faults' = d0Faults /\ UNCHANGED d0Frame
    BY DEF SendTelegram
  <1>2. D0FrameOK /\ CountsOK /\ BetweenTelegrams(d0Run)
    BY <1>1, Zenon DEF D0Inv, D0LineOK
  <1>3. FrameKept /\ D0FrameOK'
    BY <1>1, <1>2, KeptIs, SameFrame
  <1>4. CountsOK'
    <2>1. "none" \in D0Statuses
      BY DEF D0Statuses
    <2>2. QED
      BY <1>1, <1>2, <2>1, D0StatusIs, Zenon DEF CountsOK
  <1>5. d0Wire' = Sending' /\ d0Passive' \in BOOLEAN
    BY <1>1, <1>4 DEF Sending, CountsOK
  <1>7. WireFrom(Sending', 0) = Sending' /\ Sending' # <<>> /\ 0 \in 0 .. Len(Sending') - 1
    <2>1. Sending' = Telegram(d0Passive', d0Sent')
      BY DEF Sending
    <2>2. QED
      BY <1>5, <2>1, TelegramsAre
  <1>8. LineOf(Sending, d0Run, 0)'
    <2>1. 8 * 0 + 0 = 0 /\ ~ (0 >= 7) /\ ~ (0 >= 3) /\ (Len(d0Buffer) >= 0)
      BY <1>2, TokensAppend DEF D0FrameOK
    <2>2. CASE D0Idle
      BY <1>3, <2>2, Zenon DEF FrameKept, D0Idle, LineOf, PassiveLine, ActiveLine, SyncedPassive, SyncedActive
    <2>3. CASE d0Run = 0 /\ ~ D0Idle
      <3>1. d0Capturing
        BY <1>2, <2>3, Zenon DEF D0FrameOK
      <3>2. Stuck(0, 0) \/ Loose(0, 0)
        <4>1. CASE d0HasStx
          BY <2>1, <3>1, <4>1 DEF Stuck
        <4>2. CASE ~ d0HasStx
          BY <2>1, <3>1, <4>2, Zenon DEF Loose
        <4>3. QED
          BY <4>1, <4>2
      <3>3. Stuck(0, 0)' \/ Loose(0, 0)'
        BY <1>3, <3>2, Zenon DEF FrameKept, Stuck, Loose
      <3>4. Behind(Sending, 0, 0)'
        BY <2>1, Zenon DEF Behind
      <3>5. d0Run' = 0
        BY <1>1, <2>3
      <3>6. (Stuck(d0Run, 0)' \/ Loose(d0Run, 0)') /\ Behind(Sending, d0Run, 0)'
        BY <3>3, <3>4, <3>5
      <3>7. QED
        BY <3>6, Zenon DEF LineOf, PassiveLine, ActiveLine
    <2>4. CASE d0Passive /\ Stuck(d0Run, 0)
      <3>1. Stuck(d0Run, 0)'
        BY <1>1, <1>3, <2>4, Zenon DEF FrameKept, Stuck
      <3>2. QED
        BY <1>1, <2>4, <3>1, Zenon DEF LineOf, PassiveLine
    <2>5. QED
      BY <1>2, <2>2, <2>3, <2>4, Zenon DEF BetweenTelegrams
  <1>9. D0LineOK'
    BY <1>1, <1>5, <1>7, <1>8, Zenon DEF D0LineOK
  <1>10. D0Resync'
    BY <1>5, <1>7, Zenon DEF D0Resync
  <1>11. QED
    BY <1>3, <1>4, <1>9, <1>10, Zenon DEF D0Inv

LEMMA DeliverCharOK ==
  ASSUME D0Inv, DeliverChar
  PROVE  D0Inv'
  <1>1. /\ d0Wire # <<>> /\ ConsumeD0(Head(d0Wire)) /\ d0Wire' = Tail(d0Wire)
        /\ d0Passive' = d0Passive /\ d0Whole' = d0Whole /\ d0Sent' = d0Sent /\ d0Faults' = d0Faults
        /\ d0Run' = IF Len(d0Wire) > 1 THEN d0Run
                    ELSE IF d0Whole THEN Min({d0Run + 1, D0Patience}) ELSE 0
    BY DEF DeliverChar
  <1>2. D0FrameOK /\ CountsOK /\ D0LineOK
    BY DEF D0Inv
  <1>3. D0FrameOK' /\ d0Result'.status \in D0Statuses
    BY <1>1, <1>2, ConsumeD0OK
  <1>4. /\ d0Run \in Nat /\ d0Run \in 0 .. D0Patience
        /\ D0Patience \in Nat /\ D0Patience >= 2
        /\ \A r \in Nat : r + 1 >= D0Patience => 8 * r > MaxD0
    BY <1>2, PatienceIs DEF CountsOK
  <1>5. /\ Min({d0Run + 1, D0Patience}) \in 1 .. D0Patience
        /\ Min({d0Run + 1, D0Patience}) <= d0Run + 1
    <2> DEFINE m == Min({d0Run + 1, D0Patience})
    <2>1. {d0Run + 1, D0Patience} \in SUBSET Nat /\ {d0Run + 1, D0Patience} # {}
      BY <1>4
    <2>2. m \in {d0Run + 1, D0Patience} /\ \A y \in {d0Run + 1, D0Patience} : m <= y
      BY <2>1, MinIs
    <2> HIDE DEF m
    <2>3. m <= d0Run + 1 /\ m <= D0Patience /\ (m = d0Run + 1 \/ m = D0Patience)
      BY <2>2
    <2>4. QED
      BY <1>4, <2>3 DEF m
  <1>6. CountsOK'
    <2>1. d0Run' \in 0 .. D0Patience
      BY <1>1, <1>4, <1>5
    <2>2. QED
      BY <1>1, <1>2, <1>3, <2>1, Zenon DEF CountsOK
  <1>7. CASE ~ d0Whole
    <2>1. d0Run' = 0
      BY <1>1, <1>2, <1>7, Zenon DEF D0LineOK
    <2>2. D0LineOK'
      BY <1>1, <1>7, <2>1, Zenon DEF D0LineOK, BetweenTelegrams
    <2>3. D0Resync'
      <3>1. d0Run' # D0Patience
        BY <1>4, <2>1
      <3>2. QED
        BY <3>1, Zenon DEF D0Resync
    <2>4. QED
      BY <1>3, <1>6, <2>2, <2>3, Zenon DEF D0Inv
  <1>8. CASE d0Whole
    <2>1. PICK n \in 0 .. Len(Sending) - 1 : d0Wire = WireFrom(Sending, n) /\ LineOf(Sending, d0Run, n)
      BY <1>1, <1>2, <1>8, Zenon DEF D0LineOK
    <2>10. PICK e, r : e = Sending /\ r = d0Run
      OBVIOUS
    <2> DEFINE S == {e[i] : i \in 1 .. Len(e)}
    <2>2. /\ d0Passive => PassiveText(e, d0Sent) /\ Len(e) = 8
          /\ ~ d0Passive => ActiveText(e, d0Sent) /\ Len(e) = 11
          /\ e \in Seq(S)
      <3>1. d0Passive \in BOOLEAN /\ e = Telegram(d0Passive, d0Sent)
        BY <1>2, <2>10, Zenon DEF Sending, CountsOK
      <3>2. QED
        BY <3>1, TelegramsAre
    <2>3. Sending' = e /\ d0Passive \in BOOLEAN
      BY <1>1, <1>2, <2>10 DEF Sending, CountsOK
    <2>11. r = d0Run /\ r \in Nat
      BY <1>4, <2>10
    <2>4. /\ Len(e) \in Nat /\ n \in 0 .. Len(e) - 1 /\ Len(d0Wire) = Len(e) - n
          /\ Head(d0Wire) = e[n + 1] /\ d0Wire' = WireFrom(e, n + 1)
      <3>1. Leaves(e, n) /\ d0Wire = WireFrom(e, n)
        <4> HIDE DEF S
        <4>1. n \in 0 .. Len(e) - 1 /\ d0Wire = WireFrom(e, n)
          BY <2>1, <2>10
        <4>2. QED
          BY <2>2, <4>1, SuffixIs
      <3>2. Len(e) \in Nat
        <4> HIDE DEF S
        <4>1. QED
          BY <2>2
      <3>3. QED
        BY <1>1, <2>1, <2>10, <3>1, <3>2 DEF Leaves
    <2>5. ConsumeD0(e[n + 1])
      BY <1>1, <2>4
    <2>6. /\ d0Passive => PassiveLine(e, r, n)
          /\ ~ d0Passive => ActiveLine(e, r, n)
      BY <2>1, <2>10, Zenon DEF LineOf
    <2>7. CASE n + 1 < Len(e)
      <3>1. d0Run' = d0Run /\ n + 1 \in 0 .. Len(e) - 1 /\ n \in Nat
        BY <1>1, <2>4, <2>7
      <3>2. d0Wire' # <<>>
        <4> HIDE DEF S
        <4>1. Leaves(e, n + 1)
          BY <2>2, <3>1, SuffixIs
        <4>2. QED
          BY <2>4, <4>1, Zenon DEF Leaves
      <3>3. LineOf(Sending, d0Run, n + 1)'
        <4>1. CASE d0Passive
          <5>1. /\ PassiveText(e, d0Sent) /\ n \in 0 .. 7 /\ n < 7 /\ PassiveLine(e, r, n) /\ r \in Nat
            <6>1. PassiveText(e, d0Sent) /\ PassiveLine(e, r, n) /\ Len(e) = 8
            BY <2>2, <2>6, <4>1, Zenon
          <6>2. QED
            BY <2>4, <2>7, <2>11, <6>1
          <5>2. SyncedPassive(e, n + 1)' \/ Stuck(r, n + 1)' \/ D0Dropped(r, n + 1)' \/ Loose(r, n + 1)'
            BY <1>2, <2>5, <5>1, PassiveNext
          <5>3. PassiveLine(Sending, d0Run, n + 1)'
            BY <2>3, <2>11, <3>1, <5>2 DEF PassiveLine
          <5>4. QED
            BY <1>1, <4>1, <5>3, Zenon DEF LineOf
        <4>2. CASE ~ d0Passive
          <5>1. /\ ActiveText(e, d0Sent) /\ n \in 0 .. 10 /\ n < 10 /\ ActiveLine(e, r, n) /\ r \in Nat
            <6>1. ActiveText(e, d0Sent) /\ ActiveLine(e, r, n) /\ Len(e) = 11
            BY <2>2, <2>6, <4>2, Zenon
          <6>2. QED
            BY <2>4, <2>7, <2>11, <6>1
          <5>2. SyncedActive(e, n + 1)' \/ Behind(e, r, n + 1)'
            BY <1>2, <2>5, <5>1, ActiveNext
          <5>3. ActiveLine(Sending, d0Run, n + 1)'
            BY <2>3, <2>11, <3>1, <5>2 DEF ActiveLine
          <5>4. QED
            BY <1>1, <4>2, <5>3, Zenon DEF LineOf
        <4>3. QED
          BY <4>1, <4>2, Zenon
      <3>4. D0LineOK'
        <4>1. n + 1 \in 0 .. Len(Sending') - 1 /\ d0Wire' = WireFrom(Sending', n + 1)
          BY <2>3, <2>4, <3>1
        <4>2. QED
          BY <1>1, <1>8, <3>2, <3>3, <4>1, Zenon DEF D0LineOK
      <3>5. D0Resync'
        BY <3>2, Zenon DEF D0Resync
      <3>6. QED
        BY <1>3, <1>6, <3>4, <3>5, Zenon DEF D0Inv
    <2>8. CASE n + 1 = Len(e)
      <3>1. /\ d0Run' = Min({d0Run + 1, D0Patience}) /\ ~ (Len(d0Wire) > 1) /\ n \in Nat
        BY <1>1, <1>8, <2>4, <2>8
      <3>2. d0Wire' = <<>>
        <4> HIDE DEF S
        <4>1. QED
          BY <2>2, <2>4, <2>8, WholeSuffix
      <3>3. d0Run' \in Nat /\ d0Run' <= d0Run + 1 /\ (d0Run' = D0Patience => 8 * d0Run > MaxD0)
        BY <1>4, <1>5, <3>1
      <3>4. /\ Len(d0Buffer) \in Nat /\ Len(d0Buffer) <= MaxD0 /\ Len(d0Buffer') \in Nat
            /\ MaxD0 \in Nat /\ n \in Nat
        BY <1>2, <1>3, <2>4, TokensAppend, D0Assumption DEF D0FrameOK
      \* A frame that does not end would have had to be dropped by now.
      <3>5. d0Run' = D0Patience => ~ Stuck(r, n) /\ ~ D0Dropped(r, n) /\ ~ Loose(r, n) /\ r # 0
        <4>1. d0Run' = D0Patience => /\ ~ (Len(d0Buffer) >= 8 * r + n)
                                     /\ ~ (8 * r <= MaxD0) /\ r # 0
          BY <2>11, <3>3, <3>4
        <4>2. QED
          BY <4>1, Zenon DEF Stuck, D0Dropped, Loose
      <3>6. ASSUME d0Passive
            PROVE  BetweenTelegrams(d0Run)' /\ (d0Run' = D0Patience => d0Result' = ReadFrom(d0Sent))
        <4>1. /\ PassiveText(e, d0Sent) /\ n \in 0 .. 7 /\ n = 7 /\ PassiveLine(e, r, n) /\ r \in Nat
          <5>1. PassiveText(e, d0Sent) /\ PassiveLine(e, r, n) /\ Len(e) = 8
            BY <2>2, <2>6, <3>6, Zenon
          <5>2. QED
            BY <2>4, <2>8, <2>11, <5>1
        <4>2. /\ D0Idle' \/ Stuck(r, 8)'
              /\ SyncedPassive(e, 7) => D0Idle' /\ d0Result' = D0Report(Append(d0Buffer, e[8]))
          BY <1>2, <2>5, <4>1, PassiveNext
        <4>3. BetweenTelegrams(d0Run)'
          <5>1. ASSUME Stuck(r, 8)' PROVE Stuck(d0Run, 0)'
            <6>1. Len(d0Buffer') >= 8 * d0Run + 8
              BY <2>11, <5>1 DEF Stuck
            <6>2. Len(d0Buffer') >= 8 * d0Run' + 0
              BY <1>4, <3>3, <3>4, <6>1
            <6>3. QED
              BY <5>1, <6>2, Zenon DEF Stuck
          <5>2. QED
            BY <1>1, <3>6, <4>2, <5>1, Zenon DEF BetweenTelegrams
        <4>4. d0Run' = D0Patience => d0Result' = ReadFrom(d0Sent)
          <5>1. ASSUME d0Run' = D0Patience PROVE SyncedPassive(e, 7)
            BY <3>5, <4>1, <5>1, Zenon DEF PassiveLine
          <5>2. QED
            BY <4>1, <4>2, <5>1, PassiveResult
        <4>5. QED
          BY <4>3, <4>4
      <3>7. ASSUME ~ d0Passive
            PROVE  BetweenTelegrams(d0Run)' /\ (d0Run' = D0Patience => d0Result' = ReadFrom(d0Sent))
        <4>1. /\ ActiveText(e, d0Sent) /\ n \in 0 .. 10 /\ n = 10 /\ ActiveLine(e, r, n) /\ r \in Nat
          <5>1. ActiveText(e, d0Sent) /\ ActiveLine(e, r, n) /\ Len(e) = 11
            BY <2>2, <2>6, <3>7, Zenon
          <5>2. QED
            BY <2>4, <2>8, <2>11, <5>1
        <4>2. /\ D0Idle'
              /\ SyncedActive(e, 10) =>
                   d0Result' = IF e[11] = Bcc(d0Block) THEN D0Report(d0Buffer) ELSE D0Status("integrity")
          BY <1>2, <2>5, <4>1, ActiveNext
        <4>3. BetweenTelegrams(d0Run)'
          BY <4>2, Zenon DEF BetweenTelegrams
        <4>4. d0Run' = D0Patience => d0Result' = ReadFrom(d0Sent)
          <5>1. ASSUME d0Run' = D0Patience PROVE SyncedActive(e, 10)
            BY <3>5, <4>1, <5>1, Zenon DEF ActiveLine, Behind
          <5>2. QED
            BY <4>1, <4>2, <5>1, ActiveResult
        <4>5. QED
          BY <4>3, <4>4
      <3>8. BetweenTelegrams(d0Run)' /\ (d0Run' = D0Patience => d0Result' = ReadFrom(d0Sent))
        BY <3>6, <3>7, Zenon
      <3>9. D0LineOK'
        BY <1>1, <1>8, <3>2, <3>8, Zenon DEF D0LineOK
      <3>10. D0Resync'
        BY <1>1, <3>8, Zenon DEF D0Resync, ReadFrom
      <3>11. QED
        BY <1>3, <1>6, <3>9, <3>10, Zenon DEF D0Inv
    <2>9. QED
      BY <2>4, <2>7, <2>8
  <1>9. QED
    BY <1>7, <1>8

LEMMA D0Step == D0Inv /\ [D0Next]_d0Vars => D0Inv'
  <1> SUFFICES ASSUME D0Inv, [D0Next]_d0Vars PROVE D0Inv'
    OBVIOUS
  <1>1. D0FrameOK /\ CountsOK
    BY DEF D0Inv
  <1>2. "none" \in D0Statuses /\ D0Status("none").status = "none"
    BY D0StatusIs DEF D0Statuses
  <1>3. CASE SendTelegram
    BY <1>3, SendTelegramOK
  <1>4. CASE DeliverChar
    BY <1>4, DeliverCharOK
  <1>5. CASE LoseChar
    <2>1. D0Fault /\ d0Result' = D0Status("none") /\ UNCHANGED d0Frame
      BY <1>5, Zenon DEF LoseChar
    <2>2. QED
      BY <1>1, <1>2, <2>1, SameFrame, D0FaultOK, Zenon DEF D0Inv
  <1>6. CASE NoiseChar
    <2>1. PICK kind : D0Fault /\ ConsumeD0(Char(kind))
      BY <1>6, Zenon DEF NoiseChar
    <2>2. QED
      BY <1>1, <2>1, ConsumeD0OK, D0FaultOK, Zenon DEF D0Inv
  <1>7. CASE OutsideD0Reset
    <2>1. D0Fault /\ d0Result' = D0Status("none") /\ D0Idle'
      BY <1>7, IdleAfter, Zenon DEF OutsideD0Reset
    <2>2. QED
      BY <1>1, <1>2, <2>1, IdleNext, D0FaultOK, Zenon DEF D0Inv
  <1>8. CASE UNCHANGED d0Vars
    <2>1. /\ UNCHANGED d0Frame /\ d0Passive' = d0Passive /\ d0Wire' = d0Wire /\ d0Whole' = d0Whole
          /\ d0Run' = d0Run /\ d0Sent' = d0Sent /\ d0Faults' = d0Faults /\ d0Result' = d0Result
      BY <1>8 DEF d0Vars, meterVars
    <2>2. FrameKept /\ D0FrameOK'
      BY <1>1, <2>1, KeptIs, SameFrame
    <2>3. CountsOK'
      BY <1>1, <2>1 DEF CountsOK
    <2>4. D0LineOK'
      BY <2>1, <2>2 DEF D0Inv, D0LineOK, BetweenTelegrams, Sending, LineOf, FrameKept, D0Idle, Stuck,
         PassiveLine, ActiveLine, SyncedPassive, SyncedActive, D0Dropped, Loose, Behind
    <2>5. D0Resync'
      BY <2>1 DEF D0Inv, D0Resync
    <2>6. QED
      BY <2>2, <2>3, <2>4, <2>5, Zenon DEF D0Inv
  <1>9. QED
    BY <1>3, <1>4, <1>5, <1>6, <1>7, <1>8, Zenon DEF D0Next

LEMMA D0Invariant == D0Spec => []D0Inv
  <1>1. D0Init => D0Inv
    BY D0Starts
  <1>2. D0Inv /\ [D0Next]_d0Vars => D0Inv'
    BY D0Step
  <1>3. QED
    BY <1>1, <1>2, PTL DEF D0Spec

\* The parser of meter/D0Parser.cpp keeps to its frame size and reports one of
\* three results, whatever the line does.
THEOREM D0Types == D0Spec => []D0TypeOK
  <1>1. D0Inv => D0TypeOK
    BY Zenon DEF D0Inv, D0FrameOK, CountsOK, D0Statuses, D0TypeOK
  <1>2. QED
    BY <1>1, D0Invariant, PTL

\* Whatever the line has done, after D0Patience whole telegrams in a row each one is
\* reported when it ends, with its own readings.
THEOREM D0ResyncHolds == D0Spec => []D0Resync
  <1>1. D0Inv => D0Resync
    BY DEF D0Inv
  <1>2. QED
    BY <1>1, D0Invariant, PTL
=============================================================================
