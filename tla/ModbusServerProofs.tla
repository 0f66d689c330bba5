------------------------- MODULE ModbusServerProofs -------------------------
(***************************************************************************)
(* ModbusServer for any requests and any number of them on a connection:   *)
(* however they are cut into pieces and put together again, each one is    *)
(* answered once, in order, and by itself.                                 *)
(***************************************************************************)
EXTENDS ModbusServer, SequenceTheorems, TLAPS

AnswerType == {"registers", "exception 1", "exception 2", "exception 3"}

ByteType == [of : RequestType, at : Nat]

\* The place of each request in what is unread, were it all there: the first
\* of those that are not answered begins it, and each begins where another ends.
Places(base, n, asked) ==
  /\ base \in [n + 1 .. Len(asked) + 1 -> Nat]
  /\ base[n + 1] = 0
  /\ \A k \in n + 1 .. Len(asked) : base[k + 1] = base[k] + asked[k].length
  /\ \A k \in n + 1 .. Len(asked) : \A l \in k + 1 .. Len(asked) + 1 :
       base[k] + asked[k].length <= base[l]

\* What is unread is the requests at their places, and all of them while the
\* client can still ask.
Stream(base, n, asked, unread, closed) ==
  /\ Len(unread) <= base[Len(asked) + 1]
  /\ ~closed => Len(unread) = base[Len(asked) + 1]
  /\ \A k \in n + 1 .. Len(asked) : \A j \in 1 .. asked[k].length :
       base[k] + j <= Len(unread) => unread[base[k] + j] = [of |-> asked[k], at |-> j]

Streams(n, asked, unread, closed) ==
  \E base : Places(base, n, asked) /\ Stream(base, n, asked, unread, closed)

TypesInv ==
  /\ modbusBuffer \in Seq(ByteType) /\ modbusSocket \in Seq(ByteType)
  /\ modbusAsked \in Seq(RequestType) /\ modbusAnswers \in Seq(AnswerType)
  /\ Len(modbusAnswers) <= Len(modbusAsked)

StreamInv ==
  Streams(Len(modbusAnswers), modbusAsked, modbusBuffer \o modbusSocket, modbusClosed)

AnswersInv == \A i \in 1 .. Len(modbusAnswers) : modbusAnswers[i] = AnswerTo(modbusAsked[i])

IInv == TypesInv /\ StreamInv /\ AnswersInv
-----------------------------------------------------------------------------
LEMMA LengthOf ==
  ASSUME NEW request \in RequestType
  PROVE  request.length \in Nat /\ 6 <= request.length
  BY DEF RequestType

LEMMA BytesOf ==
  ASSUME NEW request \in RequestType
  PROVE  /\ Bytes(request) \in Seq(ByteType)
         /\ Len(Bytes(request)) = request.length
         /\ \A j \in 1 .. request.length : Bytes(request)[j] = [of |-> request, at |-> j]
  <1>1. request.length \in Nat
    BY LengthOf
  <1>2. Bytes(request) \in [1 .. request.length -> ByteType]
    BY <1>1 DEF Bytes, ByteType
  <1>3. QED
    BY <1>1, <1>2 DEF Bytes

LEMMA AnswerHasType == \A request : AnswerTo(request) \in AnswerType
  BY Zenon DEF AnswerTo, AnswerType

LEMMA Associative ==
  ASSUME NEW b \in Seq(ByteType), NEW s \in Seq(ByteType), NEW p \in Seq(ByteType)
  PROVE  (b \o s) \o p = b \o (s \o p)
  BY ConcatAssociative

\* Nothing asked, nothing answered, nothing unread.
LEMMA EmptyStream ==
  ASSUME NEW closed
  PROVE  Streams(0, <<>>, <<>> \o <<>>, closed)
  <1> DEFINE base == [k \in {1} |-> 0]
  <1>1. Len(<<>>) = 0 /\ Len(<<>> \o <<>>) = 0 /\ 0 + 1 .. 0 + 1 = {1} /\ 0 + 1 .. 0 = {}
    OBVIOUS
  <1>2. base \in [0 + 1 .. 0 + 1 -> Nat] /\ base[1] = 0
    BY <1>1
  <1> HIDE DEF base
  <1>3. Places(base, 0, <<>>)
    BY <1>1, <1>2 DEF Places
  <1>4. Stream(base, 0, <<>>, <<>> \o <<>>, closed)
    BY <1>1, <1>2 DEF Stream
  <1>5. QED
    BY <1>3, <1>4 DEF Streams

\* A request, or the beginning of one, joins at the end.
LEMMA ExtendStream ==
  ASSUME NEW asked \in Seq(RequestType), NEW n \in Nat, n <= Len(asked),
         NEW unread \in Seq(ByteType), Streams(n, asked, unread, FALSE),
         NEW request \in RequestType, NEW part \in Nat, part <= request.length,
         NEW piece \in Seq(ByteType), Len(piece) = part,
         \A j \in 1 .. part : piece[j] = [of |-> request, at |-> j]
  PROVE  Streams(n, Append(asked, request), unread \o piece, part < request.length)
  <1> DEFINE m == Len(asked)
             size == request.length
             longer == Append(asked, request)
             grown == unread \o piece
             next(base) == [k \in n + 1 .. m + 2 |-> IF k = m + 2 THEN base[m + 1] + size ELSE base[k]]
  <1>1. m \in Nat /\ size \in Nat /\ n <= m /\ part <= size /\ size = request.length
    BY LengthOf
  <1>2. /\ longer \in Seq(RequestType) /\ Len(longer) = m + 1 /\ longer[m + 1] = request
        /\ \A k \in 1 .. m : longer[k] = asked[k]
    OBVIOUS
  <1>3. \A k \in 1 .. m : asked[k].length \in Nat
    BY LengthOf
  <1>4. /\ grown \in Seq(ByteType) /\ Len(grown) = Len(unread) + part /\ Len(unread) \in Nat
        /\ \A i \in 1 .. Len(unread) : grown[i] = unread[i]
        /\ \A j \in 1 .. part : grown[Len(unread) + j] = [of |-> request, at |-> j]
    <2>1. /\ grown \in Seq(ByteType) /\ Len(grown) = Len(unread) + Len(piece)
          /\ \A i \in 1 .. Len(unread) + Len(piece) :
               grown[i] = IF i <= Len(unread) THEN unread[i] ELSE piece[i - Len(unread)]
      BY ConcatProperties, Zenon
    <2> HIDE DEF grown
    <2>2. QED
      BY <2>1
  <1>5. PICK base : Places(base, n, asked) /\ Stream(base, n, asked, unread, FALSE)
    BY DEF Streams
  <1> DEFINE at == next(base)
  <1> HIDE DEF longer, grown
  <1>6. /\ base \in [n + 1 .. m + 1 -> Nat] /\ base[n + 1] = 0
        /\ \A k \in n + 1 .. m : base[k + 1] = base[k] + asked[k].length
        /\ \A k \in n + 1 .. m : \A l \in k + 1 .. m + 1 : base[k] + asked[k].length <= base[l]
    BY <1>5 DEF Places
  <1>7. /\ Len(unread) = base[m + 1]
        /\ \A k \in n + 1 .. m : \A j \in 1 .. asked[k].length :
             base[k] + j <= Len(unread) => unread[base[k] + j] = [of |-> asked[k], at |-> j]
    BY <1>5 DEF Stream
  <1> HIDE DEF m, size
  <1>below. \A k \in n + 1 .. m + 1 : k # m + 1 => k \in n + 1 .. m /\ k \in 1 .. m
    BY <1>1
  <1>8. /\ at \in [n + 1 .. m + 2 -> Nat] /\ at[m + 2] = base[m + 1] + size
        /\ \A k \in n + 1 .. m + 1 : at[k] = base[k] /\ base[k] \in Nat
    BY <1>1, <1>6
  <1> HIDE DEF at
  <1>9. Places(at, n, longer)
    <2>1. at[n + 1] = 0
      BY <1>1, <1>6, <1>8
    <2>2. ASSUME NEW k \in n + 1 .. m + 1
          PROVE  at[k + 1] = at[k] + longer[k].length
      <3>1. CASE k = m + 1
        BY <1>1, <1>2, <1>8, <3>1
      <3>2. CASE k # m + 1
        <4>1. k \in n + 1 .. m /\ k \in 1 .. m /\ k + 1 \in n + 1 .. m + 1
          BY <1>1, <3>2
        <4>2. at[k] = base[k] /\ at[k + 1] = base[k + 1] /\ longer[k] = asked[k]
          BY <1>2, <1>8, <4>1, Zenon
        <4>3. QED
          BY <1>6, <4>1, <4>2, Zenon
      <3>3. QED
        BY <3>1, <3>2
    <2>3. ASSUME NEW k \in n + 1 .. m + 1, NEW l \in k + 1 .. m + 2
          PROVE  at[k] + longer[k].length <= at[l]
      <3>1. CASE k = m + 1
        BY <1>1, <1>2, <1>8, <3>1
      <3>2. CASE k # m + 1 /\ l # m + 2
        <4>1. /\ k \in n + 1 .. m /\ k \in 1 .. m /\ k \in n + 1 .. m + 1
              /\ l \in k + 1 .. m + 1 /\ l \in n + 1 .. m + 1
          BY <1>1, <3>2
        <4>2. at[k] = base[k] /\ at[l] = base[l] /\ longer[k] = asked[k]
          BY <1>2, <1>8, <4>1, Zenon
        <4>3. QED
          BY <1>6, <4>1, <4>2, Zenon
      <3>3. CASE k # m + 1 /\ l = m + 2
        <4>1. base[k] + asked[k].length <= base[m + 1] /\ asked[k].length \in Nat
          BY <1>1, <1>3, <1>6, <3>3
        <4>2. at[k] = base[k] /\ base[k] \in Nat /\ base[m + 1] \in Nat /\ longer[k] = asked[k]
          BY <1>1, <1>2, <1>8, <3>3
        <4>3. at[l] = base[m + 1] + size
          BY <1>8, <3>3
        <4> DEFINE a == base[k]
                   b == asked[k].length
                   c == base[m + 1]
        <4>4. a + b <= c /\ a \in Nat /\ b \in Nat /\ c \in Nat
          BY <4>1, <4>2
        <4> HIDE DEF a, b, c
        <4>5. a + b <= c + size
          BY <1>1, <4>4
        <4>6. QED
          BY <4>2, <4>3, <4>5 DEF a, b, c
      <3>4. QED
        BY <3>1, <3>2, <3>3
    <2>4. QED
      BY <1>1, <1>2, <1>8, <2>1, <2>2, <2>3 DEF Places, m
  <1>10. Stream(at, n, longer, grown, part < size)
    <2>1. /\ Len(grown) <= at[m + 2]
          /\ ~(part < size) => Len(grown) = at[m + 2]
      BY <1>1, <1>4, <1>7, <1>8
    <2>2. ASSUME NEW k \in n + 1 .. m + 1, NEW j \in 1 .. longer[k].length,
                 at[k] + j <= Len(grown)
          PROVE  grown[at[k] + j] = [of |-> longer[k], at |-> j]
      <3>1. CASE k = m + 1
        <4>1. at[k] = Len(unread) /\ longer[k] = request /\ j \in 1 .. part
          BY <1>1, <1>2, <1>4, <1>7, <1>8, <2>2, <3>1
        <4>2. QED
          BY <1>4, <4>1
      <3>2. CASE k # m + 1
        <4>1. k \in n + 1 .. m /\ k \in 1 .. m
          BY <1>below, <3>2, Zenon
        <4>2. longer[k] = asked[k] /\ at[k] = base[k] /\ base[k] \in Nat /\ asked[k].length \in Nat
          BY <1>1, <1>2, <1>3, <1>8, <4>1
        <4>3. base[k] + asked[k].length <= Len(unread)
          BY <1>1, <1>6, <1>7, <4>1
        <4>4. base[k] + j \in 1 .. Len(unread)
          BY <1>4, <4>2, <4>3
        <4>5. unread[base[k] + j] = [of |-> asked[k], at |-> j]
          BY <1>7, <4>1, <4>2, <4>4
        <4>6. QED
          BY <1>4, <4>2, <4>4, <4>5
      <3>3. QED
        BY <3>1, <3>2
    <2>3. QED
      BY <1>1, <1>2, <2>1, <2>2 DEF Stream
  <1>11. QED
    BY <1>9, <1>10 DEF Streams, longer, grown, size

\* What is unread begins with the first request that is not answered.
LEMMA FirstIs ==
  ASSUME NEW asked \in Seq(RequestType), NEW n \in Nat, n <= Len(asked), NEW closed,
         NEW unread \in Seq(ByteType), Streams(n, asked, unread, closed), Len(unread) > 0
  PROVE  /\ n < Len(asked)
         /\ \A j \in 1 .. asked[n + 1].length :
              j <= Len(unread) => unread[j] = [of |-> asked[n + 1], at |-> j]
  <1>1. PICK base : Places(base, n, asked) /\ Stream(base, n, asked, unread, closed)
    BY DEF Streams
  <1>2. base[n + 1] = 0 /\ Len(unread) <= base[Len(asked) + 1]
    BY <1>1 DEF Places, Stream
  <1>3. n < Len(asked)
    BY <1>2
  <1>4. ASSUME NEW j \in 1 .. asked[n + 1].length, j <= Len(unread)
        PROVE  unread[j] = [of |-> asked[n + 1], at |-> j]
    <2>1. asked[n + 1].length \in Nat
      BY <1>3, LengthOf
    <2>2. n + 1 \in n + 1 .. Len(asked) /\ base[n + 1] + j = j /\ j \in Nat
      BY <1>2, <1>3, <2>1
    <2>3. \A k \in n + 1 .. Len(asked) : \A i \in 1 .. asked[k].length :
            base[k] + i <= Len(unread) => unread[base[k] + i] = [of |-> asked[k], at |-> i]
      BY <1>1 DEF Stream
    <2>4. QED
      BY <1>4, <2>2, <2>3
  <1>5. QED
    BY <1>3, <1>4

\* The first request is taken from the beginning.
LEMMA TakeStream ==
  ASSUME NEW asked \in Seq(RequestType), NEW n \in Nat, n < Len(asked), NEW closed,
         NEW unread \in Seq(ByteType), Streams(n, asked, unread, closed),
         asked[n + 1].length <= Len(unread),
         NEW rest \in Seq(ByteType), Len(rest) = Len(unread) - asked[n + 1].length,
         \A i \in 1 .. Len(rest) : rest[i] = unread[asked[n + 1].length + i]
  PROVE  Streams(n + 1, asked, rest, closed)
  <1> DEFINE m == Len(asked)
             size == asked[n + 1].length
  <1>1. /\ m \in Nat /\ size \in Nat /\ n < m /\ size <= Len(unread) /\ Len(unread) \in Nat
        /\ size = asked[n + 1].length
        /\ Len(rest) = Len(unread) - size
        /\ \A i \in 1 .. Len(rest) : rest[i] = unread[size + i]
    BY LengthOf
  <1>2. PICK base : Places(base, n, asked) /\ Stream(base, n, asked, unread, closed)
    BY DEF Streams
  <1>3. /\ base \in [n + 1 .. m + 1 -> Nat] /\ base[n + 1] = 0
        /\ \A k \in n + 1 .. m : base[k + 1] = base[k] + asked[k].length
        /\ \A k \in n + 1 .. m : \A l \in k + 1 .. m + 1 : base[k] + asked[k].length <= base[l]
    BY <1>2 DEF Places
  <1>4. /\ Len(unread) <= base[m + 1] /\ (~closed => Len(unread) = base[m + 1])
        /\ \A k \in n + 1 .. m : \A j \in 1 .. asked[k].length :
             base[k] + j <= Len(unread) => unread[base[k] + j] = [of |-> asked[k], at |-> j]
    BY <1>2 DEF Stream
  <1>5. \A k \in n + 1 .. m : asked[k].length \in Nat
    BY LengthOf
  <1> HIDE DEF m, size
  <1>6. /\ base[n + 2] = size
        /\ \A k \in n + 2 .. m + 1 : base[k] \in Nat /\ size <= base[k]
    <2>1. n + 1 \in n + 1 .. m
      BY <1>1
    <2>2. base[n + 1] + asked[n + 1].length = size
      BY <1>1, <1>3
    <2>3. base[(n + 1) + 1] = size
      BY <1>3, <2>1, <2>2
    <2>4. ASSUME NEW k \in n + 2 .. m + 1 PROVE base[k] \in Nat /\ size <= base[k]
      <3>1. k \in (n + 1) + 1 .. m + 1 /\ k \in n + 1 .. m + 1
        BY <1>1
      <3>2. QED
        BY <1>3, <2>1, <2>2, <3>1
    <2>5. (n + 1) + 1 = n + 2
      OBVIOUS
    <2>6. QED
      BY <2>3, <2>4, <2>5
  <1> DEFINE at == [k \in n + 2 .. m + 1 |-> base[k] - size]
  <1>7. \A k \in n + 2 .. m + 1 : at[k] = base[k] - size /\ at[k] \in Nat
    BY <1>1, <1>6
  <1>8. at \in [n + 2 .. m + 1 -> Nat]
    BY <1>1, <1>6
  <1> HIDE DEF at
  <1>9. Places(at, n + 1, asked)
    <2>1. at[n + 2] = 0
      BY <1>1, <1>6, <1>7
    <2>2. ASSUME NEW k \in n + 2 .. m
          PROVE  at[k + 1] = at[k] + asked[k].length
      <3>1. /\ k \in n + 1 .. m /\ k \in n + 2 .. m + 1 /\ k + 1 \in n + 2 .. m + 1
        BY <1>1
      <3>2. base[k + 1] = base[k] + asked[k].length /\ asked[k].length \in Nat
        BY <1>3, <1>5, <3>1
      <3>3. at[k] = base[k] - size /\ at[k + 1] = base[k + 1] - size /\ base[k] \in Nat
        BY <1>6, <1>7, <3>1
      <3>4. QED
        BY <1>1, <3>2, <3>3
    <2>3. ASSUME NEW k \in n + 2 .. m, NEW l \in k + 1 .. m + 1
          PROVE  at[k] + asked[k].length <= at[l]
      <3>1. /\ k \in n + 1 .. m /\ k \in n + 2 .. m + 1 /\ l \in n + 2 .. m + 1
        BY <1>1
      <3>2. base[k] + asked[k].length <= base[l] /\ asked[k].length \in Nat
        BY <1>3, <1>5, <3>1
      <3>3. at[k] = base[k] - size /\ at[l] = base[l] - size /\ base[k] \in Nat /\ base[l] \in Nat
        BY <1>6, <1>7, <3>1
      <3> DEFINE a == base[k]
                 b == base[l]
                 c == asked[k].length
      <3>4. a \in Nat /\ b \in Nat /\ c \in Nat /\ size \in Nat /\ a + c <= b
        BY <1>1, <3>2, <3>3
      <3> HIDE DEF a, b, c
      <3>5. (a - size) + c <= b - size
        BY <3>4
      <3>6. QED
        BY <3>3, <3>5 DEF a, b, c
    <2>4. (n + 1) + 1 = n + 2
      OBVIOUS
    <2>5. QED
      BY <1>8, <2>1, <2>2, <2>3, <2>4 DEF Places, m
  <1>10. Stream(at, n + 1, asked, rest, closed)
    <2>1. m + 1 \in n + 2 .. m + 1
      BY <1>1
    <2>2. Len(rest) <= at[m + 1] /\ (~closed => Len(rest) = at[m + 1])
      BY <1>1, <1>4, <1>6, <1>7, <2>1
    <2>3. ASSUME NEW k \in n + 2 .. m, NEW j \in 1 .. asked[k].length, at[k] + j <= Len(rest)
          PROVE  rest[at[k] + j] = [of |-> asked[k], at |-> j]
      <3>1. /\ k \in n + 1 .. m /\ k \in n + 2 .. m + 1
        BY <1>1
      <3>2. asked[k].length \in Nat /\ j \in Nat /\ base[k] \in Nat /\ size <= base[k]
            /\ at[k] = base[k] - size
        BY <1>5, <1>6, <1>7, <3>1
      <3>3. at[k] + j \in 1 .. Len(rest) /\ size + (at[k] + j) = base[k] + j
            /\ base[k] + j <= Len(unread)
        <4> DEFINE a == at[k]
                   b == base[k]
                   r == Len(rest)
        <4>1. /\ a = b - size /\ size <= b /\ b \in Nat /\ size \in Nat /\ j \in Nat /\ 1 <= j
              /\ a + j <= r /\ r = Len(unread) - size /\ Len(unread) \in Nat
          BY <1>1, <2>3, <3>2
        <4> HIDE DEF a, b, r
        <4>2. a + j \in 1 .. r /\ size + (a + j) = b + j /\ b + j <= Len(unread)
          BY <4>1
        <4>3. QED
          BY <4>2 DEF a, b, r
      <3>4. rest[at[k] + j] = unread[base[k] + j]
        BY <1>1, <3>3
      <3>5. QED
        BY <1>4, <3>1, <3>3, <3>4
    <2>4. (n + 1) + 1 = n + 2
      OBVIOUS
    <2>5. QED
      BY <2>2, <2>3, <2>4 DEF Stream, m
  <1>11. QED
    BY <1>9, <1>10 DEF Streams
-----------------------------------------------------------------------------
LEMMA Joined ==
  ASSUME NEW b \in Seq(ByteType), NEW s \in Seq(ByteType)
  PROVE  /\ b \o s \in Seq(ByteType) /\ Len(b \o s) = Len(b) + Len(s)
         /\ \A i \in 1 .. Len(b) : (b \o s)[i] = b[i]
         /\ \A i \in 1 .. Len(s) : (b \o s)[Len(b) + i] = s[i]
  <1> DEFINE u == b \o s
  <1>1. /\ u \in Seq(ByteType) /\ Len(u) = Len(b) + Len(s)
        /\ \A i \in 1 .. Len(b) + Len(s) : u[i] = IF i <= Len(b) THEN b[i] ELSE s[i - Len(b)]
    BY ConcatProperties, Zenon
  <1> HIDE DEF u
  <1>2. Len(b) \in Nat /\ Len(s) \in Nat
    OBVIOUS
  <1>3. ASSUME NEW i \in 1 .. Len(b) PROVE u[i] = b[i]
    BY <1>1, <1>2
  <1>4. ASSUME NEW i \in 1 .. Len(s) PROVE u[Len(b) + i] = s[i]
    <2>1. /\ Len(b) + i \in 1 .. Len(b) + Len(s) /\ ~(Len(b) + i <= Len(b))
          /\ (Len(b) + i) - Len(b) = i
      BY <1>2
    <2>2. QED
      BY <1>1, <2>1
  <1>5. QED
    BY <1>1, <1>3, <1>4 DEF u

LEMMA Lengths ==
  ASSUME NEW lb \in Nat, NEW ls \in Nat, NEW k \in 0 .. ls
  PROVE  /\ lb + k \in Nat /\ ls - k \in Nat /\ (lb + k) + (ls - k) = lb + ls
         /\ \A i \in 1 .. ls - k : k + i \in 1 .. ls /\ (lb + k) + i = lb + (k + i)
         /\ lb + ls \in Nat /\ lb + k <= lb + ls /\ ls - k = (lb + ls) - (lb + k)
         /\ 6 <= lb => 6 \in 1 .. lb /\ 6 <= lb + ls /\ lb + ls > 0
  OBVIOUS

\* What ReadStage gathers when it takes k bytes, and what it leaves.
Gathered(b, s, k) == b \o SubSeq(s, 1, k)
Unread(s, k) == SubSeq(s, k + 1, Len(s))

\* The first k bytes of the socket go to the buffer.
LEMMA Split ==
  ASSUME NEW b \in Seq(ByteType), NEW s \in Seq(ByteType), NEW k \in 0 .. Len(s)
  PROVE  LET g == Gathered(b, s, k)
             r == Unread(s, k)
         IN
         /\ g \in Seq(ByteType) /\ Len(g) = Len(b) + k
         /\ r \in Seq(ByteType) /\ Len(r) = Len(s) - k
         /\ b \o s \in Seq(ByteType) /\ Len(b \o s) = Len(b) + Len(s)
         /\ \A i \in 1 .. Len(b) : b[i] = (b \o s)[i]
         /\ \A i \in 1 .. Len(g) : g[i] = (b \o s)[i]
         /\ \A i \in 1 .. Len(r) : r[i] = (b \o s)[Len(g) + i]
         /\ g \o r = b \o s
  <1> DEFINE g == Gathered(b, s, k)
             r == Unread(s, k)
             h == SubSeq(s, 1, k)
  <1>1. Len(s) \in Nat /\ Len(b) \in Nat /\ k \in Nat /\ k <= Len(s)
    OBVIOUS
  <1>2. h \in Seq(ByteType) /\ Len(h) = k /\ \A i \in 1 .. k : h[i] = s[i]
    BY <1>1
  <1>3. r \in Seq(ByteType) /\ Len(r) = Len(s) - k /\ \A i \in 1 .. Len(r) : r[i] = s[k + i]
    BY <1>1 DEF Unread
  <1>4. g = b \o h
    BY DEF Gathered
  <1> HIDE DEF h, g, r
  <1>5. h \in Seq(ByteType)
    BY <1>2
  <1>6. /\ g \in Seq(ByteType) /\ Len(g) = Len(b) + Len(h)
        /\ \A i \in 1 .. Len(b) : g[i] = b[i]
        /\ \A i \in 1 .. Len(h) : g[Len(b) + i] = h[i]
    <2>1. /\ b \o h \in Seq(ByteType) /\ Len(b \o h) = Len(b) + Len(h)
          /\ \A i \in 1 .. Len(b) : (b \o h)[i] = b[i]
          /\ \A i \in 1 .. Len(h) : (b \o h)[Len(b) + i] = h[i]
      BY <1>5, Joined, Zenon
    <2>2. QED
      BY <1>4, <2>1, Zenon
  <1>7. g \in Seq(ByteType) /\ r \in Seq(ByteType)
    BY <1>3, <1>6
  <1> DEFINE u == b \o s
             v == g \o r
  <1>8. /\ u \in Seq(ByteType) /\ Len(u) = Len(b) + Len(s)
        /\ \A i \in 1 .. Len(b) : u[i] = b[i]
        /\ \A i \in 1 .. Len(s) : u[Len(b) + i] = s[i]
    BY Joined, Zenon
  <1>9. /\ v \in Seq(ByteType) /\ Len(v) = Len(g) + Len(r)
        /\ \A i \in 1 .. Len(g) : v[i] = g[i]
        /\ \A i \in 1 .. Len(r) : v[Len(g) + i] = r[i]
    BY <1>7, Joined, Zenon
  <1> HIDE DEF u, v
  <1>10. /\ Len(g) = Len(b) + k /\ Len(r) = Len(s) - k /\ Len(v) = Len(u)
         /\ Len(v) = Len(g) + Len(r) /\ Len(g) \in Nat /\ Len(r) \in Nat
    <2>1. Len(g) = Len(b) + k /\ Len(r) = Len(s) - k
      BY <1>2, <1>3, <1>6, Zenon
    <2>2. Len(v) = Len(g) + Len(r) /\ Len(u) = Len(b) + Len(s)
      BY <1>8, <1>9, Zenon
    <2>3. /\ Len(b) + k \in Nat /\ Len(s) - k \in Nat
          /\ (Len(b) + k) + (Len(s) - k) = Len(b) + Len(s)
      BY <1>1, Lengths, Zenon
    <2>4. QED
      BY <2>1, <2>2, <2>3, Zenon
  <1>11. ASSUME NEW i \in 1 .. Len(g) PROVE g[i] = u[i]
    <2>1. CASE i <= Len(b)
      <3>1. i \in 1 .. Len(b)
        BY <2>1
      <3>2. QED
        BY <1>6, <1>8, <3>1, Zenon
    <2>2. CASE ~(i <= Len(b))
      <3>1. PICK j \in 1 .. k : i = Len(b) + j /\ j \in 1 .. Len(s)
        <4>1. i - Len(b) \in 1 .. k /\ i = Len(b) + (i - Len(b)) /\ i - Len(b) \in 1 .. Len(s)
          BY <1>1, <1>10, <2>2
        <4>2. QED
          BY <4>1
      <3>2. g[i] = h[j] /\ h[j] = s[j] /\ u[i] = s[j]
        BY <1>2, <1>6, <1>8, <3>1
      <3>3. QED
        BY <3>2
    <2>3. QED
      BY <2>1, <2>2
  <1>12. ASSUME NEW i \in 1 .. Len(r) PROVE r[i] = u[Len(g) + i]
    <2>1. k + i \in 1 .. Len(s) /\ Len(g) + i = Len(b) + (k + i)
      <3>1. \A j \in 1 .. Len(s) - k : k + j \in 1 .. Len(s) /\ (Len(b) + k) + j = Len(b) + (k + j)
        BY <1>1, Lengths, Zenon
      <3>2. QED
        BY <1>10, <3>1, Zenon
    <2>2. r[i] = s[k + i] /\ u[Len(b) + (k + i)] = s[k + i]
      BY <1>3, <1>8, <2>1
    <2>3. QED
      BY <2>1, <2>2
  <1>13. v = u
    <2>1. ASSUME NEW i \in 1 .. Len(v) PROVE v[i] = u[i]
      <3>1. CASE i <= Len(g)
        <4>1. i \in 1 .. Len(g)
          BY <3>1
        <4>2. QED
          BY <1>9, <1>11, <4>1
      <3>2. CASE ~(i <= Len(g))
        <4>1. PICK j \in 1 .. Len(r) : i = Len(g) + j
          <5>1. i - Len(g) \in 1 .. Len(r) /\ i = Len(g) + (i - Len(g))
            BY <1>10, <3>2
          <5>2. QED
            BY <5>1
        <4>2. QED
          BY <1>9, <1>12, <4>1
      <3>3. QED
        BY <3>1, <3>2
    <2>2. v \in Seq(ByteType) /\ u \in Seq(ByteType)
      BY <1>8, <1>9
    <2>3. QED
      BY <1>10, <2>1, <2>2, SeqEqual, Zenon
  <1>14. \A i \in 1 .. Len(b) : b[i] = u[i]
    BY <1>8, Zenon
  <1>15. QED
    BY <1>3, <1>6, <1>8, <1>10, <1>11, <1>12, <1>13, <1>14 DEF u, v, g, r

LEMMA MinOfTwo ==
  ASSUME NEW a \in Int, NEW b \in Int
  PROVE  Min({a, b}) <= a /\ Min({a, b}) \in Int
  <1>1. \E x \in {a, b} : \A y \in {a, b} : x <= y
    <2>1. CASE a <= b
      BY <2>1
    <2>2. CASE b <= a
      BY <2>2
    <2>3. QED
      BY <2>1, <2>2
  <1>2. QED
    BY <1>1 DEF Min

\* What has been gathered, when it is as long as its header says, is the first
\* request that is not answered; the rest begins with the next one.
LEMMA WholeRequest ==
  ASSUME NEW asked \in Seq(RequestType), NEW n \in Nat, n <= Len(asked), NEW closed,
         NEW b \in Seq(ByteType), NEW s \in Seq(ByteType), Streams(n, asked, b \o s, closed),
         NEW k \in 0 .. Len(s),
         6 <= Len(b), Len(Gathered(b, s, k)) = b[6].of.length
  PROVE  /\ n < Len(asked) /\ AnswerToBytes(Gathered(b, s, k)) = AnswerTo(asked[n + 1])
         /\ Streams(n + 1, asked, <<>> \o Unread(s, k), closed)
  <1> DEFINE u == b \o s
             g == Gathered(b, s, k)
             r == Unread(s, k)
             first == asked[n + 1]
             size == first.length
  <1>1. /\ g \in Seq(ByteType) /\ Len(g) = Len(b) + k
        /\ r \in Seq(ByteType) /\ Len(r) = Len(s) - k
        /\ u \in Seq(ByteType) /\ Len(u) = Len(b) + Len(s)
        /\ \A i \in 1 .. Len(b) : b[i] = u[i]
        /\ \A i \in 1 .. Len(g) : g[i] = u[i]
        /\ \A i \in 1 .. Len(r) : r[i] = u[Len(g) + i]
    BY Split, Zenon
  <1>2. Len(b) \in Nat /\ Len(s) \in Nat
    OBVIOUS
  <1>3. Streams(n, asked, u, closed) /\ 6 <= Len(b) /\ Len(g) = b[6].of.length
    OBVIOUS
  <1> HIDE DEF u, g, r
  <1>4. Len(u) > 0 /\ Len(g) <= Len(u) /\ Len(r) = Len(u) - Len(g) /\ 6 \in 1 .. Len(b) /\ 6 <= Len(u)
        /\ Len(u) \in Nat /\ Len(g) \in Nat
    <2>1. Len(u) = Len(b) + Len(s) /\ Len(g) = Len(b) + k /\ Len(r) = Len(s) - k
      BY <1>1, Zenon
    <2>2. /\ Len(b) + Len(s) \in Nat /\ Len(b) + k <= Len(b) + Len(s) /\ Len(b) + k \in Nat
          /\ Len(s) - k = (Len(b) + Len(s)) - (Len(b) + k)
          /\ 6 \in 1 .. Len(b) /\ 6 <= Len(b) + Len(s) /\ Len(b) + Len(s) > 0
      BY <1>2, <1>3, Lengths, Zenon
    <2>3. QED
      BY <2>1, <2>2, Zenon
  <1>5. n < Len(asked) /\ \A j \in 1 .. size : j <= Len(u) => u[j] = [of |-> first, at |-> j]
    <2>1. u \in Seq(ByteType)
      BY <1>1
    <2>2. QED
      BY <1>3, <1>4, <2>1, FirstIs, Zenon
  <1>6. first \in RequestType /\ size \in Nat /\ 6 <= size
    BY <1>5, LengthOf
  <1> HIDE DEF first
  <1>7. Len(g) = size
    <2>1. 6 \in 1 .. size
      BY <1>6
    <2>2. b[6] = [of |-> first, at |-> 6]
      BY <1>1, <1>4, <1>5, <2>1, Zenon
    <2>3. QED
      BY <1>3, <2>2
  <1>8. Len(g) \in Nat /\ \A i \in 1 .. Len(g) : g[i] = [of |-> first, at |-> i]
    <2>1. ASSUME NEW i \in 1 .. Len(g) PROVE g[i] = [of |-> first, at |-> i]
      <3>1. i \in 1 .. size /\ i <= Len(u)
        BY <1>4, <1>7
      <3>2. QED
        BY <1>1, <1>5, <3>1, Zenon
    <2>2. QED
      BY <1>4, <2>1
  <1>9. g = Bytes(first)
    <2>1. Bytes(first) \in Seq(ByteType) /\ Len(Bytes(first)) = size
          /\ \A j \in 1 .. size : Bytes(first)[j] = [of |-> first, at |-> j]
      BY <1>6, BytesOf, Zenon
    <2>2. g \in Seq(ByteType) /\ Bytes(first) \in Seq(ByteType) /\ Len(g) = Len(Bytes(first))
          /\ \A i \in 1 .. Len(g) : g[i] = Bytes(first)[i]
      BY <1>1, <1>7, <1>8, <2>1, Zenon
    <2>3. QED
      BY <2>2, SeqEqual, Zenon
  <1>10. AnswerToBytes(g) = AnswerTo(first)
    <2>1. 1 \in 1 .. Len(g)
      BY <1>6, <1>7
    <2>2. g[1] = [of |-> first, at |-> 1]
      BY <1>8, <2>1, Zenon
    <2>3. g[1].of = first
      BY <2>2
    <2>4. QED
      BY <1>9, <2>3, Zenon DEF AnswerToBytes
  <1>11. Streams(n + 1, asked, r, closed)
    <2>1. /\ asked[n + 1].length <= Len(u) /\ r \in Seq(ByteType) /\ u \in Seq(ByteType)
          /\ Len(r) = Len(u) - asked[n + 1].length
      BY <1>1, <1>4, <1>7 DEF first
    <2>2. \A i \in 1 .. Len(r) : r[i] = u[asked[n + 1].length + i]
      BY <1>1, <1>7, Zenon DEF first
    <2>3. n < Len(asked)
      BY <1>5
    <2>4. QED
      BY <1>3, <2>1, <2>2, <2>3, TakeStream, Zenon
  <1>12. <<>> \o r = r
    BY <1>1, ConcatEmptySeq, Zenon
  <1>13. QED
    BY <1>5, <1>10, <1>11, <1>12, Zenon DEF first, g, r
-----------------------------------------------------------------------------
LEMMA ClientDropped ==
  ASSUME DropClient
  PROVE  IInv'
  <1>1. modbusSocket' = <<>> /\ modbusBuffer' = <<>> /\ modbusAsked' = <<>> /\ modbusAnswers' = <<>>
    BY DEF DropClient
  <1>2. TypesInv'
    BY <1>1 DEF TypesInv
  <1>3. StreamInv'
    <2>1. Len(<<>>) = 0
      OBVIOUS
    <2>2. QED
      BY <1>1, <2>1, EmptyStream, Zenon DEF StreamInv
  <1>4. AnswersInv'
    BY <1>1 DEF AnswersInv
  <1>5. QED
    BY <1>2, <1>3, <1>4 DEF IInv

LEMMA ClosedStream ==
  ASSUME NEW n, NEW asked, NEW unread, Streams(n, asked, unread, FALSE)
  PROVE  Streams(n, asked, unread, TRUE)
  BY DEF Streams, Stream

\* The bytes of a connection are untouched.
LEMMA BytesUntouched ==
  ASSUME IInv, UNCHANGED <<modbusSocket, modbusBuffer, modbusAsked, modbusAnswers, modbusClosed>>
  PROVE  IInv'
  BY Zenon DEF IInv, TypesInv, StreamInv, AnswersInv

LEMMA AskKeeps ==
  ASSUME IInv, Ask
  PROVE  IInv'
  <1>1. PICK request \in ModbusRequests : \E part \in {request.length, 7, 3} :
          /\ modbusAsked' = Append(modbusAsked, request)
          /\ part <= request.length
          /\ modbusSocket' = modbusSocket \o SubSeq(Bytes(request), 1, part)
          /\ modbusClosed' = (part < request.length)
    BY DEF Ask
  <1>2. PICK part \in {request.length, 7, 3} :
          /\ modbusAsked' = Append(modbusAsked, request)
          /\ part <= request.length
          /\ modbusSocket' = modbusSocket \o SubSeq(Bytes(request), 1, part)
          /\ modbusClosed' = (part < request.length)
    BY <1>1
  <1>3. /\ modbusBuffer' = modbusBuffer /\ modbusAnswers' = modbusAnswers /\ modbusClosed = FALSE
    BY DEF Ask, serverVars, IInv
  <1>4. request \in RequestType
    BY ModbusAssumption
  <1>5. request.length \in Nat /\ part \in Nat /\ part <= request.length
    BY <1>2, <1>4, LengthOf
  <1> DEFINE piece == SubSeq(Bytes(request), 1, part)
  <1>6. piece \in Seq(ByteType) /\ Len(piece) = part
        /\ \A j \in 1 .. part : piece[j] = [of |-> request, at |-> j]
    <2> DEFINE all == Bytes(request)
    <2>1. all \in Seq(ByteType) /\ Len(all) = request.length
          /\ \A j \in 1 .. request.length : all[j] = [of |-> request, at |-> j]
      BY <1>4, BytesOf
    <2> HIDE DEF all
    <2>2. QED
      BY <1>5, <2>1 DEF all
  <1> HIDE DEF piece
  <1>7. /\ modbusBuffer \in Seq(ByteType) /\ modbusSocket \in Seq(ByteType)
        /\ modbusAsked \in Seq(RequestType) /\ modbusAnswers \in Seq(AnswerType)
        /\ Len(modbusAnswers) <= Len(modbusAsked) /\ Len(modbusAnswers) \in Nat
    BY DEF IInv, TypesInv
  <1>8. modbusSocket' = modbusSocket \o piece
    BY <1>2 DEF piece
  <1>9. modbusBuffer' \o modbusSocket' = (modbusBuffer \o modbusSocket) \o piece
    <2>1. piece \in Seq(ByteType) /\ modbusBuffer \in Seq(ByteType) /\ modbusSocket \in Seq(ByteType)
      BY <1>6, <1>7
    <2>2. (modbusBuffer \o modbusSocket) \o piece = modbusBuffer \o (modbusSocket \o piece)
      BY <2>1, Associative, Zenon
    <2>3. QED
      BY <1>3, <1>8, <2>2, Zenon
  <1>10. modbusBuffer \o modbusSocket \in Seq(ByteType)
    BY <1>7
  <1>11. Streams(Len(modbusAnswers), modbusAsked, modbusBuffer \o modbusSocket, FALSE)
    BY <1>3 DEF IInv, StreamInv
  <1>12. Streams(Len(modbusAnswers), Append(modbusAsked, request),
                 (modbusBuffer \o modbusSocket) \o piece, part < request.length)
    BY <1>4, <1>5, <1>6, <1>7, <1>10, <1>11, ExtendStream, Zenon
  <1>13. StreamInv'
    BY <1>2, <1>3, <1>9, <1>12, Zenon DEF StreamInv
  <1>14. TypesInv'
    <2>1. modbusSocket' \in Seq(ByteType)
      BY <1>6, <1>7, <1>8
    <2>2. modbusAsked' \in Seq(RequestType) /\ Len(modbusAnswers) <= Len(modbusAsked')
      BY <1>2, <1>4, <1>7
    <2>3. QED
      BY <1>3, <1>7, <2>1, <2>2 DEF TypesInv
  <1>15. AnswersInv'
    <2>1. ASSUME NEW i \in 1 .. Len(modbusAnswers)
          PROVE  modbusAnswers[i] = AnswerTo(modbusAsked'[i])
      <3>1. i \in 1 .. Len(modbusAsked)
        BY <1>7
      <3>2. modbusAsked'[i] = modbusAsked[i]
        BY <1>2, <1>4, <1>7, <3>1
      <3>3. QED
        BY <3>2, Zenon DEF IInv, AnswersInv
    <2>2. QED
      BY <1>3, <2>1, Zenon DEF AnswersInv
  <1>16. QED
    BY <1>13, <1>14, <1>15 DEF IInv

LEMMA ReadKeeps ==
  ASSUME IInv, ReadStage
  PROVE  IInv'
  <1> DEFINE n == Len(modbusAnswers)
             b == modbusBuffer
             s == modbusSocket
             whole(k) == Len(b) >= 6 /\ Len(Gathered(b, s, k)) = Expected(b)
  <1>1. CASE DropClient
    BY <1>1, ClientDropped
  <1>2. CASE ~DropClient
    <2>1. PICK k \in 0 .. Min({Len(s), Expected(b) - Len(b)}) :
            /\ modbusSocket' = Unread(s, k)
            /\ modbusBuffer' = IF whole(k) THEN <<>> ELSE Gathered(b, s, k)
            /\ modbusAnswers' = IF whole(k) THEN Append(modbusAnswers, AnswerToBytes(Gathered(b, s, k)))
                                ELSE modbusAnswers
      BY <1>2, Zenon DEF ReadStage, Unread, Gathered
    <2>2. modbusAsked' = modbusAsked /\ modbusClosed' = modbusClosed
      BY <1>2, Zenon DEF ReadStage
    <2>3. /\ b \in Seq(ByteType) /\ s \in Seq(ByteType)
          /\ modbusAsked \in Seq(RequestType) /\ modbusAnswers \in Seq(AnswerType)
          /\ n <= Len(modbusAsked) /\ n \in Nat
          /\ Streams(n, modbusAsked, b \o s, modbusClosed)
          /\ \A i \in 1 .. n : modbusAnswers[i] = AnswerTo(modbusAsked[i])
      BY DEF IInv, TypesInv, StreamInv, AnswersInv
    <2>4. k \in 0 .. Len(s)
      <3>1. Len(s) \in Int /\ Len(b) \in Int
        BY <2>3
      <3>2. Expected(b) \in Int
        <4>1. CASE Len(b) < 6
          BY <4>1 DEF Expected
        <4>2. CASE ~(Len(b) < 6)
          <5>1. b[6] \in ByteType
            BY <2>3, <4>2
          <5>2. b[6].of \in RequestType
            BY <5>1 DEF ByteType
          <5>3. b[6].of.length \in Nat
            BY <5>2, LengthOf
          <5>4. QED
            BY <4>2, <5>3 DEF Expected
        <4>3. QED
          BY <4>1, <4>2
      <3> DEFINE other == Expected(b) - Len(b)
      <3>3. other \in Int
        BY <3>1, <3>2
      <3> HIDE DEF other
      <3>4. Min({Len(s), other}) <= Len(s) /\ Min({Len(s), other}) \in Int
        BY <3>1, <3>3, MinOfTwo, Zenon
      <3>5. k \in 0 .. Min({Len(s), other})
        BY DEF other
      <3>6. QED
        BY <3>1, <3>4, <3>5
    <2> DEFINE g == Gathered(b, s, k)
               r == Unread(s, k)
    <2>5. g \in Seq(ByteType) /\ r \in Seq(ByteType) /\ g \o r = b \o s
      BY <2>3, <2>4, Split, Zenon
    <2> HIDE DEF g, r, n
    <2>6. CASE whole(k)
      <3>1. modbusSocket' = r /\ modbusBuffer' = <<>>
            /\ modbusAnswers' = Append(modbusAnswers, AnswerToBytes(g))
        BY <2>1, <2>6, Zenon DEF g, r
      <3>2. 6 <= Len(b) /\ Len(Gathered(b, s, k)) = b[6].of.length
        BY <2>3, <2>6 DEF Expected
      <3>3. /\ n < Len(modbusAsked) /\ AnswerToBytes(g) = AnswerTo(modbusAsked[n + 1])
            /\ Streams(n + 1, modbusAsked, <<>> \o r, modbusClosed)
        BY <2>3, <2>4, <3>2, WholeRequest, Zenon DEF g, r
      <3>4. AnswerToBytes(g) \in AnswerType
        BY <3>3, AnswerHasType, Zenon
      <3>5. /\ modbusAnswers' \in Seq(AnswerType) /\ Len(modbusAnswers') = n + 1
            /\ \A i \in 1 .. n : modbusAnswers'[i] = modbusAnswers[i]
            /\ modbusAnswers'[n + 1] = AnswerToBytes(g)
        BY <2>3, <3>1, <3>4 DEF n
      <3>6. TypesInv'
        <4>1. n + 1 <= Len(modbusAsked)
          BY <2>3, <3>3
        <4>2. <<>> \in Seq(ByteType)
          OBVIOUS
        <4>3. QED
          BY <2>2, <2>3, <2>5, <3>1, <3>5, <4>1, <4>2, Zenon DEF TypesInv
      <3>7. StreamInv'
        BY <2>2, <3>1, <3>3, <3>5, Zenon DEF StreamInv
      <3>8. AnswersInv'
        <4>1. ASSUME NEW i \in 1 .. n + 1 PROVE modbusAnswers'[i] = AnswerTo(modbusAsked[i])
          <5>1. CASE i = n + 1
            BY <3>3, <3>5, <5>1, Zenon
          <5>2. CASE i # n + 1
            <6>1. i \in 1 .. n
              BY <2>3, <5>2
            <6>2. QED
              BY <2>3, <3>5, <6>1, Zenon
          <5>3. QED
            BY <5>1, <5>2
        <4>2. QED
          BY <2>2, <3>5, <4>1, Zenon DEF AnswersInv
      <3>9. QED
        BY <3>6, <3>7, <3>8 DEF IInv
    <2>7. CASE ~whole(k)
      <3>1. modbusSocket' = r /\ modbusBuffer' = g /\ modbusAnswers' = modbusAnswers
        BY <2>1, <2>7, Zenon DEF g, r
      <3>2. TypesInv'
        BY <2>2, <2>3, <2>5, <3>1, Zenon DEF TypesInv, n
      <3>3. StreamInv'
        BY <2>2, <2>3, <2>5, <3>1, Zenon DEF StreamInv, n
      <3>4. AnswersInv'
        BY <2>2, <2>3, <3>1, Zenon DEF AnswersInv, n
      <3>5. QED
        BY <3>2, <3>3, <3>4 DEF IInv
    <2>8. QED
      BY <2>6, <2>7
  <1>3. QED
    BY <1>1, <1>2

LEMMA InitHolds == ModbusInit => IInv
  <1>1. ModbusInit => TypesInv /\ AnswersInv
    BY DEF ModbusInit, TypesInv, AnswersInv
  <1>2. ModbusInit => StreamInv
    <2>1. Len(<<>>) = 0
      OBVIOUS
    <2>2. QED
      BY <2>1, EmptyStream, Zenon DEF ModbusInit, StreamInv
  <1>3. QED
    BY <1>1, <1>2 DEF IInv

LEMMA StepHolds == IInv /\ [ModbusNext]_modbusVars => IInv'
  <1> SUFFICES ASSUME IInv, [ModbusNext]_modbusVars
               PROVE  IInv'
    OBVIOUS
  <1>1. CASE StopServer
    BY <1>1, ClientDropped DEF StopServer
  <1>2. CASE AcceptClient
    <2>1. TypesInv'
      BY <1>2 DEF AcceptClient, TypesInv
    <2>2. StreamInv'
      <3>1. Len(<<>>) = 0
        OBVIOUS
      <3>2. QED
        BY <1>2, <3>1, EmptyStream, Zenon DEF AcceptClient, StreamInv
    <2>3. AnswersInv'
      BY <1>2 DEF AcceptClient, AnswersInv
    <2>4. QED
      BY <2>1, <2>2, <2>3 DEF IInv
  <1>3. CASE GoOn
    BY <1>3, BytesUntouched, Zenon DEF GoOn
  <1>4. CASE ReadStage
    BY <1>4, ReadKeeps
  <1>5. CASE EndPass
    BY <1>5, ClientDropped, BytesUntouched, Zenon DEF EndPass
  <1>6. CASE ChangeAllowed
    BY <1>6, BytesUntouched, Zenon DEF ChangeAllowed, serverVars
  <1>7. CASE Connect
    BY <1>7, BytesUntouched, Zenon DEF Connect, serverVars
  <1>8. CASE Ask
    BY <1>8, AskKeeps
  <1>9. CASE Close
    <2>1. /\ UNCHANGED <<modbusSocket, modbusBuffer, modbusAsked, modbusAnswers>>
          /\ modbusClosed = FALSE /\ modbusClosed' = TRUE
      BY <1>9 DEF Close, serverVars
    <2>2. StreamInv'
      BY <2>1, ClosedStream, Zenon DEF IInv, StreamInv
    <2>3. QED
      BY <2>1, <2>2, Zenon DEF IInv, TypesInv, AnswersInv
  <1>10. CASE TimerDue
    BY <1>10, BytesUntouched, Zenon DEF TimerDue, serverVars
  <1>11. CASE UNCHANGED modbusVars
    BY <1>11, BytesUntouched, Zenon DEF modbusVars
  <1>12. QED
    BY <1>1, <1>2, <1>3, <1>4, <1>5, <1>6, <1>7, <1>8, <1>9, <1>10, <1>11, Zenon DEF ModbusNext

\* ModbusAnswers for any requests, any number of them, and any cutting of their
\* bytes: processModbusRequest() answers the requests of the connection, each
\* by itself and in order, and the reading never runs over into the next one.
THEOREM AnswersInOrder == ModbusSpec => []ModbusAnswers
  <1>1. IInv => ModbusAnswers
    <2>1. TypesInv => DOMAIN modbusAnswers = 1 .. Len(modbusAnswers)
      BY DEF TypesInv
    <2>2. QED
      BY <2>1, Zenon DEF IInv, TypesInv, AnswersInv, ModbusAnswers
  <1>2. QED
    BY <1>1, InitHolds, StepHolds, PTL DEF ModbusSpec
-----------------------------------------------------------------------------
\* Types.  The buffer takes no more than its header announces, and a header that
\* announces more than the buffer holds drops the client.
LEMMA BufferKeeps ==
  ASSUME IInv, ModbusTypeOK, ReadStage
  PROVE  Len(modbusBuffer') <= 260
  <1>1. CASE DropClient
    BY <1>1 DEF DropClient
  <1>2. CASE ~DropClient
    <2> DEFINE b == modbusBuffer
               s == modbusSocket
               room == Expected(b) - Len(b)
    <2>1. PICK k \in 0 .. Min({Len(s), room}) :
            modbusBuffer' = <<>> \/ modbusBuffer' = Gathered(b, s, k)
      BY <1>2, Zenon DEF ReadStage, Gathered
    <2>2. b \in Seq(ByteType) /\ s \in Seq(ByteType) /\ Len(b) \in Nat /\ Len(s) \in Nat
      BY DEF IInv, TypesInv
    <2>3. Expected(b) \in Nat /\ Expected(b) <= 260
      <3>1. CASE Len(b) < 6
        BY <3>1 DEF Expected
      <3>2. CASE ~(Len(b) < 6)
        <4>1. b[6] \in ByteType
          BY <2>2, <3>2
        <4>2. b[6].of.length \in Nat
          BY <4>1, LengthOf DEF ByteType
        <4>3. Expected(b) = b[6].of.length
          BY <3>2 DEF Expected
        <4>4. ~(Expected(b) > 260)
          BY <1>2, Zenon DEF ReadStage, Misfit
        <4>5. QED
          BY <4>2, <4>3, <4>4
      <3>3. QED
        BY <3>1, <3>2
    <2>4. Min({Len(s), room}) <= Len(s) /\ Min({Len(s), room}) <= room /\ Min({Len(s), room}) \in Int
      <3> HIDE DEF room
      <3>1. room \in Int /\ Len(s) \in Int
        BY <2>2, <2>3 DEF room
      <3>2. {Len(s), room} = {room, Len(s)}
        OBVIOUS
      <3>3. QED
        BY <3>1, <3>2, MinOfTwo, Zenon
    <2>5. k \in 0 .. Len(s) /\ Len(b) + k <= Expected(b)
      BY <2>1, <2>2, <2>3, <2>4
    <2>6. Len(Gathered(b, s, k)) = Len(b) + k
      BY <2>2, <2>5, Split, Zenon
    <2> HIDE DEF b, s
    <2>7. Len(modbusBuffer') <= Expected(b)
      <3>1. CASE modbusBuffer' = <<>>
        BY <2>3, <3>1
      <3>2. CASE modbusBuffer' = Gathered(b, s, k)
        BY <2>5, <2>6, <3>2
      <3>3. QED
        BY <2>1, <3>1, <3>2
    <2>8. Len(modbusBuffer') \in Nat
      <3>1. CASE modbusBuffer' = <<>>
        BY <3>1
      <3>2. CASE modbusBuffer' = Gathered(b, s, k)
        BY <2>2, <2>5, <2>6, <3>2
      <3>3. QED
        BY <2>1, <3>1, <3>2
    <2>9. QED
      BY <2>3, <2>7, <2>8
  <1>3. QED
    BY <1>1, <1>2

LEMMA TypesStep == IInv /\ ModbusTypeOK /\ [ModbusNext]_modbusVars => ModbusTypeOK'
  <1> SUFFICES ASSUME IInv, ModbusTypeOK, [ModbusNext]_modbusVars PROVE ModbusTypeOK'
    OBVIOUS
  <1> USE DEF modbusPeer, serverVars
  <1>0. Len(<<>>) <= 260 /\ <<>> \in Seq(ModbusRequests)
    OBVIOUS
  <1>1. CASE StopServer
    BY <1>0, <1>1 DEF StopServer, DropClient, ModbusTypeOK
  <1>2. CASE AcceptClient
    BY <1>0, <1>2 DEF AcceptClient, ModbusTypeOK
  <1>3. CASE GoOn
    BY <1>3 DEF GoOn, ModbusTypeOK
  <1>4. CASE ReadStage
    <2>1. Len(modbusBuffer') <= 260
      BY <1>4, BufferKeeps
    <2>2. modbusTimer' \in {"run", "due"} /\ modbusPc' \in {"idle", "first", "second", "end"}
      BY <1>4, Zenon DEF ReadStage, ModbusTypeOK
    <2>3. /\ modbusAsked' \in Seq(ModbusRequests)
          /\ modbusClient' \in BOOLEAN /\ modbusClosed' \in BOOLEAN
      BY <1>0, <1>4, Zenon DEF ReadStage, DropClient, ModbusTypeOK
    <2>4. UNCHANGED <<modbusPeer, modbusRunning>>
      BY <1>4, Zenon DEF ReadStage
    <2>5. QED
      BY <2>1, <2>2, <2>3, <2>4 DEF ModbusTypeOK
  <1>5. CASE EndPass
    <2>1. CASE DropClient
      BY <1>0, <1>5, <2>1 DEF EndPass, DropClient, ModbusTypeOK
    <2>2. CASE ~DropClient
      <3>1. /\ UNCHANGED <<modbusClient, modbusClosed, modbusBuffer, modbusAsked, modbusAllowed,
                            modbusPending, modbusRunning, modbusTimer>>
            /\ modbusPc' = "idle"
        BY <1>5, <2>2, Zenon DEF EndPass
      <3>2. QED
        BY <3>1 DEF ModbusTypeOK
    <2>3. QED
      BY <2>1, <2>2
  <1>6. CASE ChangeAllowed
    BY <1>6 DEF ChangeAllowed, ModbusTypeOK
  <1>7. CASE Connect
    BY <1>7 DEF Connect, ModbusTypeOK
  <1>8. CASE Ask
    <2>1. modbusAsked' \in Seq(ModbusRequests)
      BY <1>8 DEF Ask, ModbusTypeOK
    <2>2. modbusClosed' \in BOOLEAN
      BY <1>8 DEF Ask
    <2>3. QED
      BY <1>8, <2>1, <2>2 DEF Ask, ModbusTypeOK
  <1>9. CASE Close
    BY <1>9 DEF Close, ModbusTypeOK
  <1>10. CASE TimerDue
    BY <1>10 DEF TimerDue, ModbusTypeOK
  <1>11. CASE UNCHANGED modbusVars
    BY <1>11 DEF modbusVars, ModbusTypeOK
  <1>12. QED
    BY <1>1, <1>2, <1>3, <1>4, <1>5, <1>6, <1>7, <1>8, <1>9, <1>10, <1>11 DEF ModbusNext

\* ModbusTypeOK for any requests: a request is gathered within the 260 bytes of
\* modbusRequest, whatever its header says.
THEOREM ModbusTypes == ModbusSpec => []ModbusTypeOK
  <1>1. ModbusInit => ModbusTypeOK
    <2>1. Len(<<>>) <= 260 /\ <<>> \in Seq(ModbusRequests)
      OBVIOUS
    <2>2. QED
      BY <2>1, Zenon DEF ModbusInit, ModbusTypeOK
  <1>2. QED
    BY <1>1, InitHolds, StepHolds, TypesStep, PTL DEF ModbusSpec
=============================================================================
