--------------------------- MODULE ProtocolProofs ---------------------------
(***************************************************************************)
(* Theorems of the chunk format, for every size of a byte and of a payload  *)
(* and for every datagram: encoding and decoding are inverse, the client's  *)
(* decoder and the server's agree, and a datagram that was cut or extended  *)
(* is told from a whole one.                                                *)
(***************************************************************************)
EXTENDS Protocol, SequenceTheorems, WellFoundedInduction, TLAPS

Datagrams == Seq(U8)

\* A header whose fields have the types of ChunkHeader in protocol.go.
HeaderRecords ==
  [sessionSeq : U16, frameId : U16, chunkIndex : U8, totalChunks : U8,
   payloadLen : U16, flags : U8, codec : U8]

-----------------------------------------------------------------------------
(* Bytes and numbers                                                        *)

LEMMA Sizes ==
  /\ Byte \in Nat /\ MaxPayload \in Nat /\ MaxCodec \in Nat /\ Magic \in Nat
  /\ 1 < Byte /\ 0 < MaxPayload /\ MaxCodec < Byte
  /\ Byte * Byte \in Nat /\ Magic < Byte * Byte /\ MaxPayload < Byte * Byte
  BY ProtocolAssumption

\* A number's bytes are bytes, and give the number back.
LEMMA Bytes16Number ==
  ASSUME NEW n \in U16
  PROVE  /\ n \div Byte \in U8 /\ n % Byte \in U8
         /\ (n \div Byte) * Byte + (n % Byte) = n
  BY Sizes DEF U16, U8

\* Two bytes make a number, and its bytes are they.
LEMMA NumberBytes16 ==
  ASSUME NEW x \in U8, NEW y \in U8
  PROVE  x * Byte + y \in U16 /\ Bytes16(x * Byte + y) = <<x, y>>
<1>1. /\ x * Byte + y \in 0 .. Byte * Byte - 1
      /\ (x * Byte + y) \div Byte = x /\ (x * Byte + y) % Byte = y
  BY Sizes DEF U8
<1>. QED  BY <1>1 DEF Bytes16, U16

\* The rest of a datagram after its header, and the beginning of a sequence.
LEMMA RestOfDatagram ==
  ASSUME NEW b \in Datagrams, Len(b) >= HeaderSize
  PROVE  LET payload == SubSeq(b, HeaderSize + 1, Len(b)) IN
         /\ payload \in Datagrams /\ Len(payload) \in Nat /\ Len(b) = 12 + Len(payload)
         /\ \A i \in 1 .. Len(payload) : payload[i] = b[12 + i]
<1>1. PICK n \in Nat : Len(b) = 12 + n
  <2>1. Len(b) \in Nat /\ Len(b) >= 12
    BY DEF HeaderSize, Datagrams
  <2>. QED  BY <2>1
<1>2. \A i \in 13 .. Len(b) : b[i] \in U8
  BY DEF Datagrams
<1>3. /\ SubSeq(b, 13, Len(b)) \in Datagrams /\ Len(SubSeq(b, 13, Len(b))) = n
      /\ \A i \in 1 .. n : SubSeq(b, 13, Len(b))[i] = b[12 + i]
  BY <1>1, <1>2, SubSeqProperties DEF Datagrams
<1>. QED  BY <1>1, <1>3 DEF HeaderSize

LEMMA BeginningOfSeq ==
  ASSUME NEW S, NEW s \in Seq(S), NEW n \in 0 .. Len(s)
  PROVE  LET beginning == SubSeq(s, 1, n) IN
         /\ beginning \in Seq(S) /\ Len(beginning) = n
         /\ \A i \in 1 .. n : beginning[i] = s[i]
  OBVIOUS

-----------------------------------------------------------------------------
(* The layout                                                               *)

\* Which byte of the layout holds what.
LEMMA LayoutBytes ==
  ASSUME NEW h \in HeaderRecords, NEW payload \in Datagrams
  PROVE  LET b == Layout(h, payload) IN
         /\ b \in Datagrams /\ Len(b) = HeaderSize + Len(payload)
         /\ At16(b, 1) = Magic
         /\ HeaderOf(b) = h
         /\ SubSeq(b, HeaderSize + 1, Len(b)) = payload
<1>. DEFINE b == Layout(h, payload)
            top == <<Magic \div Byte, Magic % Byte,
                     h.sessionSeq \div Byte, h.sessionSeq % Byte,
                     h.frameId \div Byte, h.frameId % Byte,
                     h.chunkIndex, h.totalChunks,
                     h.payloadLen \div Byte, h.payloadLen % Byte, h.flags, h.codec>>
<1>1. /\ h.sessionSeq \in U16 /\ h.frameId \in U16 /\ h.payloadLen \in U16
      /\ h.chunkIndex \in U8 /\ h.totalChunks \in U8 /\ h.flags \in U8 /\ h.codec \in U8
  BY DEF HeaderRecords
<1>2. Magic \in U16
  BY Sizes DEF U16
<1>3. top \in Datagrams /\ Len(top) = 12
  BY <1>1, <1>2, Bytes16Number DEF Datagrams
<1>4. b = top \o payload
  BY <1>1, <1>2, Bytes16Number DEF Layout, Bytes16, Datagrams
<1>5. /\ b \in Datagrams /\ Len(b) = 12 + Len(payload) /\ Len(payload) \in Nat
      /\ \A i \in 1 .. 12 : b[i] = top[i]
      /\ \A i \in 1 .. Len(payload) : b[12 + i] = payload[i]
  BY <1>3, <1>4, ConcatProperties DEF Datagrams
<1>. HIDE DEF b
<1>6. /\ b[1] = Magic \div Byte /\ b[2] = Magic % Byte
      /\ b[3] = h.sessionSeq \div Byte /\ b[4] = h.sessionSeq % Byte
      /\ b[5] = h.frameId \div Byte /\ b[6] = h.frameId % Byte
      /\ b[7] = h.chunkIndex /\ b[8] = h.totalChunks
      /\ b[9] = h.payloadLen \div Byte /\ b[10] = h.payloadLen % Byte
      /\ b[11] = h.flags /\ b[12] = h.codec
  BY <1>5
<1>7. /\ At16(b, 1) = Magic /\ At16(b, 3) = h.sessionSeq
      /\ At16(b, 5) = h.frameId /\ At16(b, 9) = h.payloadLen
  BY <1>1, <1>2, <1>6, Bytes16Number DEF At16
<1>8. HeaderOf(b) = h
  BY <1>6, <1>7 DEF HeaderOf, HeaderRecords
<1>9. SubSeq(b, 13, Len(b)) = payload
  <2>1. \A i \in 13 .. Len(b) : b[i] \in U8
    BY <1>5 DEF Datagrams
  <2>2. /\ SubSeq(b, 13, Len(b)) \in Datagrams
        /\ Len(SubSeq(b, 13, Len(b))) = Len(payload)
        /\ \A i \in 1 .. Len(payload) : SubSeq(b, 13, Len(b))[i] = b[12 + i]
    BY <1>5, <2>1, SubSeqProperties DEF Datagrams
  <2>. QED  BY <1>5, <2>2, SeqEqual DEF Datagrams
<1>. QED  BY <1>5, <1>7, <1>8, <1>9 DEF b, HeaderSize

\* What the server reads of a datagram has the types of its fields.
LEMMA HeaderOfType ==
  ASSUME NEW b \in Datagrams, Len(b) >= HeaderSize
  PROVE  HeaderOf(b) \in HeaderRecords
<1>1. \A i \in 1 .. 12 : b[i] \in U8
  BY DEF HeaderSize, Datagrams
<1>2. At16(b, 3) \in U16 /\ At16(b, 5) \in U16 /\ At16(b, 9) \in U16
  BY <1>1, NumberBytes16 DEF At16
<1>. QED  BY <1>1, <1>2 DEF HeaderOf, HeaderRecords

\* A datagram is the layout of what is read of it.
LEMMA LayoutOfRead ==
  ASSUME NEW b \in Datagrams, Len(b) >= HeaderSize, At16(b, 1) = Magic
  PROVE  Layout(HeaderOf(b), SubSeq(b, HeaderSize + 1, Len(b))) = b
<1>. DEFINE payload == SubSeq(b, 13, Len(b))
            h == HeaderOf(b)
            top == <<b[1], b[2], b[3], b[4], b[5], b[6], b[7], b[8], b[9], b[10], b[11], b[12]>>
<1>1. \A i \in 1 .. 12 : b[i] \in U8
  BY DEF HeaderSize, Datagrams
<1>2. Len(b) \in Nat /\ Len(b) >= 12
  BY DEF HeaderSize, Datagrams
<1>3. /\ payload \in Datagrams /\ Len(payload) \in Nat /\ Len(b) = 12 + Len(payload)
      /\ \A i \in 1 .. Len(payload) : payload[i] = b[12 + i]
  BY RestOfDatagram DEF HeaderSize
<1>. HIDE DEF payload
<1>4. top \in Datagrams /\ Len(top) = 12 /\ \A i \in 1 .. 12 : top[i] = b[i]
  BY <1>1 DEF Datagrams
<1>5. Layout(h, payload) = top \o payload
  <2>1. /\ Bytes16(Magic) = <<b[1], b[2]>> /\ Bytes16(At16(b, 3)) = <<b[3], b[4]>>
        /\ Bytes16(At16(b, 5)) = <<b[5], b[6]>> /\ Bytes16(At16(b, 9)) = <<b[9], b[10]>>
    BY <1>1, NumberBytes16 DEF At16
  <2>2. /\ h.sessionSeq = At16(b, 3) /\ h.frameId = At16(b, 5) /\ h.payloadLen = At16(b, 9)
        /\ h.chunkIndex = b[7] /\ h.totalChunks = b[8] /\ h.flags = b[11] /\ h.codec = b[12]
    BY DEF HeaderOf
  <2>3. Layout(h, payload) = <<b[1], b[2]>> \o <<b[3], b[4]>> \o <<b[5], b[6]>> \o <<b[7], b[8]>>
                               \o <<b[9], b[10]>> \o <<b[11], b[12]>> \o payload
    BY <2>1, <2>2 DEF Layout
  <2>. QED  BY <1>3, <2>3 DEF Datagrams
<1>. HIDE DEF top
<1>6. /\ top \o payload \in Datagrams /\ Len(top \o payload) = Len(top) + Len(payload)
      /\ \A i \in 1 .. Len(top) + Len(payload) :
           (top \o payload)[i] = IF i <= Len(top) THEN top[i] ELSE payload[i - Len(top)]
  BY <1>3, <1>4, ConcatProperties DEF Datagrams
<1>7. Len(top \o payload) = Len(b) /\ \A i \in 1 .. Len(b) : (top \o payload)[i] = b[i]
  <2>1. PICK n \in Nat : n = Len(payload) /\ Len(b) = 12 + n
    BY <1>3
  <2>2. ASSUME NEW i \in 1 .. 12 + n  PROVE (top \o payload)[i] = b[i]
    <3>1. CASE i <= 12
      BY <1>4, <1>6, <2>1, <3>1
    <3>2. CASE i > 12
      <4>1. i - 12 \in 1 .. n /\ 12 + (i - 12) = i /\ ~(i <= 12)
        BY <2>1, <3>2
      <4>. QED  BY <1>3, <1>4, <1>6, <2>1, <4>1
    <3>3. i <= 12 \/ i > 12
      BY <2>1
    <3>. QED  BY <3>1, <3>2, <3>3
  <2>. QED  BY <1>4, <1>6, <2>1, <2>2
<1>8. top \o payload = b
  BY <1>6, <1>7, SeqEqual DEF Datagrams
<1>. QED  BY <1>5, <1>8 DEF payload, HeaderSize

-----------------------------------------------------------------------------
(* The decoders                                                             *)

\* The client's validation asks no more of a header that was read from bytes
\* than the server's, whose field types give the ranges.
LEMMA ValidatorsAgree ==
  ASSUME NEW h \in HeaderRecords
  PROVE  ValidateHeader(h) <=> Validate(h)
  BY Sizes DEF ValidateHeader, Validate, HeaderRecords, U8, U16

\* The two decoders agree on every datagram, on the error too.
THEOREM DecodersAgreeOnDatagrams ==
  ASSUME NEW b \in Datagrams
  PROVE  DecodeChunk(b) = DecodeChunkTS(b)
<1>1. Len(b) < HeaderSize \/ Len(b) >= HeaderSize
  BY DEF HeaderSize, Datagrams
<1>2. Len(b) >= HeaderSize => (ValidateHeader(HeaderOf(b)) <=> Validate(HeaderOf(b)))
  BY HeaderOfType, ValidatorsAgree
<1>. QED  BY <1>1, <1>2 DEF DecodeChunk, DecodeChunkTS

\* Decoding is the inverse of encoding, for every header that is valid and every
\* payload of the length it announces.
THEOREM DecodeInvertsEncode ==
  ASSUME NEW h \in HeaderRecords, NEW payload \in Datagrams,
         h.payloadLen = Len(payload), Validate(h)
  PROVE  DecodeChunk(EncodeChunk(h, payload)) = [error |-> "", header |-> h, payload |-> payload]
<1>. DEFINE b == Layout(h, payload)
<1>1. EncodeChunk(h, payload) = b
  BY DEF EncodeChunk
<1>2. /\ Len(b) = HeaderSize + Len(payload) /\ At16(b, 1) = Magic
      /\ HeaderOf(b) = h /\ SubSeq(b, HeaderSize + 1, Len(b)) = payload
  BY LayoutBytes
<1>. HIDE DEF b
<1>3. At16(b, 9) = Len(payload)
  BY <1>2 DEF HeaderOf
<1>4. ~(Len(b) < HeaderSize)
  BY <1>2 DEF HeaderSize, Datagrams
<1>. QED  BY <1>1, <1>2, <1>3, <1>4 DEF DecodeChunk, Accepted

Decodes(b) == DecodeChunk(b).error = ""

\* What the server accepts passed every check.
LEMMA AcceptedChunk ==
  ASSUME NEW b \in Datagrams, Decodes(b)
  PROVE  /\ Len(b) >= HeaderSize /\ At16(b, 1) = Magic
         /\ Len(b) = HeaderSize + At16(b, 9) /\ Validate(HeaderOf(b))
         /\ DecodeChunk(b) = Accepted(b)
<1>1. \A name : Error(name).error = name
  BY DEF Error
<1>2. DecodeChunk(b).error \notin {"SHORT_HEADER", "BAD_MAGIC", "LENGTH_MISMATCH", "INVALID_HEADER"}
  BY DEF Decodes
<1>3. ~(Len(b) < HeaderSize)
  BY <1>1, <1>2 DEF DecodeChunk
<1>4. At16(b, 1) = Magic
  BY <1>1, <1>2, <1>3 DEF DecodeChunk
<1>5. Len(b) = HeaderSize + At16(b, 9)
  BY <1>1, <1>2, <1>3, <1>4 DEF DecodeChunk
<1>6. Validate(HeaderOf(b))
  BY <1>1, <1>2, <1>3, <1>4, <1>5 DEF DecodeChunk
<1>7. Len(b) >= HeaderSize
  BY <1>3 DEF HeaderSize, Datagrams
<1>. QED  BY <1>3, <1>4, <1>5, <1>6, <1>7 DEF DecodeChunk

\* Encoding is the inverse of decoding: no two datagrams decode to the same chunk.
THEOREM EncodeInvertsDecode ==
  ASSUME NEW b \in Datagrams, Decodes(b)
  PROVE  EncodeChunk(DecodeChunk(b).header, DecodeChunk(b).payload) = b
<1>1. /\ Len(b) >= HeaderSize /\ At16(b, 1) = Magic
      /\ Len(b) = HeaderSize + At16(b, 9) /\ Validate(HeaderOf(b))
      /\ DecodeChunk(b) = Accepted(b)
  BY AcceptedChunk
<1>2. HeaderOf(b).payloadLen = At16(b, 9) /\ At16(b, 9) \in Nat
  <2>1. HeaderOf(b).payloadLen = At16(b, 9)
    BY DEF HeaderOf
  <2>2. HeaderOf(b).payloadLen \in U16
    BY <1>1, HeaderOfType DEF HeaderRecords
  <2>. QED  BY <2>1, <2>2 DEF U16
<1>. DEFINE payload == SubSeq(b, HeaderSize + 1, Len(b))
<1>3. Len(payload) = At16(b, 9)
  BY <1>1, <1>2, RestOfDatagram DEF HeaderSize
<1>4. DecodeChunk(b).header = HeaderOf(b) /\ DecodeChunk(b).payload = payload
  <2>1. Accepted(b).header = HeaderOf(b) /\ Accepted(b).payload = payload
    BY DEF Accepted
  <2>. QED  BY <1>1, <2>1
<1>5. EncodeChunk(HeaderOf(b), payload) = Layout(HeaderOf(b), payload)
  BY <1>1, <1>2, <1>3 DEF EncodeChunk
<1>. QED  BY <1>1, <1>4, <1>5, LayoutOfRead

\* As long as its header says.
Sized(b) == b \in Datagrams /\ Len(b) >= HeaderSize /\ Len(b) = HeaderSize + At16(b, 9)

\* A datagram of the right length is not accepted after it was cut anywhere.
THEOREM CutIsRejected ==
  ASSUME NEW b, Sized(b), NEW n \in 0 .. Len(b) - 1
  PROVE  /\ SubSeq(b, 1, n) \in Datagrams
         /\ HandleDatagram(SubSeq(b, 1, n)) = "protocolError"
<1>. DEFINE c == SubSeq(b, 1, n)
<1>1. c \in Datagrams /\ Len(c) = n /\ \A i \in 1 .. n : c[i] = b[i]
  BY BeginningOfSeq DEF Sized, Datagrams
<1>. HIDE DEF c
<1>2. Len(c) >= HeaderSize => At16(c, 9) = At16(b, 9)
  BY <1>1 DEF At16, HeaderSize, Datagrams
<1>3. Len(c) < HeaderSize \/ Len(c) # HeaderSize + At16(c, 9)
  BY <1>1, <1>2 DEF Sized, HeaderSize, Datagrams
<1>4. DecodeChunk(c).error # ""
  BY <1>3 DEF DecodeChunk, Error
<1>. QED  BY <1>1, <1>4 DEF HandleDatagram, c

\* Nor after a byte was added to it.
THEOREM ExtendedIsRejected ==
  ASSUME NEW b, Sized(b), NEW v \in U8
  PROVE  Append(b, v) \in Datagrams /\ HandleDatagram(Append(b, v)) = "protocolError"
<1>. DEFINE c == Append(b, v)
<1>1. c \in Datagrams /\ Len(c) = Len(b) + 1 /\ \A i \in 1 .. Len(b) : c[i] = b[i]
  BY DEF Sized, Datagrams
<1>2. At16(c, 9) = At16(b, 9)
  BY <1>1 DEF At16, HeaderSize, Sized
<1>3. Len(c) # HeaderSize + At16(c, 9)
  BY <1>1, <1>2 DEF Sized, Datagrams
<1>. HIDE DEF c
<1>4. DecodeChunk(c).error # ""
  BY <1>3 DEF DecodeChunk, Error
<1>. QED  BY <1>1, <1>4 DEF HandleDatagram, c

-----------------------------------------------------------------------------
(* The chunker                                                              *)

LEMMA FrameFields ==
  ASSUME NEW f \in Frames
  PROVE  f.length \in Nat /\ f.maxPayload \in Nat /\ f.sessionSeq \in Nat /\ f.frameId \in Nat
         /\ f.flags \in Nat /\ f.codec \in Nat
  BY ProtocolAssumption DEF Frames

\* The frames that chunkFrame cuts.
Cuttable(f) == f.maxPayload \in 1 .. MaxPayload /\ f.length # 0

\* Rounding up: all chunks but the last are full, and the last is not empty.
LEMMA TotalRoundsUp ==
  ASSUME NEW length \in Nat \ {0}, NEW size \in Nat \ {0}
  PROVE  LET total == (length + size - 1) \div size IN
         /\ total \in Nat /\ total >= 1
         /\ (total - 1) * size < length /\ length <= total * size
<1>. DEFINE total == (length + size - 1) \div size
<1>1. PICK q, r : q = total /\ r = (length + size - 1) % size
  OBVIOUS
<1>2. q \in Nat /\ r \in 0 .. size - 1 /\ q * size + r = length + size - 1
  BY <1>1
<1>3. length <= q * size /\ (q - 1) * size < length
  BY <1>2
<1>4. q >= 1
  BY <1>2, <1>3
<1>. QED  BY <1>1, <1>2, <1>3, <1>4

LEMMA FrameTotal ==
  ASSUME NEW f \in Frames, Cuttable(f)
  PROVE  /\ f.maxPayload \in Nat \ {0} /\ f.length \in Nat \ {0}
         /\ TotalChunks(f) \in Nat /\ TotalChunks(f) >= 1
         /\ (TotalChunks(f) - 1) * f.maxPayload < f.length
         /\ f.length <= TotalChunks(f) * f.maxPayload
<1>1. f.maxPayload \in Nat \ {0} /\ f.length \in Nat \ {0}
  BY FrameFields DEF Cuttable
<1>. QED  BY <1>1, TotalRoundsUp DEF TotalChunks

LEMMA MinOfTwo ==
  ASSUME NEW a \in Int, NEW b \in Int
  PROVE  Min({a, b}) = IF a <= b THEN a ELSE b
  BY DEF Min

LEMMA DataType ==
  ASSUME NEW f \in Frames
  PROVE  /\ Data(f) \in Datagrams /\ Len(Data(f)) = f.length
         /\ \A k \in 1 .. f.length : Data(f)[k] = (k * k) % Byte
<1>1. f.length \in Nat
  BY FrameFields
<1>2. ASSUME NEW k \in 1 .. f.length  PROVE (k * k) % Byte \in U8
  BY <1>1, Sizes DEF U8
<1>. QED  BY <1>1, <1>2 DEF Data, Datagrams

\* Chunk i carries the bytes of the frame from i * maxPayload on: a full payload,
\* or what is left.
LEMMA PayloadBytes ==
  ASSUME NEW f \in Frames, Cuttable(f), NEW i \in 0 .. TotalChunks(f) - 1
  PROVE  /\ Payload(f, i) \in Datagrams
         /\ i * f.maxPayload \in Nat
         /\ Len(Payload(f, i)) = IF i = TotalChunks(f) - 1 THEN f.length - i * f.maxPayload
                                                           ELSE f.maxPayload
         /\ Len(Payload(f, i)) \in 1 .. f.maxPayload
         /\ \A j \in 1 .. Len(Payload(f, i)) :
              /\ i * f.maxPayload + j \in 1 .. f.length
              /\ Payload(f, i)[j] = Data(f)[i * f.maxPayload + j]
<1>. DEFINE size == f.maxPayload
            total == TotalChunks(f)
            from == i * size
            to == Min({(i + 1) * size, f.length})
<1>1. /\ size \in Nat \ {0} /\ f.length \in Nat \ {0} /\ total \in Nat /\ total >= 1
      /\ (total - 1) * size < f.length /\ f.length <= total * size
  BY FrameTotal
<1>. HIDE DEF total, size
<1>2. i \in Nat /\ i <= total - 1
  BY <1>1 DEF total
<1>3. from \in Nat /\ (i + 1) * size = from + size
  BY <1>1, <1>2
<1>4. i < total - 1 => (i + 1) * size <= (total - 1) * size
  BY <1>1, <1>2
<1>5. i = total - 1 => f.length <= (i + 1) * size /\ from < f.length
  BY <1>1, <1>2
<1>. HIDE DEF from
<1>6. to = IF i = total - 1 THEN f.length ELSE from + size
  BY <1>1, <1>2, <1>3, <1>4, <1>5, MinOfTwo
<1>7. to \in Nat /\ from < to /\ to <= f.length /\ to - from <= size
  BY <1>1, <1>2, <1>3, <1>4, <1>5, <1>6
<1>. HIDE DEF to
<1>8. /\ SubSeq(Data(f), from + 1, to) \in Datagrams
      /\ Len(SubSeq(Data(f), from + 1, to)) = to - from
      /\ \A j \in 1 .. to - from : SubSeq(Data(f), from + 1, to)[j] = Data(f)[from + j]
  <2>1. \A k \in from + 1 .. to : Data(f)[k] \in U8
    BY <1>1, <1>3, <1>7, DataType DEF Datagrams
  <2>2. from + 1 \in Int /\ to \in Int /\ from + 1 <= to /\ to - (from + 1) + 1 = to - from
        /\ \A j \in 1 .. to - from : from + 1 + j - 1 = from + j
    BY <1>3, <1>7
  <2>. QED  BY <2>1, <2>2, SubSeqProperties DEF Datagrams
<1>9. Payload(f, i) = SubSeq(Data(f), from + 1, to)
  BY DEF Payload, from, to, size
<1>10. PICK n \in Nat : n = to - from
  BY <1>3, <1>7
<1>11. /\ n = IF i = total - 1 THEN f.length - from ELSE size
       /\ n \in 1 .. size
       /\ \A j \in 1 .. n : from + j \in 1 .. f.length
  BY <1>1, <1>3, <1>6, <1>7, <1>10
<1>12. /\ Payload(f, i) \in Datagrams /\ Len(Payload(f, i)) = n
       /\ \A j \in 1 .. n : Payload(f, i)[j] = Data(f)[from + j]
  BY <1>8, <1>9, <1>10
<1>. QED  BY <1>3, <1>11, <1>12, Zenon DEF from, size, total

\* The least-number principle, for a set of numbers.
LEMMA LeastNumber ==
  ASSUME NEW S \in SUBSET Nat, S # {}
  PROVE  \E m \in S : \A x \in S : m <= x
<1>. DEFINE Less == {p \in Nat \X Nat : p[1] < p[2]}
<1>1. IsWellFoundedOn(Less, Nat)
  BY NatLessThanWellFounded DEF OpToRel
<1>2. PICK m \in S : \A x \in S : <<x, m>> \notin Less
  <2>. HIDE DEF Less
  <2>. QED  BY <1>1, WFMin
<1>3. ASSUME NEW x \in S, x < m  PROVE <<x, m>> \in Less
  <2>1. <<x, m>> \in Nat \X Nat /\ <<x, m>>[1] = x /\ <<x, m>>[2] = m
    OBVIOUS
  <2>2. <<x, m>>[1] < <<x, m>>[2]
    BY <1>3, <2>1
  <2>. QED  BY <2>1, <2>2
<1>. HIDE DEF Less
<1>4. ASSUME NEW x \in S  PROVE m <= x
  <2>1. x \in Nat /\ m \in Nat
    OBVIOUS
  <2>2. ~(x < m)
    BY <1>2, <1>3
  <2>. QED  BY <2>1, <2>2
<1>. QED  BY <1>4

\* The equation of FlattenSeq's recursion.
Flattens(g, s) == g = [i \in 1 .. Len(s) |-> IF i = 1 THEN s[i] ELSE g[i - 1] \o s[i]]

\* It has one solution, so that any solution tells what FlattenSeq returns.
LEMMA FlattenedByEquation ==
  ASSUME NEW s, Len(s) \in Nat \ {0}, NEW g, Flattens(g, s)
  PROVE  FlattenSeq(s) = g[Len(s)]
<1>. DEFINE n == Len(s)
            h == CHOOSE h : Flattens(h, s)
            Wrong == {i \in 1 .. n : h[i] # g[i]}
<1>1. Flattens(h, s)
  OBVIOUS
<1>2. FlattenSeq(s) = h[n]
  BY DEF FlattenSeq, Flattens
<1>. HIDE DEF h
<1>3. \A i \in 1 .. n : /\ h[i] = IF i = 1 THEN s[i] ELSE h[i - 1] \o s[i]
                        /\ g[i] = IF i = 1 THEN s[i] ELSE g[i - 1] \o s[i]
  BY <1>1 DEF Flattens
<1>4. ASSUME Wrong # {}  PROVE FALSE
  <2>1. PICK i \in Wrong : \A j \in Wrong : i <= j
    <3>1. Wrong \in SUBSET Nat
      OBVIOUS
    <3>. HIDE DEF Wrong
    <3>. QED  BY <1>4, <3>1, LeastNumber
  <2>2. CASE i = 1
    BY <1>3, <2>1, <2>2
  <2>3. CASE i # 1
    <3>1. i - 1 \in 1 .. n /\ i - 1 \notin Wrong
      BY <2>1, <2>3
    <3>. QED  BY <1>3, <2>1, <2>3, <3>1
  <2>. QED  BY <2>2, <2>3
<1>. QED  BY <1>2, <1>4

\* Chunks begin after one another.
LEMMA Products ==
  ASSUME NEW i \in Nat, NEW k \in Nat, i <= k, NEW size \in Nat \ {0}
  PROVE  i * size \in Nat /\ k * size \in Nat /\ i * size <= k * size /\ (i >= 1 => i * size >= 1)
  OBVIOUS

\* The payloads of a frame, one after another, are the frame.
LEMMA PayloadsFlatten ==
  ASSUME NEW f \in Frames, Cuttable(f), NEW n \in Nat \ {0}, n = TotalChunks(f)
  PROVE  FlattenSeq([i \in 1 .. n |-> Payload(f, i - 1)]) = Data(f)
<1>. DEFINE size == f.maxPayload
            length == f.length
            s == [i \in 1 .. n |-> Payload(f, i - 1)]
            end(i) == Min({i * size, length})
            g == [i \in 1 .. n |-> SubSeq(Data(f), 1, end(i))]
<1>1. /\ size \in Nat \ {0} /\ length \in Nat \ {0}
      /\ (n - 1) * size < length /\ length <= n * size
  BY FrameTotal
<1>2. Len(s) = n
  <2>1. s \in [1 .. n -> Datagrams]
    <3>1. \A i \in 1 .. n : i - 1 \in 0 .. n - 1
      BY <1>1
    <3>. QED  BY <3>1, PayloadBytes
  <2>. HIDE DEF s
  <2>2. s \in Seq(Datagrams) /\ DOMAIN s = 1 .. n
    BY <2>1
  <2>. QED  BY <2>2
<1>3. \A i \in 1 .. n : s[i] = SubSeq(Data(f), (i - 1) * size + 1, end(i))
  <2>. TAKE i \in 1 .. n
  <2>1. (i - 1) + 1 = i
    OBVIOUS
  <2>. QED  BY <2>1 DEF Payload
<1>. HIDE DEF s, size, length
<1>4. ASSUME NEW i \in 1 .. n  PROVE end(i) \in 1 .. length /\ (i < n => end(i) = i * size)
  <2>1. i * size \in Nat /\ i * size >= 1
    <3>1. i \in Nat /\ i <= i /\ i >= 1
      OBVIOUS
    <3>. QED  BY <1>1, <3>1, Products
  <2>2. i < n => i * size <= (n - 1) * size
    <3>1. i \in Nat /\ n - 1 \in Nat /\ (i < n => i <= n - 1)
      OBVIOUS
    <3>. QED  BY <1>1, <3>1, Products
  <2>3. end(i) = IF i * size <= length THEN i * size ELSE length
    BY <1>1, <2>1 DEF Min
  <2>. QED  BY <1>1, <2>1, <2>2, <2>3
<1>5. end(n) = length
  BY <1>1 DEF Min
<1>. HIDE DEF end
<1>6. Flattens(g, s)
  <2>1. ASSUME NEW i \in 1 .. n  PROVE g[i] = IF i = 1 THEN s[i] ELSE g[i - 1] \o s[i]
    <3>1. CASE i = 1
      <4>1. (1 - 1) * size + 1 = 1
        BY <1>1
      <4>. QED  BY <1>3, <3>1, <4>1
    <3>2. CASE i # 1
      <4>1. i - 1 \in 1 .. n /\ i - 1 < n
        BY <3>2
      <4>2. end(i - 1) = (i - 1) * size /\ end(i - 1) \in 1 .. length
        BY <1>4, <4>1
      <4>3. end(i - 1) <= end(i) /\ end(i) \in 1 .. length
        <5>1. (i - 1) * size <= i * size /\ i * size \in Nat
          BY <1>1, <4>1, Products
        <5>2. end(i) = i * size \/ end(i) = length
          BY <1>4, <1>5
        <5>3. end(i) \in 1 .. length
          BY <1>4
        <5>4. PICK a, b : a = end(i - 1) /\ b = end(i)
          OBVIOUS
        <5>5. a <= b
          BY <4>2, <5>1, <5>2, <5>4
        <5>. QED  BY <5>3, <5>4, <5>5
      <4>4. SubSeq(Data(f), 1, end(i - 1)) \o SubSeq(Data(f), end(i - 1) + 1, end(i)) = SubSeq(Data(f), 1, end(i))
        <5>1. PICK m, k : m = end(i - 1) /\ k = end(i)
          OBVIOUS
        <5>2. Data(f) \in Seq(U8) /\ Len(Data(f)) = length
          BY DataType DEF Datagrams, length
        <5>3. 1 \in 1 .. length + 1 /\ m \in 1 - 1 .. length /\ k \in m .. length
          BY <1>1, <4>2, <4>3, <5>1
        <5>4. SubSeq(Data(f), 1, m) \o SubSeq(Data(f), m + 1, k) = SubSeq(Data(f), 1, k)
          BY <5>2, <5>3, ConcatAdjacentSubSeq
        <5>. QED  BY <5>1, <5>4
      <4>. QED  BY <1>3, <3>2, <4>1, <4>2, <4>4
    <3>. QED  BY <3>1, <3>2
  <2>2. DOMAIN g = 1 .. Len(s) /\ g = [i \in DOMAIN g |-> g[i]]
    BY <1>2
  <2>. HIDE DEF g
  <2>. QED  BY <1>2, <2>1, <2>2 DEF Flattens
<1>7. FlattenSeq(s) = g[n]
  <2>. HIDE DEF g
  <2>. QED  BY <1>2, <1>6, FlattenedByEquation
<1>8. g[n] = SubSeq(Data(f), 1, length)
  <2>1. n \in 1 .. n
    OBVIOUS
  <2>. QED  BY <1>5, <2>1
<1>9. SubSeq(Data(f), 1, length) = Data(f)
  BY DataType, SubSeqFull DEF Datagrams, length
<1>. QED  BY <1>7, <1>8, <1>9 DEF s

\* The header chunkFrame makes for chunk i, when validateHeader lets it pass.
LEMMA ChunkHeaderType ==
  ASSUME NEW f \in Frames, Cuttable(f), NEW i \in 0 .. TotalChunks(f) - 1,
         ValidateHeader(ChunkHeader(f, i))
  PROVE  /\ ChunkHeader(f, i) \in HeaderRecords
         /\ Validate(ChunkHeader(f, i))
         /\ ChunkHeader(f, i).payloadLen = Len(Payload(f, i))
<1>1. ChunkHeader(f, i).payloadLen = Len(Payload(f, i))
  BY DEF ChunkHeader
<1>2. ChunkHeader(f, i) \in HeaderRecords
  BY Sizes DEF ValidateHeader, ChunkHeader, HeaderRecords, U8
<1>. QED  BY <1>1, <1>2, ValidatorsAgree

\* What chunkFrame asks of its arguments.
Fits255(f) ==
  /\ f.maxPayload \in 1 .. MaxPayload
  /\ f.length \in 1 .. MaxChunks * f.maxPayload
  /\ f.sessionSeq \in U16 /\ f.frameId \in U16 /\ f.flags \in U8 /\ f.codec <= MaxCodec

LEMMA TotalFits ==
  ASSUME NEW f \in Frames, Cuttable(f)
  PROVE  TotalChunks(f) <= MaxChunks <=> f.length <= MaxChunks * f.maxPayload
<1>. DEFINE size == f.maxPayload
            total == TotalChunks(f)
<1>1. /\ size \in Nat \ {0} /\ f.length \in Nat \ {0} /\ total \in Nat /\ total >= 1
      /\ (total - 1) * size < f.length /\ f.length <= total * size
  BY FrameTotal
<1>. HIDE DEF total, size
<1>2. MaxChunks \in Nat
  BY Sizes DEF MaxChunks
<1>3. ASSUME total <= MaxChunks  PROVE f.length <= MaxChunks * size
  <2>1. total * size <= MaxChunks * size
    BY <1>1, <1>2, <1>3
  <2>. QED  BY <1>1, <1>2, <2>1
<1>4. ASSUME f.length <= MaxChunks * size  PROVE total <= MaxChunks
  <2>1. (total - 1) * size < MaxChunks * size
    BY <1>1, <1>2, <1>4
  <2>. QED  BY <1>1, <1>2, <2>1
<1>. QED  BY <1>3, <1>4 DEF total, size

\* validateHeader lets every chunk of a frame pass, or none: chunkFrame cuts
\* exactly the frames whose fields fit theirs and whose data fits 255 chunks.
THEOREM CutsWhatFits ==
  ASSUME NEW f \in Frames
  PROVE  ChunkFrame(f) # <<>> <=> Fits255(f)
<1>1. /\ MaxChunks \in Nat /\ MaxChunks = Byte - 1 /\ Byte \in Nat /\ Byte * Byte \in Nat
      /\ MaxPayload \in Nat /\ MaxPayload < Byte * Byte
  BY Sizes DEF MaxChunks
<1>2. CASE ~Cuttable(f)
  BY <1>2, FrameFields DEF ChunkFrame, Cuttable, Fits255
<1>3. CASE Cuttable(f) /\ TotalChunks(f) > MaxChunks
  BY <1>1, <1>3, TotalFits, FrameTotal DEF ChunkFrame, Fits255
<1>4. CASE Cuttable(f) /\ TotalChunks(f) <= MaxChunks
  <2>. DEFINE total == TotalChunks(f)
              Good(i) == ValidateHeader(ChunkHeader(f, i))
  <2>1. total \in Nat /\ total >= 1 /\ f.length \in 1 .. MaxChunks * f.maxPayload
    <3>1. f.length <= MaxChunks * f.maxPayload
      BY <1>4, TotalFits
    <3>. QED  BY <1>1, <1>4, <3>1, FrameTotal
  <2>2. ASSUME NEW i \in 0 .. total - 1
        PROVE  Good(i) <=> Fits255(f)
    <3>. DEFINE h == ChunkHeader(f, i)
    <3>1. Len(Payload(f, i)) \in 1 .. MaxPayload
      <4>1. Len(Payload(f, i)) \in 1 .. f.maxPayload /\ f.maxPayload \in 1 .. MaxPayload
        BY <1>4, PayloadBytes DEF Cuttable
      <4>. QED  BY <1>1, <4>1, Sizes
    <3>2. /\ h.sessionSeq = f.sessionSeq /\ h.frameId = f.frameId /\ h.chunkIndex = i
          /\ h.totalChunks = total /\ h.payloadLen = Len(Payload(f, i))
          /\ h.flags = f.flags /\ h.codec = f.codec
      BY DEF ChunkHeader
    <3>. HIDE DEF h, total
    <3>3. /\ h.payloadLen \in U16 /\ h.payloadLen <= MaxPayload
          /\ h.chunkIndex \in U8 /\ h.totalChunks \in U8
          /\ h.totalChunks >= 1 /\ h.chunkIndex < h.totalChunks
      <4>1. i \in Nat /\ i < total /\ total <= Byte - 1
        BY <1>1, <1>4, <2>1 DEF total
      <4>. QED  BY <1>1, <2>1, <3>1, <3>2, <4>1 DEF U8, U16
    <3>4. ValidateHeader(h) <=> /\ f.sessionSeq \in U16 /\ f.frameId \in U16 /\ f.flags \in U8
                                /\ f.codec <= MaxCodec
      BY <3>2, <3>3, FrameFields, Sizes DEF ValidateHeader
    <3>. QED  BY <1>4, <2>1, <3>4 DEF Fits255, Cuttable, h
  <2>3. ChunkFrame(f) # <<>> <=> \A i \in 0 .. total - 1 : Good(i)
    <3>. DEFINE cut == [i \in 1 .. total |-> Layout(ChunkHeader(f, i - 1), Payload(f, i - 1))]
    <3>1. cut # <<>>
      BY <2>1
    <3>2. ChunkFrame(f) = IF \E i \in 0 .. total - 1 : ~Good(i) THEN <<>> ELSE cut
      BY <1>1, <1>4, <2>1 DEF ChunkFrame, Cuttable
    <3>. QED  BY <3>1, <3>2
  <2>. QED  BY <2>1, <2>2, <2>3
<1>5. TotalChunks(f) > MaxChunks \/ TotalChunks(f) <= MaxChunks \/ ~Cuttable(f)
  BY <1>1, FrameTotal
<1>. QED  BY <1>2, <1>3, <1>4, <1>5

\* What the server makes of the chunks of a frame.
CutRight(f, chs) ==
  /\ DOMAIN chs = 1 .. TotalChunks(f)
  /\ \A i \in 1 .. TotalChunks(f) :
       /\ Sized(chs[i])
       /\ DecodeChunk(chs[i]) =
            [error |-> "", header |-> ChunkHeader(f, i - 1), payload |-> Payload(f, i - 1)]
       /\ HandleDatagram(chs[i]) = IF f.sessionSeq = OwnSeq THEN "ingested" ELSE "wrongSession"

\* Each chunk that chunkFrame cuts decodes on the server to its own header and its
\* own slice of the frame.
THEOREM ChunksDecode ==
  ASSUME NEW f \in Frames, ChunkFrame(f) # <<>>
  PROVE  Cuttable(f) /\ CutRight(f, ChunkFrame(f))
<1>. DEFINE total == TotalChunks(f)
            chs == ChunkFrame(f)
<1>1. Cuttable(f) /\ \A i \in 0 .. total - 1 : ValidateHeader(ChunkHeader(f, i))
  BY DEF ChunkFrame, Cuttable
<1>2. chs = [i \in 1 .. total |-> Layout(ChunkHeader(f, i - 1), Payload(f, i - 1))]
  BY DEF ChunkFrame
<1>3. total \in Nat
  BY <1>1, FrameTotal
<1>. HIDE DEF total, chs
<1>4. ASSUME NEW i \in 1 .. total
      PROVE  /\ Sized(chs[i])
             /\ DecodeChunk(chs[i]) =
                  [error |-> "", header |-> ChunkHeader(f, i - 1), payload |-> Payload(f, i - 1)]
             /\ HandleDatagram(chs[i]) = IF f.sessionSeq = OwnSeq THEN "ingested" ELSE "wrongSession"
  <2>. DEFINE h == ChunkHeader(f, i - 1)
              payload == Payload(f, i - 1)
  <2>1. i - 1 \in 0 .. total - 1 /\ chs[i] = Layout(h, payload)
    BY <1>2, <1>3
  <2>2. h \in HeaderRecords /\ Validate(h) /\ h.payloadLen = Len(payload)
    BY <1>1, <2>1, ChunkHeaderType DEF total
  <2>3. payload \in Datagrams
    BY <1>1, <2>1, PayloadBytes DEF total
  <2>4. h.sessionSeq = f.sessionSeq
    BY DEF ChunkHeader
  <2>. HIDE DEF h, payload
  <2>5. DecodeChunk(chs[i]) = [error |-> "", header |-> h, payload |-> payload]
    BY <2>1, <2>2, <2>3, DecodeInvertsEncode DEF EncodeChunk
  <2>6. Sized(chs[i]) /\ HeaderOf(chs[i]) = h
    <3>1. /\ chs[i] \in Datagrams /\ Len(chs[i]) = HeaderSize + Len(payload)
          /\ HeaderOf(chs[i]) = h
      BY <2>1, <2>2, <2>3, LayoutBytes
    <3>2. At16(chs[i], 9) = Len(payload)
      BY <2>2, <3>1 DEF HeaderOf
    <3>3. Len(payload) \in Nat
      BY <2>3 DEF Datagrams
    <3>. QED  BY <3>1, <3>2, <3>3 DEF Sized, HeaderSize
  <2>7. HandleDatagram(chs[i]) = IF f.sessionSeq = OwnSeq THEN "ingested" ELSE "wrongSession"
    <3>. DEFINE d == DecodeChunk(chs[i])
    <3>1. d.error = ""
      <4>. HIDE DEF d
      <4>1. d = [error |-> "", header |-> h, payload |-> payload]
        BY <2>5 DEF d
      <4>. QED  BY <4>1
    <3>. QED  BY <2>4, <2>6, <3>1, Zenon DEF HandleDatagram
  <2>. QED  BY <2>5, <2>6, <2>7 DEF h, payload
<1>5. DOMAIN chs = 1 .. total
  BY <1>2
<1>. QED  BY <1>1, <1>4, <1>5 DEF CutRight, total, chs

-----------------------------------------------------------------------------
(* A frame's way                                                            *)

\* The datagram under way is as long as its header says until it is damaged, and
\* one that was cut or extended is not accepted.
WireInv ==
  /\ frame \in Frames
  /\ stage # "sent" => damage = "none"
  /\ stage = "cut" => chunks = ChunkFrame(frame)
  /\ \A i \in DOMAIN chunks : Sized(chunks[i])
  /\ stage = "sent" => wire \in Datagrams /\ (damage = "none" => Sized(wire))
  /\ damage = "resized" => HandleDatagram(wire) = "protocolError"

LEMMA WireInit == Init => WireInv
<1>. SUFFICES ASSUME Init  PROVE WireInv
  OBVIOUS
<1>1. DOMAIN chunks = {}
  BY DEF Init
<1>. QED  BY <1>1 DEF Init, WireInv

LEMMA WireNext == WireInv /\ [Next]_vars => WireInv'
<1>. SUFFICES ASSUME WireInv, [Next]_vars  PROVE WireInv'
  OBVIOUS
<1>1. CASE Cut
  <2>1. chunks' = ChunkFrame(frame) /\ frame' = frame /\ stage' = "cut" /\ damage' = "none"
    BY <1>1 DEF Cut, WireInv
  <2>2. \A i \in DOMAIN ChunkFrame(frame) : Sized(ChunkFrame(frame)[i])
    <3>1. CASE ChunkFrame(frame) = <<>>
      BY <3>1
    <3>2. CASE ChunkFrame(frame) # <<>>
      BY <3>2, ChunksDecode DEF WireInv, CutRight
    <3>. QED  BY <3>1, <3>2
  <2>. QED  BY <2>1, <2>2 DEF WireInv
<1>2. CASE Send
  <2>1. PICK i \in DOMAIN chunks : wire' = chunks[i]
    BY <1>2 DEF Send
  <2>2. Sized(wire') /\ wire' \in Datagrams
    BY <2>1 DEF WireInv, Sized
  <2>3. chunks' = <<>> /\ stage' = "sent" /\ damage' = "none" /\ frame' = frame
    BY <1>2 DEF Send, WireInv
  <2>4. DOMAIN chunks' = {}
    BY <2>3
  <2>. QED  BY <2>2, <2>3, <2>4 DEF WireInv
<1>3. CASE Changed
  <2>1. PICK i \in DOMAIN wire, v \in U8 : wire' = [wire EXCEPT ![i] = v]
    BY <1>3 DEF Changed
  <2>2. wire' \in Datagrams
    BY <1>3, <2>1 DEF Changed, WireInv, Datagrams
  <2>. QED  BY <1>3, <2>2 DEF Changed, WireInv
<1>4. CASE Resized
  <2>1. Sized(wire)
    BY <1>4 DEF Resized, WireInv
  <2>2. wire' \in Datagrams /\ HandleDatagram(wire') = "protocolError"
    <3>1. ASSUME NEW n \in 0 .. Len(wire) - 1, wire' = SubSeq(wire, 1, n)
          PROVE  wire' \in Datagrams /\ HandleDatagram(wire') = "protocolError"
      BY <2>1, <3>1, CutIsRejected
    <3>2. ASSUME NEW v \in U8, wire' = Append(wire, v)
          PROVE  wire' \in Datagrams /\ HandleDatagram(wire') = "protocolError"
      BY <2>1, <3>2, ExtendedIsRejected
    <3>. QED  BY <1>4, <3>1, <3>2 DEF Resized
  <2>. QED  BY <1>4, <2>2 DEF Resized, WireInv
<1>5. CASE UNCHANGED vars
  BY <1>5 DEF vars, WireInv
<1>. QED  BY <1>1, <1>2, <1>3, <1>4, <1>5 DEF Next

LEMMA WireInvariant == Spec => []WireInv
  BY WireInit, WireNext, PTL DEF Spec

\* The decoders of the two sides agree on whatever arrives.
THEOREM DecodersAlwaysAgree == Spec => []DecodersAgree
<1>1. WireInv => DecodersAgree
  BY DecodersAgreeOnDatagrams DEF WireInv, DecodersAgree
<1>. QED  BY <1>1, WireInvariant, PTL

\* What arrives and decodes is the encoding of what it decodes to.
THEOREM DecodedStaysCanonical == Spec => []DecodedIsCanonical
<1>1. WireInv => DecodedIsCanonical
  BY EncodeInvertsDecode DEF WireInv, DecodedIsCanonical, Decodes
<1>. QED  BY <1>1, WireInvariant, PTL

\* A datagram cut or extended on its way is never ingested.
THEOREM ResizedNeverIngested == Spec => []ResizedIsRejected
<1>1. WireInv => ResizedIsRejected
  BY DEF WireInv, ResizedIsRejected
<1>. QED  BY <1>1, WireInvariant, PTL

\* What the server decodes of the chunks of a frame, one after another, is the
\* frame, for every length and payload size that fits; the others are not cut.
THEOREM ChunksAreTheFrame == Spec => []ChunksRebuildFrame
<1>1. WireInv => ChunksRebuildFrame
  <2>. SUFFICES ASSUME WireInv, stage = "cut"
                PROVE  ChunksRebuildFrame
    BY DEF ChunksRebuildFrame
  <2>. DEFINE got == [i \in DOMAIN chunks |-> DecodeChunk(chunks[i])]
              total == TotalChunks(frame)
  <2>1. chunks = ChunkFrame(frame) /\ frame \in Frames
    BY DEF WireInv
  <2>2. chunks # <<>> <=> Fits255(frame)
    BY <2>1, CutsWhatFits
  <2>3. CASE chunks = <<>>
    <3>1. DOMAIN got = {}
      BY <2>3
    <3>. HIDE DEF got
    <3>. QED  BY <2>2, <2>3, <3>1 DEF ChunksRebuildFrame, Fits255, got
  <2>4. CASE chunks # <<>>
    <3>1. Cuttable(frame) /\ CutRight(frame, chunks)
      BY <2>1, <2>4, ChunksDecode
    <3>2. total \in Nat /\ DOMAIN chunks = 1 .. total /\ Len(chunks) = total
      <4>1. total \in Nat /\ DOMAIN chunks = 1 .. total
        BY <2>1, <3>1, FrameTotal DEF CutRight
      <4>2. chunks = [i \in 1 .. total |-> Layout(ChunkHeader(frame, i - 1), Payload(frame, i - 1))]
        BY <2>1, <2>4 DEF ChunkFrame
      <4>. HIDE DEF total
      <4>. QED  BY <4>1, <4>2
    <3>. HIDE DEF total
    <3>3. ASSUME NEW i \in 1 .. total
          PROVE  /\ got[i].error = "" /\ got[i].payload = Payload(frame, i - 1)
                 /\ got[i].header = ChunkHeader(frame, i - 1)
                 /\ Len(got[i].payload) \in 1 .. frame.maxPayload
                 /\ got[i].header.totalChunks = total
                 /\ HandleDatagram(chunks[i]) =
                      IF frame.sessionSeq = OwnSeq THEN "ingested" ELSE "wrongSession"
      <4>1. got[i] = [error |-> "", header |-> ChunkHeader(frame, i - 1), payload |-> Payload(frame, i - 1)]
        BY <3>1, <3>2 DEF CutRight, total
      <4>2. HandleDatagram(chunks[i]) = IF frame.sessionSeq = OwnSeq THEN "ingested" ELSE "wrongSession"
        BY <3>1, Zenon DEF CutRight, total
      <4>3. i - 1 \in 0 .. total - 1
        BY <3>2
      <4>4. Len(Payload(frame, i - 1)) \in 1 .. frame.maxPayload
        BY <2>1, <3>1, <4>3, PayloadBytes DEF total
      <4>5. ChunkHeader(frame, i - 1).totalChunks = total
        BY DEF ChunkHeader, total
      <4>. HIDE DEF got
      <4>6. /\ got[i].error = "" /\ got[i].payload = Payload(frame, i - 1)
            /\ got[i].header = ChunkHeader(frame, i - 1)
        <5>1. PICK d, h, payload : d = got[i] /\ h = ChunkHeader(frame, i - 1) /\ payload = Payload(frame, i - 1)
          OBVIOUS
        <5>2. d = [error |-> "", header |-> h, payload |-> payload]
          BY <4>1, <5>1
        <5>3. d.error = "" /\ d.header = h /\ d.payload = payload
          BY <5>2
        <5>. QED  BY <5>1, <5>3
      <4>. QED  BY <4>2, <4>4, <4>5, <4>6
    <3>4. FlattenSeq([i \in DOMAIN got |-> got[i].payload]) = Data(frame)
      <4>1. [i \in DOMAIN got |-> got[i].payload] = [i \in 1 .. total |-> Payload(frame, i - 1)]
        BY <3>2, <3>3
      <4>2. total \in Nat \ {0}
        BY <2>1, <3>1, FrameTotal DEF total
      <4>. QED  BY <2>1, <3>1, <4>1, <4>2, PayloadsFlatten DEF total
    <3>. QED  BY <2>2, <2>4, <3>2, <3>3, <3>4, Zenon DEF ChunksRebuildFrame, Fits255
  <2>. QED  BY <2>3, <2>4
<1>. QED  BY <1>1, WireInvariant, PTL
=============================================================================
