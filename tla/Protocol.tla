------------------------------ MODULE Protocol ------------------------------
(***************************************************************************)
(* The chunk format on both sides: the client's chunker and encoder         *)
(* (frontend/src/transport/chunker.ts, protocol/header.ts) and its decoder, *)
(* the server's encoder and decoder (backend/internal/protocol) and what    *)
(* HandleDatagram makes of a datagram.  A datagram is a sequence of bytes.  *)
(* A byte ranges over 0 .. Byte - 1 and a uint16 over Byte^2 numbers, so    *)
(* that a small Byte keeps the carries of the 8-bit format.  Between the    *)
(* two sides a datagram may be cut, extended or changed in one byte.        *)
(***************************************************************************)
EXTENDS Integers, Sequences, FiniteSetsExt, SequencesExt

CONSTANTS
  Byte,           \* 2^8 in the code
  MaxPayload,
  MaxCodec,
  Magic,
  SessionSeqs, FrameIDs, Codecs, FlagSets, Lengths, Payloads,  \* inputs of chunkFrame
  OwnSeq          \* the session a connection is bound to

ASSUME ProtocolAssumption ==
  /\ {Byte, MaxPayload, MaxCodec, Magic, OwnSeq} \subseteq Nat
  /\ Byte > 1 /\ MaxCodec < Byte
  /\ 0 < MaxPayload /\ MaxPayload < Byte * Byte /\ Magic < Byte * Byte
  /\ SessionSeqs \union FrameIDs \union Codecs \union FlagSets
       \union Lengths \union Payloads \subseteq Nat

VARIABLES
  frame,     \* the arguments of chunkFrame
  chunks,    \* what it returned
  wire,      \* the datagram under way
  damage,    \* what happened to it: "none", "changed", "resized"
  stage      \* "start", "cut", "sent", "received"

vars == <<frame, chunks, wire, damage, stage>>

HeaderSize == 12
MaxChunks  == Byte - 1
U8  == 0 .. Byte - 1
U16 == 0 .. Byte * Byte - 1

\* A uint16 as its two bytes, and back.
Bytes16(n) == <<n \div Byte, n % Byte>>
At16(b, i) == b[i] * Byte + b[i + 1]

Error(name) == [error |-> name, header |-> <<>>, payload |-> <<>>]

\* The layout both sides write, and the fields both read.
Layout(h, payload) ==
  Bytes16(Magic) \o Bytes16(h.sessionSeq) \o Bytes16(h.frameId)
    \o <<h.chunkIndex, h.totalChunks>> \o Bytes16(h.payloadLen) \o <<h.flags, h.codec>> \o payload

HeaderOf(b) ==
  [sessionSeq |-> At16(b, 3), frameId |-> At16(b, 5), chunkIndex |-> b[7], totalChunks |-> b[8],
   payloadLen |-> At16(b, 9), flags |-> b[11], codec |-> b[12]]

Accepted(b) == [error |-> "", header |-> HeaderOf(b), payload |-> SubSeq(b, HeaderSize + 1, Len(b))]

-----------------------------------------------------------------------------
(* The server                                                               *)

Validate_AnyCodec(h) ==
  h.totalChunks >= 1 /\ h.chunkIndex < h.totalChunks /\ h.payloadLen <= MaxPayload

\* ChunkHeader.validate; the types of the fields give their ranges.
Validate(h) ==
  /\ h.totalChunks >= 1 /\ h.chunkIndex < h.totalChunks
  /\ h.payloadLen <= MaxPayload /\ h.codec <= MaxCodec

EncodeChunk_ShortPayloads(h, payload) ==
  IF h.payloadLen = Len(payload) /\ h.payloadLen < MaxPayload /\ Validate(h)
  THEN Layout(h, payload) ELSE <<>>

EncodeChunk(h, payload) ==
  IF h.payloadLen = Len(payload) /\ Validate(h) THEN Layout(h, payload) ELSE <<>>

DecodeChunk_LongerIsFine(b) ==
  IF Len(b) < HeaderSize THEN Error("SHORT_HEADER")
  ELSE IF At16(b, 1) # Magic THEN Error("BAD_MAGIC")
  ELSE IF Len(b) < HeaderSize + At16(b, 9) THEN Error("LENGTH_MISMATCH")
  ELSE IF ~Validate(HeaderOf(b)) THEN Error("INVALID_HEADER") ELSE Accepted(b)

\* The errors in the documented order.
DecodeChunk(b) ==
  IF Len(b) < HeaderSize THEN Error("SHORT_HEADER")
  ELSE IF At16(b, 1) # Magic THEN Error("BAD_MAGIC")
  ELSE IF Len(b) # HeaderSize + At16(b, 9) THEN Error("LENGTH_MISMATCH")
  ELSE IF ~Validate(HeaderOf(b)) THEN Error("INVALID_HEADER") ELSE Accepted(b)

\* HandleDatagram: the chunk is ingested, or counted as one of two errors.
HandleDatagram(b) ==
  IF DecodeChunk(b).error # "" THEN "protocolError"
  ELSE IF HeaderOf(b).sessionSeq # OwnSeq THEN "wrongSession" ELSE "ingested"

-----------------------------------------------------------------------------
(* The client                                                               *)

\* A number is not of a fixed width there, so the ranges are checked too.
ValidateHeader(h) ==
  /\ {h.sessionSeq, h.frameId, h.payloadLen} \subseteq U16
  /\ {h.chunkIndex, h.totalChunks, h.flags} \subseteq U8
  /\ h.totalChunks >= 1 /\ h.chunkIndex < h.totalChunks
  /\ h.payloadLen <= MaxPayload /\ h.codec \in 0 .. MaxCodec

DecodeChunkTS(b) ==
  IF Len(b) < HeaderSize THEN Error("SHORT_HEADER")
  ELSE IF At16(b, 1) # Magic THEN Error("BAD_MAGIC")
  ELSE IF Len(b) # HeaderSize + At16(b, 9) THEN Error("LENGTH_MISMATCH")
  ELSE IF ~ValidateHeader(HeaderOf(b)) THEN Error("INVALID_HEADER") ELSE Accepted(b)

TotalChunks_Floor(f) == f.length \div f.maxPayload

\* Math.ceil(data.length / maxPayload).
TotalChunks(f) == (f.length + f.maxPayload - 1) \div f.maxPayload

\* The content of a frame: its bytes tell positions apart.
Data(f) == [i \in 1 .. f.length |-> (i * i) % Byte]

\* data.subarray, from 0 and clamped at the end.
Payload(f, i) ==
  SubSeq(Data(f), i * f.maxPayload + 1, Min({(i + 1) * f.maxPayload, f.length}))

ChunkHeader(f, i) ==
  [sessionSeq |-> f.sessionSeq, frameId |-> f.frameId, chunkIndex |-> i,
   totalChunks |-> TotalChunks(f), payloadLen |-> Len(Payload(f, i)),
   flags |-> f.flags, codec |-> f.codec]

\* No chunk when chunkFrame, or encodeChunk on the way, throws.
ChunkFrame(f) ==
  IF \/ f.maxPayload \notin 1 .. MaxPayload
     \/ f.length = 0
     \/ TotalChunks(f) > MaxChunks
     \/ \E i \in 0 .. TotalChunks(f) - 1 : ~ValidateHeader(ChunkHeader(f, i))
  THEN <<>>
  ELSE [i \in 1 .. TotalChunks(f) |-> Layout(ChunkHeader(f, i - 1), Payload(f, i - 1))]

-----------------------------------------------------------------------------
(* A frame's way                                                            *)

Frames == [sessionSeq : SessionSeqs, frameId : FrameIDs, codec : Codecs, flags : FlagSets,
           length : Lengths, maxPayload : Payloads]

Init ==
  /\ frame \in Frames
  /\ chunks = <<>> /\ wire = <<>> /\ damage = "none" /\ stage = "start"

Cut ==
  /\ stage = "start"
  /\ chunks' = ChunkFrame(frame) /\ stage' = "cut"
  /\ UNCHANGED <<frame, wire, damage>>

Send ==
  /\ stage = "cut"
  /\ \E i \in DOMAIN chunks : wire' = chunks[i]
  /\ chunks' = <<>> /\ stage' = "sent"
  /\ UNCHANGED <<frame, damage>>

Changed ==
  /\ stage = "sent" /\ damage = "none"
  /\ \E i \in DOMAIN wire, v \in U8 : wire' = [wire EXCEPT ![i] = v]
  /\ damage' = "changed"
  /\ UNCHANGED <<frame, chunks, stage>>

Resized ==
  /\ stage = "sent" /\ damage = "none"
  /\ \/ \E n \in 0 .. Len(wire) - 1 : wire' = SubSeq(wire, 1, n)
     \/ \E v \in U8 : wire' = Append(wire, v)
  /\ damage' = "resized"
  /\ UNCHANGED <<frame, chunks, stage>>

Next == Cut \/ Send \/ Changed \/ Resized

Spec == Init /\ [][Next]_vars

-----------------------------------------------------------------------------
(* Properties                                                               *)

\* chunkFrame cuts exactly the frames whose data fits 255 chunks and whose fields
\* fit theirs, and what the server
\* decodes from the chunks, in their order, is the frame: the same data, the
\* same fields, the indices in order, no chunk empty or over its limit; chunks of
\* another session are told apart from errors of the protocol.
ChunksRebuildFrame ==
  stage = "cut" =>
    LET got == [i \in DOMAIN chunks |-> DecodeChunk(chunks[i])] IN
      /\ chunks # <<>> <=>
           /\ frame.maxPayload \in 1 .. MaxPayload
           /\ frame.length \in 1 .. MaxChunks * frame.maxPayload
           /\ frame.sessionSeq \in U16 /\ frame.frameId \in U16
           /\ frame.flags \in U8 /\ frame.codec <= MaxCodec
      /\ chunks # <<>> => FlattenSeq([i \in DOMAIN got |-> got[i].payload]) = Data(frame)
      /\ \A i \in DOMAIN got :
           /\ got[i].error = "" /\ Len(got[i].payload) \in 1 .. frame.maxPayload
           /\ got[i].header = ChunkHeader(frame, i - 1)
           /\ got[i].header.totalChunks = Len(chunks)
           /\ HandleDatagram(chunks[i]) =
                IF frame.sessionSeq = OwnSeq THEN "ingested" ELSE "wrongSession"

\* The two decoders agree on every datagram, on the error too: the golden
\* vectors of the two test suites sample this.
DecodersAgree == stage = "sent" => DecodeChunk(wire) = DecodeChunkTS(wire)

\* A datagram that decodes is the encoding of what it decodes to, changed or
\* not: FuzzDecodeChunk samples this.
DecodedIsCanonical ==
  stage = "sent" =>
    LET d == DecodeChunk(wire) IN d.error = "" => EncodeChunk(d.header, d.payload) = wire

\* A datagram that was cut or extended is never ingested, whatever byte was
\* appended and wherever it was cut.
ResizedIsRejected == damage = "resized" => HandleDatagram(wire) = "protocolError"
=============================================================================
