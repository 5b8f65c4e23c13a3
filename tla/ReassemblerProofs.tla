------------------------- MODULE ReassemblerProofs -------------------------
(***************************************************************************)
(* Theorems of Reassembler, for every value of its constants.               *)
(***************************************************************************)
EXTENDS Reassembler, FiniteSetTheorems, TLAPS

-----------------------------------------------------------------------------
(* Lemmas about the data                                                    *)

\* A header's fields, without expanding the set it is taken from.
LEMMA HeaderFields ==
  ASSUME NEW h \in Headers
  PROVE  /\ h.frameID \in FrameIDs
         /\ h.chunkIndex \in 0 .. MaxTotal - 1
         /\ h.totalChunks \in 1 .. MaxTotal
         /\ h.codec \in Codecs
         /\ h.chunkIndex < h.totalChunks
  BY DEF Headers

\* Whatever counters go up, they stay natural numbers.
LEMMA BumpType ==
  ASSUME count \in [Counters -> Nat], NEW S, Bump(S)
  PROVE  count' \in [Counters -> Nat]
  BY DEF Bump

\* The frame a chunk belongs to is a frame record with chunks of known headers.
LEMMA FrameOfType ==
  ASSUME frames \in [FrameIDs -> FrameRecords], NEW h \in Headers, NEW now \in Nat
  PROVE  FrameOf(h, now) \in FrameRecords
<1>1. h.frameID \in FrameIDs /\ h.totalChunks \in Nat /\ h.codec \in Codecs
  BY HeaderFields, ReassemblerAssumption
<1>2. Frame("pending", {}, 0, h.totalChunks, h.codec, now) \in FrameRecords
  BY <1>1 DEF FrameRecords, Frame, Statuses, Time
<1>. QED  BY <1>1, <1>2 DEF FrameOf

\* Storing a chunk keeps the record's type.
LEMMA StoredType ==
  ASSUME NEW fs \in FrameRecords, NEW h \in Headers
  PROVE  /\ Stored(fs, h) \in FrameRecords
         /\ Stored(fs, h).chunks = fs.chunks \union {h}
         /\ Stored(fs, h).received = fs.received + 1
         /\ Stored(fs, h).total = fs.total
         /\ Stored(fs, h).codec = fs.codec
         /\ Stored(fs, h).status = fs.status
         /\ Stored(fs, h).firstChunkAt = fs.firstChunkAt
<1>. fs.chunks \union {h} \in SUBSET Headers /\ fs.received + 1 \in Nat
  BY DEF FrameRecords
<1>. QED  BY DEF Stored, Frame, FrameRecords

\* Giving a frame up keeps everything but its status and its buffers.
LEMMA GivenUpType ==
  ASSUME NEW fs \in FrameRecords
  PROVE  /\ GivenUp(fs) \in FrameRecords
         /\ GivenUp(fs).status = "timedOut"
         /\ GivenUp(fs).chunks = {}
         /\ GivenUp(fs).received = fs.received
         /\ GivenUp(fs).total = fs.total
  BY DEF GivenUp, FrameRecords, Statuses

\* So does completing it.
LEMMA CompletedType ==
  ASSUME NEW fs \in FrameRecords
  PROVE  /\ Completed(fs) \in FrameRecords
         /\ Completed(fs).status = "complete"
         /\ Completed(fs).chunks = {}
         /\ Completed(fs).received = fs.received
         /\ Completed(fs).total = fs.total
  BY DEF Completed, FrameRecords, Statuses

\* The assembled data is a function from slots to stored chunks.
LEMMA AssembledType ==
  ASSUME NEW chunks \in SUBSET Headers
  PROVE  Assembled(chunks) \in UNION {[D -> Headers] : D \in SUBSET (0 .. MaxTotal - 1)}
<1>1. Slots(chunks) \in SUBSET (0 .. MaxTotal - 1)
  BY HeaderFields DEF Slots
<1>2. ASSUME NEW i \in Slots(chunks)
      PROVE  (CHOOSE c \in chunks : c.chunkIndex = i) \in Headers
  BY <1>2 DEF Slots
<1>3. Assembled(chunks) \in [Slots(chunks) -> Headers]
  BY <1>2 DEF Assembled
<1>. QED  BY <1>1, <1>3

-----------------------------------------------------------------------------
(* Type correctness                                                         *)

LEMMA TypeInit == Init => TypeOK
<1>. SUFFICES ASSUME Init PROVE TypeOK
  OBVIOUS
<1>1. Absent \in FrameRecords
  BY DEF Absent, Frame, FrameRecords, Statuses, Time, NoCodec
<1>2. ZeroReport.counters \in [Counters -> Nat] /\ ZeroReport.framesSentByClient \in Int
  BY DEF ZeroReport
<1>3. Idle \in Calls
  BY DEF Calls
<1>4. latencies \in Seq(Int) /\ {firstChunkAt, lastChunkAt, lastCompletedAt, endAt, closedAt} \subseteq Time
  BY DEF Init, Time
<1>5. sweeper \in Sweepers
  BY DEF Init, Waiting, Sweepers, SweepSteps, Time
<1>6. /\ frames \in [FrameIDs -> FrameRecords]
      /\ call \in [Callers -> Calls]
      /\ deliveries \in [FrameIDs -> Nat]
      /\ count \in [Counters -> Nat]
  BY <1>1, <1>3 DEF Init
<1>7. clock \in Nat /\ arrivals \in Nat /\ framesSentClaim \in Int
  BY DEF Init
<1>8. endMarked \in BOOLEAN /\ finalized \in BOOLEAN
  BY Zenon DEF Init
<1>. QED  BY <1>2, <1>4, <1>5, <1>6, <1>7, <1>8 DEF Init, TypeOK

\* What a caller's record holds, by the method it is in.
LEMMA CallFields ==
  ASSUME call \in [Callers -> Calls], NEW c \in Callers
  PROVE  /\ call[c].op = "ingest" => call[c].h \in Headers /\ call[c].at \in Nat
         /\ call[c].op = "markEnd" => call[c].framesSent \in Claims /\ call[c].at \in Nat
         /\ call[c].op = "closed" => call[c].at \in Nat
         /\ call[c].op = "sink" => call[c].frame \in CompleteFrames
  BY DEF Calls, Idle

LEMMA ReturnType ==
  ASSUME call \in [Callers -> Calls], NEW c \in Callers, Return(c)
  PROVE  call' \in [Callers -> Calls]
  BY DEF Return, Calls

\* Every step keeps the type invariant.
LEMMA TypeNext == TypeOK /\ [Next]_vars => TypeOK'
<1>. SUFFICES ASSUME TypeOK, [Next]_vars PROVE TypeOK'
  OBVIOUS
<1>. USE DEF frameVars, endVars, finalVars
<1>1. CASE Tick
  BY <1>1 DEF Tick, TypeOK
<1>2. ASSUME NEW c \in Callers, NEW h \in Headers, IngestCall(c, h) PROVE TypeOK'
  <2>1. [op |-> "ingest", h |-> h, at |-> clock] \in Calls
    BY DEF Calls, TypeOK
  <2>. QED  BY <1>2, <2>1 DEF IngestCall, Enter, TypeOK
<1>3. ASSUME NEW c \in Callers, NEW n \in Claims, MarkEndCall(c, n) PROVE TypeOK'
  <2>1. [op |-> "markEnd", framesSent |-> n, at |-> clock] \in Calls
    BY DEF Calls, TypeOK
  <2>. QED  BY <1>3, <2>1 DEF MarkEndCall, Enter, TypeOK
<1>4. ASSUME NEW c \in Callers, ClosedCall(c) PROVE TypeOK'
  <2>1. [op |-> "closed", at |-> clock] \in Calls
    BY DEF Calls, TypeOK
  <2>. QED  BY <1>4, <2>1 DEF ClosedCall, Enter, TypeOK
<1>5. ASSUME NEW c \in Callers, NEW k, NoteRejected(c, k) PROVE TypeOK'
  <2>1. count' \in [Counters -> Nat]
    BY <1>5, BumpType DEF NoteRejected, TypeOK
  <2>. QED  BY <1>5, <2>1 DEF NoteRejected, TypeOK
<1>6. ASSUME NEW c \in Callers, Ingest(c) PROVE TypeOK'
  <2>. call[c].op = "ingest" /\ call[c].h \in Headers /\ call[c].at \in Nat
    BY <1>6, CallFields DEF TypeOK, Ingest, Arrived, IngestAfterFinalize, IngestLate,
         IngestMismatch, IngestDuplicate, IngestPart, IngestLastPart
  <2>. DEFINE h == call[c].h
              fs == FrameOf(h, call[c].at)
              full == Stored(fs, h)
  <2>1. Arrived(c) => {firstChunkAt', lastChunkAt'} \subseteq Time
    BY DEF Arrived, FirstSeen, TypeOK, Time
  <2>2. fs \in FrameRecords
    BY FrameOfType DEF TypeOK
  <2>3. full \in FrameRecords
    BY <2>2, StoredType
  <2>4. h.frameID \in FrameIDs
    BY HeaderFields
  <2>5. CASE IngestAfterFinalize(c)
    <3>1. count' \in [Counters -> Nat] /\ call' \in [Callers -> Calls]
      BY <2>5, BumpType, ReturnType DEF IngestAfterFinalize, TypeOK
    <3>. QED  BY <2>5, <3>1 DEF IngestAfterFinalize, TypeOK
  <2>6. CASE IngestLate(c)
    <3>1. count' \in [Counters -> Nat] /\ call' \in [Callers -> Calls]
      BY <2>6, BumpType, ReturnType DEF IngestLate, TypeOK
    <3>. QED  BY <2>1, <2>6, <3>1 DEF IngestLate, TypeOK
  <2>7. CASE IngestMismatch(c)
    <3>1. count' \in [Counters -> Nat] /\ call' \in [Callers -> Calls]
      BY <2>7, BumpType, ReturnType DEF IngestMismatch, TypeOK
    <3>. QED  BY <2>1, <2>7, <3>1 DEF IngestMismatch, TypeOK
  <2>8. CASE IngestDuplicate(c)
    <3>1. count' \in [Counters -> Nat] /\ call' \in [Callers -> Calls]
      BY <2>8, BumpType, ReturnType DEF IngestDuplicate, TypeOK
    <3>. QED  BY <2>1, <2>8, <3>1 DEF IngestDuplicate, TypeOK
  <2>9. CASE IngestPart(c)
    <3>1. count' \in [Counters -> Nat] /\ call' \in [Callers -> Calls]
      BY <2>9, BumpType, ReturnType DEF IngestPart, TypeOK
    <3>2. frames' \in [FrameIDs -> FrameRecords]
      BY <2>9, <2>3, <2>4 DEF IngestPart, TypeOK
    <3>. QED  BY <2>1, <2>9, <3>1, <3>2 DEF IngestPart, TypeOK
  <2>10. CASE IngestLastPart(c)
    <3>1. count' \in [Counters -> Nat]
      BY <2>10, BumpType DEF IngestLastPart, TypeOK
    <3>2. frames' \in [FrameIDs -> FrameRecords]
      <4>1. Completed(full) \in FrameRecords
        BY <2>3, CompletedType
      <4>. QED  BY <2>10, <2>4, <4>1 DEF IngestLastPart, TypeOK
    <3>3. call' \in [Callers -> Calls]
      <4>. DEFINE cf == [frameID |-> h.frameID, codec |-> full.codec,
                         data |-> Assembled(full.chunks),
                         firstChunkAt |-> full.firstChunkAt, completedAt |-> call[c].at]
      <4>1. Assembled(full.chunks) \in UNION {[D -> Headers] : D \in SUBSET (0 .. MaxTotal - 1)}
        BY <2>3, AssembledType DEF FrameRecords
      <4>2. full.codec \in Codecs \union {NoCodec} /\ full.firstChunkAt \in Time
        BY <2>3 DEF FrameRecords
      <4>3. cf \in CompleteFrames
        BY <2>4, <4>1, <4>2 DEF CompleteFrames
      <4>4. [op |-> "sink", frame |-> cf] \in Calls
        BY <4>3 DEF Calls
      <4>5. call' = [call EXCEPT ![c] = [op |-> "sink", frame |-> cf]]
        BY <2>10 DEF IngestLastPart
      <4>. QED  BY <4>4, <4>5 DEF TypeOK
    <3>4. latencies' \in Seq(Int) /\ lastCompletedAt' \in Time
      <4>1. full.firstChunkAt \in Int
        BY <2>3 DEF FrameRecords, Time, Never
      <4>. QED  BY <2>10, <4>1 DEF IngestLastPart, TypeOK, Time
    <3>. QED  BY <2>1, <2>10, <3>1, <3>2, <3>3, <3>4 DEF IngestLastPart, TypeOK
  <2>. QED  BY <1>6, <2>5, <2>6, <2>7, <2>8, <2>9, <2>10 DEF Ingest
<1>7. ASSUME NEW c \in Callers, MarkEnd(c) PROVE TypeOK'
  <2>1. call[c].framesSent \in Int /\ call[c].at \in Nat
    BY <1>7, CallFields, ReassemblerAssumption DEF MarkEnd, TypeOK
  <2>2. framesSentClaim' \in Int /\ endAt' \in Time /\ call' \in [Callers -> Calls]
    BY <1>7, <2>1, ReturnType DEF MarkEnd, TypeOK, Time
  <2>3. endMarked' \in BOOLEAN
    BY <1>7 DEF MarkEnd, TypeOK
  <2>. QED  BY <1>7, <2>2, <2>3 DEF MarkEnd, TypeOK
<1>8. ASSUME NEW c \in Callers, NoteTransportClosed(c) PROVE TypeOK'
  <2>1. closedAt' \in Time /\ call' \in [Callers -> Calls]
    BY <1>8, CallFields, ReturnType DEF NoteTransportClosed, TypeOK, Time
  <2>. QED  BY <1>8, <2>1 DEF NoteTransportClosed, TypeOK
<1>9. ASSUME NEW c \in Callers, NEW failed \in BOOLEAN, SinkReturns(c, failed) PROVE TypeOK'
  <2>1. count' \in [Counters -> Nat] /\ call' \in [Callers -> Calls]
    BY <1>9, BumpType, ReturnType DEF SinkReturns, TypeOK
  <2>2. deliveries' \in [FrameIDs -> Nat]
    <3>. DEFINE f == call[c].frame.frameID
    <3>1. f \in FrameIDs
      BY <1>9, CallFields DEF SinkReturns, TypeOK, CompleteFrames
    <3>2. deliveries[f] + 1 \in Nat
      BY <3>1 DEF TypeOK
    <3>3. deliveries' = [deliveries EXCEPT ![f] = deliveries[f] + 1]
      BY <1>9 DEF SinkReturns
    <3>. QED  BY <3>2, <3>3 DEF TypeOK
  <2>. QED  BY <1>9, <2>1, <2>2 DEF SinkReturns, TypeOK
<1>10. CASE SweepTick
  <2>1. sweeper' \in Sweepers
    BY <1>10 DEF SweepTick, TypeOK, Waiting, Sweepers, SweepSteps, Time
  <2>. QED  BY <1>10, <2>1 DEF SweepTick, TypeOK
<1>11. CASE Sweep
  <2>1. frames' \in [FrameIDs -> FrameRecords]
    BY <1>11, GivenUpType DEF Sweep, TypeOK
  <2>2. sweeper' \in Sweepers
    BY <1>11 DEF Sweep, TypeOK, Sweepers, SweepSteps
  <2>. QED  BY <1>11, <2>1, <2>2 DEF Sweep, TypeOK
<1>12. CASE CheckFinalize
  <2>1. sweeper' \in Sweepers
    BY <1>12 DEF CheckFinalize, TypeOK, Waiting, Sweepers, SweepSteps, Time
  <2>. QED  BY <1>12, <2>1 DEF CheckFinalize, TypeOK
<1>13. CASE Finalize
  <2>1. frames' \in [FrameIDs -> FrameRecords]
    BY <1>13, GivenUpType DEF Finalize, ClosedFrames, TypeOK
  <2>2. sweeper' \in Sweepers
    BY <1>13 DEF Finalize, TypeOK, Sweepers, SweepSteps
  <2>3. finalReport'.counters = count /\ finalReport'.framesSentByClient = framesSentClaim
    BY <1>13 DEF Finalize, BuildReport
  <2>. QED  BY <1>13, <2>1, <2>2, <2>3 DEF Finalize, TypeOK
<1>14. CASE UNCHANGED vars
  BY <1>14 DEF vars, TypeOK
<1>. QED
  BY <1>1, <1>2, <1>3, <1>4, <1>5, <1>6, <1>7, <1>8, <1>9, <1>10, <1>11, <1>12, <1>13, <1>14
     DEF Next, CallBegins, CallProceeds, SweepLoop, NoteWrongSession, NoteProtocolError

\* The type invariant holds in every state the reassembler reaches.
THEOREM TypeCorrect == Spec => []TypeOK
  BY TypeInit, TypeNext, PTL DEF Spec

-----------------------------------------------------------------------------
(* Assembly                                                                 *)

\* A pending frame that still lacks a chunk; unlike PendingFrame it includes
\* the frame Ingest has just made for its first chunk.
Assembling(fs, f) ==
  /\ fs.received = Cardinality(Slots(fs.chunks))
  /\ fs.received < fs.total
  /\ \A c \in fs.chunks :
       c.frameID = f /\ c.totalChunks = fs.total /\ c.codec = fs.codec
  /\ \A c, d \in fs.chunks : c.chunkIndex = d.chunkIndex => c = d

\* A set of chunks fills finitely many slots.
LEMMA SlotsFinite ==
  ASSUME NEW chunks \in SUBSET Headers
  PROVE  IsFiniteSet(Slots(chunks)) /\ Cardinality(Slots(chunks)) \in Nat
<1>1. Slots(chunks) \in SUBSET (0 .. MaxTotal - 1)
  BY HeaderFields DEF Slots
<1>2. IsFiniteSet(0 .. MaxTotal - 1)
  BY FS_Interval, ReassemblerAssumption
<1>. QED  BY <1>1, <1>2, FS_Subset, FS_CardinalityType

\* The frame a chunk meets under the mutex, if pending, lacks a chunk.
LEMMA FrameOfAssembling ==
  ASSUME TypeOK, FramesWellFormed, NEW h \in Headers, NEW now \in Nat,
         FrameOf(h, now).status = "pending"
  PROVE  Assembling(FrameOf(h, now), h.frameID)
<1>1. h.frameID \in FrameIDs /\ h.totalChunks \in 1 .. MaxTotal
  BY HeaderFields
<1>2. CASE frames[h.frameID].status = "absent"
  <2>1. FrameOf(h, now) = Frame("pending", {}, 0, h.totalChunks, h.codec, now)
    BY <1>2 DEF FrameOf
  <2>2. Slots({}) = {}
    BY DEF Slots
  <2>. QED  BY <1>1, <2>1, <2>2, FS_EmptySet DEF Assembling, Frame
<1>3. CASE frames[h.frameID].status # "absent"
  <2>1. FrameOf(h, now) = frames[h.frameID]
    BY <1>3 DEF FrameOf
  <2>. QED  BY <1>1, <2>1 DEF Assembling, FramesWellFormed, PendingFrame
<1>. QED  BY <1>2, <1>3

\* Storing a chunk in an empty slot fills one slot more and mixes nothing in.
LEMMA StoredAssembling ==
  ASSUME NEW fs \in FrameRecords, NEW h \in Headers,
         Assembling(fs, h.frameID), Fits(fs, h)
  PROVE  LET full == Stored(fs, h)
         IN  /\ full.received = Cardinality(Slots(full.chunks))
             /\ 0 < full.received /\ full.received <= full.total
             /\ \A c \in full.chunks :
                  c.frameID = h.frameID /\ c.totalChunks = full.total /\ c.codec = full.codec
             /\ \A c, d \in full.chunks : c.chunkIndex = d.chunkIndex => c = d
<1>. DEFINE full == Stored(fs, h)
<1>. fs.chunks \in SUBSET Headers /\ fs.received \in Nat /\ fs.total \in Nat
  BY DEF FrameRecords
<1>1. /\ full.chunks = fs.chunks \union {h} /\ full.received = fs.received + 1
      /\ full.total = fs.total /\ full.codec = fs.codec
  BY StoredType
<1>2. Slots(full.chunks) = Slots(fs.chunks) \union {h.chunkIndex}
  BY <1>1 DEF Slots
<1>3. h.chunkIndex \notin Slots(fs.chunks)
  BY DEF Fits, SlotTaken
<1>4. Cardinality(Slots(full.chunks)) = Cardinality(Slots(fs.chunks)) + 1
  BY <1>2, <1>3, SlotsFinite, FS_AddElement
<1>5. h.totalChunks = fs.total /\ h.codec = fs.codec
  BY DEF Fits, SameEncoding
<1>6. \A c \in fs.chunks : c.chunkIndex # h.chunkIndex
  BY <1>3 DEF Slots
<1>7. full.received = Cardinality(Slots(full.chunks)) /\ 0 < full.received /\ full.received <= full.total
  BY <1>1, <1>4 DEF Assembling
<1>8. \A c \in full.chunks :
        c.frameID = h.frameID /\ c.totalChunks = full.total /\ c.codec = full.codec
  BY <1>1, <1>5 DEF Assembling
<1>9. \A c, d \in full.chunks : c.chunkIndex = d.chunkIndex => c = d
  BY <1>1, <1>6 DEF Assembling
<1>. QED  BY <1>7, <1>8, <1>9

\* Chunks of one frame and one encoding, as many slots as the total: what Ingest
\* concatenates is the whole frame in order.
LEMMA AssembledWhole ==
  ASSUME NEW full \in FrameRecords, NEW f,
         full.total = Cardinality(Slots(full.chunks)),
         \A c \in full.chunks : c.frameID = f /\ c.totalChunks = full.total /\ c.codec = full.codec
  PROVE  Assembled(full.chunks) =
           [i \in 0 .. full.total - 1 |->
              [frameID |-> f, chunkIndex |-> i, totalChunks |-> full.total, codec |-> full.codec]]
<1>a. PICK chunks, n, k :
        /\ chunks \in SUBSET Headers /\ n \in Nat
        /\ chunks = full.chunks /\ n = full.total /\ k = full.codec
  BY DEF FrameRecords
<1>. USE <1>a
<1>b. \A c \in chunks : c.frameID = f /\ c.totalChunks = n /\ c.codec = k
  BY <1>a
<1>1. Slots(chunks) \in SUBSET (0 .. n - 1)
  BY <1>b, HeaderFields DEF Slots
<1>2. IsFiniteSet(0 .. n - 1) /\ Cardinality(0 .. n - 1) = n
  <2>. DEFINE b == n - 1
  <2>1. b \in Int /\ b + 1 = n
    OBVIOUS
  <2>. HIDE DEF b
  <2>2. IsFiniteSet(0 .. b) /\ Cardinality(0 .. b) = IF 0 > b THEN 0 ELSE b - 0 + 1
    <3>1. 0 \in Int
      OBVIOUS
    <3>. QED  BY <2>1, <3>1, FS_Interval, Zenon
  <2>3. Cardinality(0 .. b) = n
    BY <2>1, <2>2
  <2>. QED  BY <2>2, <2>3 DEF b
<1>3. Slots(chunks) = 0 .. n - 1
  BY <1>a, <1>1, <1>2, FS_Subset
<1>4. ASSUME NEW i \in Slots(chunks)
      PROVE  (CHOOSE c \in chunks : c.chunkIndex = i) =
               [frameID |-> f, chunkIndex |-> i, totalChunks |-> n, codec |-> k]
  <2>. DEFINE x == CHOOSE c \in chunks : c.chunkIndex = i
  <2>1. x \in chunks /\ x.chunkIndex = i
    BY <1>4 DEF Slots
  <2>2. x \in Headers /\ x.frameID = f /\ x.totalChunks = n /\ x.codec = k
    BY <2>1, <1>b
  <2>. QED  BY <2>1, <2>2 DEF Headers
<1>. QED  BY <1>a, <1>3, <1>4 DEF Assembled

-----------------------------------------------------------------------------
(* Safety                                                                   *)

\* The inductive invariant: what assembly keeps of each frame is what makes the
\* handoff whole, and a frame handed over once cannot be complete again.
SafetyInv == TypeOK /\ FramesWellFormed /\ HandedOverOnce /\ DeliveredIntact

LEMMA SafetyInit == Init => SafetyInv
<1>. SUFFICES ASSUME Init PROVE SafetyInv
  OBVIOUS
<1>1. TypeOK
  BY TypeInit
<1>2. FramesWellFormed
  BY DEF Init, FramesWellFormed, Absent, Frame
<1>3. \A f : SinkCalls(f) = {}
  BY DEF Init, SinkCalls, Idle
<1>4. HandedOverOnce
  <2>. SUFFICES ASSUME NEW f \in FrameIDs
                PROVE  deliveries[f] + Cardinality(SinkCalls(f)) =
                         IF frames[f].status = "complete" THEN 1 ELSE 0
    BY DEF HandedOverOnce
  <2>1. deliveries[f] = 0 /\ frames[f].status = "absent"
    BY DEF Init, Absent, Frame
  <2>2. Cardinality(SinkCalls(f)) = 0
    BY <1>3, FS_EmptySet
  <2>. QED  BY <2>1, <2>2
<1>5. DeliveredIntact
  BY DEF Init, DeliveredIntact, Idle
<1>. QED  BY <1>1, <1>2, <1>4, <1>5 DEF SafetyInv

\* A step that leaves the frames and the store alone, and enters or leaves no
\* call of the sink.
LEMMA QuietStep ==
  ASSUME SafetyInv, TypeOK', frames' = frames, deliveries' = deliveries,
         \A c \in Callers : call'[c] = call[c] \/ (call[c].op # "sink" /\ call'[c].op # "sink")
  PROVE  SafetyInv'
<1>1. \A f : SinkCalls(f)' = SinkCalls(f)
  BY DEF SinkCalls
<1>2. HandedOverOnce'
  BY <1>1 DEF SafetyInv, HandedOverOnce
<1>3. FramesWellFormed'
  BY DEF SafetyInv, FramesWellFormed, PendingFrame
<1>4. DeliveredIntact'
  BY DEF SafetyInv, DeliveredIntact
<1>. QED  BY <1>2, <1>3, <1>4 DEF SafetyInv

\* A caller in the sink holds a frame that is complete and not yet delivered.
LEMMA SinkHoldsComplete ==
  ASSUME SafetyInv, NEW c \in Callers, call[c].op = "sink"
  PROVE  /\ call[c].frame.frameID \in FrameIDs
         /\ frames[call[c].frame.frameID].status = "complete"
         /\ deliveries[call[c].frame.frameID] = 0
         /\ SinkCalls(call[c].frame.frameID) = {c}
<1>. DEFINE f == call[c].frame.frameID
            S == SinkCalls(f)
<1>1. f \in FrameIDs
  BY CallFields DEF SafetyInv, TypeOK, CompleteFrames
<1>2. IsFiniteSet(S) /\ c \in S
  BY FS_Subset, ReassemblerAssumption DEF SinkCalls
<1>3. Cardinality(S) \in Nat /\ Cardinality(S) # 0
  BY <1>2, FS_CardinalityType, FS_EmptySet
<1>4. deliveries[f] \in Nat
  BY <1>1 DEF SafetyInv, TypeOK
<1>5. deliveries[f] + Cardinality(S) = IF frames[f].status = "complete" THEN 1 ELSE 0
  BY <1>1 DEF SafetyInv, HandedOverOnce
<1>6. frames[f].status = "complete" /\ deliveries[f] = 0 /\ Cardinality(S) = 1
  BY <1>3, <1>4, <1>5
<1>7. S = {c}
  BY <1>2, <1>6, FS_Singleton
<1>. QED  BY <1>1, <1>6, <1>7

\* Giving up any set of pending frames disturbs nothing else.
LEMMA GiveUpStep ==
  ASSUME SafetyInv, TypeOK', deliveries' = deliveries, call' = call,
         NEW S \in SUBSET FrameIDs, \A f \in S : frames[f].status = "pending",
         frames' = [f \in FrameIDs |-> IF f \in S THEN GivenUp(frames[f]) ELSE frames[f]]
  PROVE  SafetyInv'
<1>1. \A f \in FrameIDs : frames[f] \in FrameRecords
  BY DEF SafetyInv, TypeOK
<1>2. \A f \in FrameIDs : f \notin S => frames'[f] = frames[f]
  OBVIOUS
<1>3. \A f \in S : /\ frames'[f].status = "timedOut" /\ frames'[f].chunks = {}
                   /\ frames'[f].received = frames[f].received
                   /\ frames'[f].total = frames[f].total
  BY <1>1, GivenUpType
<1>4. \A f : SinkCalls(f)' = SinkCalls(f)
  BY DEF SinkCalls
<1>5. HandedOverOnce'
  <2>. SUFFICES ASSUME NEW f \in FrameIDs
                PROVE  (frames'[f].status = "complete") <=> (frames[f].status = "complete")
    BY <1>4 DEF SafetyInv, HandedOverOnce
  <2>. QED  BY <1>2, <1>3
<1>6. FramesWellFormed'
  <2>. SUFFICES ASSUME NEW f \in FrameIDs
                PROVE  /\ frames'[f].status = "pending" => PendingFrame(f)'
                       /\ frames'[f].status # "pending" => frames'[f].chunks = {}
                       /\ frames'[f].status = "complete" => frames'[f].received = frames'[f].total
                       /\ frames'[f].status = "timedOut" => frames'[f].received < frames'[f].total
    BY DEF FramesWellFormed
  <2>1. CASE f \in S
    BY <2>1, <1>3 DEF SafetyInv, FramesWellFormed, PendingFrame
  <2>2. CASE f \notin S
    BY <2>2, <1>2 DEF SafetyInv, FramesWellFormed, PendingFrame
  <2>. QED  BY <2>1, <2>2
<1>7. DeliveredIntact'
  <2>1. \A c \in Callers : call[c].op = "sink" =>
          frames'[call[c].frame.frameID] = frames[call[c].frame.frameID]
    BY <1>2, SinkHoldsComplete
  <2>. QED  BY <2>1 DEF SafetyInv, DeliveredIntact
<1>. QED  BY <1>5, <1>6, <1>7 DEF SafetyInv

\* Ingest stores a chunk of a frame that is not complete yet.
LEMMA PartStep ==
  ASSUME SafetyInv, TypeOK', NEW c \in Callers, IngestPart(c)
  PROVE  SafetyInv'
<1>a. PICK h : h = call[c].h
  OBVIOUS
<1>b. PICK fs : fs = FrameOf(h, call[c].at)
  OBVIOUS
<1>c. PICK full : full = Stored(fs, h)
  OBVIOUS
<1>d. PICK g : g = h.frameID
  OBVIOUS
<1>. USE <1>a, <1>b, <1>c, <1>d
<1>1. call[c].op = "ingest" /\ h \in Headers /\ call[c].at \in Nat
  BY CallFields DEF SafetyInv, TypeOK, IngestPart, Arrived
<1>2. g \in FrameIDs /\ h.totalChunks \in 1 .. MaxTotal
  BY <1>1, HeaderFields
<1>3. fs \in FrameRecords
  BY <1>1, FrameOfType DEF SafetyInv, TypeOK
<1>4. fs.status = "pending" /\ Fits(fs, h) /\ ~Filled(full)
  BY DEF IngestPart, Fits
<1>5. Assembling(fs, g)
  BY <1>1, <1>4, FrameOfAssembling DEF SafetyInv
<1>6. /\ full.received = Cardinality(Slots(full.chunks))
      /\ 0 < full.received /\ full.received <= full.total
      /\ \A d \in full.chunks :
           d.frameID = g /\ d.totalChunks = full.total /\ d.codec = full.codec
      /\ \A d, e \in full.chunks : d.chunkIndex = e.chunkIndex => d = e
  BY <1>1, <1>3, <1>4, <1>5, StoredAssembling
<1>7. full.received < full.total /\ full.status = "pending"
  <2>1. full \in FrameRecords /\ full.status = "pending"
    BY <1>1, <1>3, <1>4, StoredType
  <2>2. full.received \in Nat /\ full.total \in Nat
    BY <2>1 DEF FrameRecords
  <2>. QED  BY <1>4, <1>6, <2>1, <2>2 DEF Filled
<1>8. frames' = [frames EXCEPT ![g] = full] /\ deliveries' = deliveries
  BY DEF IngestPart
<1>9. \A d \in Callers : call'[d] = call[d] \/ (call[d].op # "sink" /\ call'[d].op # "sink")
  BY <1>1 DEF IngestPart, Return, Idle, SafetyInv, TypeOK
<1>10. /\ frames'[g] = full
       /\ \A f \in FrameIDs : f # g => frames'[f] = frames[f]
  BY <1>2, <1>8 DEF SafetyInv, TypeOK
<1>11. frames[g].status \in {"absent", "pending"}
  BY <1>4 DEF FrameOf
<1>12. \A f : SinkCalls(f)' = SinkCalls(f)
  BY <1>9 DEF SinkCalls
<1>13. HandedOverOnce'
  <2>. SUFFICES ASSUME NEW f \in FrameIDs
                PROVE  (frames'[f].status = "complete") <=> (frames[f].status = "complete")
    BY <1>8, <1>12 DEF SafetyInv, HandedOverOnce
  <2>. QED  BY <1>7, <1>10, <1>11
<1>14. FramesWellFormed'
  <2>1. PendingFrame(g)'
    BY <1>6, <1>7, <1>10 DEF PendingFrame
  <2>2. \A f \in FrameIDs : f # g => (PendingFrame(f)' <=> PendingFrame(f))
    BY <1>10 DEF PendingFrame
  <2>. QED  BY <1>7, <1>10, <2>1, <2>2 DEF SafetyInv, FramesWellFormed
<1>15. DeliveredIntact'
  <2>1. \A d \in Callers : call[d].op = "sink" =>
          frames'[call[d].frame.frameID] = frames[call[d].frame.frameID]
    BY <1>10, <1>11, SinkHoldsComplete
  <2>. QED  BY <1>9, <2>1 DEF SafetyInv, DeliveredIntact
<1>. QED  BY <1>13, <1>14, <1>15 DEF SafetyInv

\* Ingest completes a frame and takes it to the sink.
LEMMA LastPartStep ==
  ASSUME SafetyInv, TypeOK', NEW c \in Callers, IngestLastPart(c)
  PROVE  SafetyInv'
<1>a. PICK h : h = call[c].h
  OBVIOUS
<1>b. PICK fs : fs = FrameOf(h, call[c].at)
  OBVIOUS
<1>c. PICK full : full = Stored(fs, h)
  OBVIOUS
<1>d. PICK g : g = h.frameID
  OBVIOUS
<1>e. PICK cf : cf = [frameID |-> g, codec |-> full.codec, data |-> Assembled(full.chunks),
                      firstChunkAt |-> full.firstChunkAt, completedAt |-> call[c].at]
  OBVIOUS
<1>. USE <1>a, <1>b, <1>c, <1>d, <1>e
<1>1. call[c].op = "ingest" /\ h \in Headers /\ call[c].at \in Nat
  BY CallFields DEF SafetyInv, TypeOK, IngestLastPart, Arrived
<1>2. g \in FrameIDs
  BY <1>1, HeaderFields
<1>3. fs \in FrameRecords
  BY <1>1, FrameOfType DEF SafetyInv, TypeOK
<1>4. fs.status = "pending" /\ Fits(fs, h) /\ Filled(full)
  BY DEF IngestLastPart, Fits
<1>5. Assembling(fs, g)
  BY <1>1, <1>4, FrameOfAssembling DEF SafetyInv
<1>6. /\ full.received = Cardinality(Slots(full.chunks))
      /\ 0 < full.received /\ full.received = full.total
      /\ \A d \in full.chunks :
           d.frameID = g /\ d.totalChunks = full.total /\ d.codec = full.codec
  BY <1>1, <1>3, <1>4, <1>5, StoredAssembling DEF Filled
<1>7. full \in FrameRecords
  BY <1>1, <1>3, StoredType
<1>8. full.chunks \in SUBSET Headers /\ full.total \in Nat
  BY <1>7 DEF FrameRecords
<1>9. Whole(cf, full.total)
  <2>1. Assembled(full.chunks) =
          [i \in 0 .. full.total - 1 |->
             [frameID |-> g, chunkIndex |-> i, totalChunks |-> full.total, codec |-> full.codec]]
    <3>1. full.total = Cardinality(Slots(full.chunks))
      BY <1>6
    <3>2. \A d \in full.chunks :
            d.frameID = g /\ d.totalChunks = full.total /\ d.codec = full.codec
      BY <1>6
    <3>. HIDE <1>a, <1>b, <1>c, <1>d, <1>e
    <3>. QED  BY <1>7, <3>1, <3>2, AssembledWhole
  <2>. QED  BY <1>6, <2>1 DEF Whole
<1>10. /\ frames' = [frames EXCEPT ![g] = Completed(full)]
       /\ call' = [call EXCEPT ![c] = [op |-> "sink", frame |-> cf]]
       /\ deliveries' = deliveries
  BY DEF IngestLastPart
<1>11. /\ frames'[g].status = "complete" /\ frames'[g].chunks = {}
       /\ frames'[g].received = full.total /\ frames'[g].total = full.total
       /\ \A f \in FrameIDs : f # g => frames'[f] = frames[f]
  BY <1>2, <1>6, <1>7, <1>10, CompletedType DEF SafetyInv, TypeOK
<1>12. frames[g].status \in {"absent", "pending"}
  BY <1>4 DEF FrameOf
<1>13. /\ call'[c] = [op |-> "sink", frame |-> cf]
       /\ \A d \in Callers : d # c => call'[d] = call[d]
  BY <1>10 DEF SafetyInv, TypeOK
<1>14. cf.frameID = g
  OBVIOUS
<1>15. deliveries[g] = 0 /\ SinkCalls(g) = {}
  <2>1. IsFiniteSet(SinkCalls(g))
    BY FS_Subset, ReassemblerAssumption DEF SinkCalls
  <2>2. Cardinality(SinkCalls(g)) \in Nat /\ deliveries[g] \in Nat
    BY <1>2, <2>1, FS_CardinalityType DEF SafetyInv, TypeOK
  <2>3. deliveries[g] + Cardinality(SinkCalls(g)) = 0
    BY <1>2, <1>12 DEF SafetyInv, HandedOverOnce
  <2>. QED  BY <2>1, <2>2, <2>3, FS_EmptySet
<1>16. HandedOverOnce'
  <2>1. SinkCalls(g)' = {c}
    BY <1>13, <1>14, <1>15 DEF SinkCalls
  <2>2. \A f \in FrameIDs : f # g => SinkCalls(f)' = SinkCalls(f)
    BY <1>1, <1>13, <1>14 DEF SinkCalls
  <2>3. Cardinality(SinkCalls(g)') = 1
    BY <2>1, FS_Singleton
  <2>. SUFFICES ASSUME NEW f \in FrameIDs
                PROVE  deliveries[f] + Cardinality(SinkCalls(f)') =
                         IF frames'[f].status = "complete" THEN 1 ELSE 0
    BY <1>10 DEF HandedOverOnce
  <2>4. CASE f = g
    BY <2>4, <2>3, <1>11, <1>15
  <2>5. CASE f # g
    BY <2>5, <2>2, <1>11 DEF SafetyInv, HandedOverOnce
  <2>. QED  BY <2>4, <2>5
<1>17. FramesWellFormed'
  <2>1. \A f \in FrameIDs : f # g => (PendingFrame(f)' <=> PendingFrame(f))
    BY <1>11 DEF PendingFrame
  <2>. QED  BY <1>11, <2>1 DEF SafetyInv, FramesWellFormed
<1>18. DeliveredIntact'
  <2>. SUFFICES ASSUME NEW d \in Callers, call'[d].op = "sink"
                PROVE  Whole(call'[d].frame, frames'[call'[d].frame.frameID].total)
    BY DEF DeliveredIntact
  <2>1. CASE d = c
    BY <2>1, <1>9, <1>11, <1>13, <1>14
  <2>2. CASE d # c
    <3>1. call'[d] = call[d] /\ call[d].op = "sink"
      BY <2>2, <1>13
    <3>2. frames'[call[d].frame.frameID] = frames[call[d].frame.frameID]
      BY <3>1, <1>11, <1>12, SinkHoldsComplete
    <3>. QED  BY <3>1, <3>2 DEF SafetyInv, DeliveredIntact
  <2>. QED  BY <2>1, <2>2
<1>. QED  BY <1>16, <1>17, <1>18 DEF SafetyInv

\* The sink returns: the frame it held is delivered.
LEMMA SinkStep ==
  ASSUME SafetyInv, TypeOK', NEW c \in Callers, NEW failed, SinkReturns(c, failed)
  PROVE  SafetyInv'
<1>a. PICK g : g = call[c].frame.frameID
  OBVIOUS
<1>. USE <1>a
<1>1. /\ g \in FrameIDs /\ frames[g].status = "complete"
      /\ deliveries[g] = 0 /\ SinkCalls(g) = {c}
  BY SinkHoldsComplete DEF SinkReturns
<1>2. /\ frames' = frames
      /\ deliveries' = [deliveries EXCEPT ![g] = deliveries[g] + 1]
      /\ call' = [call EXCEPT ![c] = Idle]
  BY DEF SinkReturns, Return, frameVars
<1>3. call'[c].op # "sink" /\ \A d \in Callers : d # c => call'[d] = call[d]
  BY <1>2 DEF SafetyInv, TypeOK, Idle
<1>4. HandedOverOnce'
  <2>1. SinkCalls(g)' = {}
    BY <1>1, <1>3 DEF SinkCalls
  <2>2. \A f \in FrameIDs : f # g => SinkCalls(f)' = SinkCalls(f)
    BY <1>3 DEF SinkCalls
  <2>3. deliveries'[g] = 1 /\ \A f \in FrameIDs : f # g => deliveries'[f] = deliveries[f]
    BY <1>1, <1>2 DEF SafetyInv, TypeOK
  <2>4. Cardinality(SinkCalls(g)') = 0
    BY <2>1, FS_EmptySet
  <2>. SUFFICES ASSUME NEW f \in FrameIDs
                PROVE  deliveries'[f] + Cardinality(SinkCalls(f)') =
                         IF frames[f].status = "complete" THEN 1 ELSE 0
    BY <1>2 DEF HandedOverOnce
  <2>5. CASE f = g
    BY <2>5, <2>3, <2>4, <1>1
  <2>6. CASE f # g
    BY <2>6, <2>2, <2>3 DEF SafetyInv, HandedOverOnce
  <2>. QED  BY <2>5, <2>6
<1>5. FramesWellFormed'
  BY <1>2 DEF SafetyInv, FramesWellFormed, PendingFrame
<1>6. DeliveredIntact'
  BY <1>2, <1>3 DEF SafetyInv, DeliveredIntact
<1>. QED  BY <1>4, <1>5, <1>6 DEF SafetyInv

\* Every step keeps the invariant.
LEMMA SafetyNext == SafetyInv /\ [Next]_vars => SafetyInv'
<1>. SUFFICES ASSUME SafetyInv, [Next]_vars PROVE SafetyInv'
  OBVIOUS
<1>. USE DEF frameVars, endVars, finalVars
<1>1. TypeOK'
  BY TypeNext DEF SafetyInv
<1>2. call \in [Callers -> Calls]
  BY DEF SafetyInv, TypeOK
<1>3. CASE Tick
  BY <1>1, <1>3, QuietStep DEF Tick
<1>4. ASSUME NEW c \in Callers, NEW args, Enter(c, args), args.op # "sink"
      PROVE  SafetyInv'
  <2>1. \A d \in Callers : call'[d] = call[d] \/ (call[d].op # "sink" /\ call'[d].op # "sink")
    BY <1>2, <1>4 DEF Enter, CanCall, Idle
  <2>. QED  BY <1>1, <1>4, <2>1, QuietStep DEF Enter
<1>5. ASSUME NEW c \in Callers, NEW k, NoteRejected(c, k) PROVE SafetyInv'
  BY <1>1, <1>5, QuietStep DEF NoteRejected
<1>6. ASSUME NEW c \in Callers, Return(c), call[c].op # "sink",
             frames' = frames, deliveries' = deliveries
      PROVE  SafetyInv'
  <2>1. \A d \in Callers : call'[d] = call[d] \/ (call[d].op # "sink" /\ call'[d].op # "sink")
    BY <1>2, <1>6 DEF Return, Idle
  <2>. QED  BY <1>1, <1>6, <2>1, QuietStep
<1>7. ASSUME NEW c \in Callers, CallBegins(c) PROVE SafetyInv'
  <2>1. ASSUME NEW h \in Headers, IngestCall(c, h) PROVE SafetyInv'
    BY <1>4, <2>1 DEF IngestCall
  <2>2. ASSUME NEW n \in Claims, MarkEndCall(c, n) PROVE SafetyInv'
    BY <1>4, <2>2 DEF MarkEndCall
  <2>3. CASE ClosedCall(c)
    BY <1>4, <2>3 DEF ClosedCall
  <2>. QED  BY <1>5, <1>7, <2>1, <2>2, <2>3 DEF CallBegins, NoteWrongSession, NoteProtocolError
<1>8. ASSUME NEW c \in Callers, CallProceeds(c) PROVE SafetyInv'
  <2>1. CASE IngestAfterFinalize(c)
    BY <1>6, <2>1 DEF IngestAfterFinalize
  <2>2. CASE IngestLate(c)
    BY <1>6, <2>2 DEF IngestLate, Arrived
  <2>3. CASE IngestMismatch(c)
    BY <1>6, <2>3 DEF IngestMismatch, Arrived
  <2>4. CASE IngestDuplicate(c)
    BY <1>6, <2>4 DEF IngestDuplicate, Arrived
  <2>5. CASE IngestPart(c)
    BY <1>1, <2>5, PartStep
  <2>6. CASE IngestLastPart(c)
    BY <1>1, <2>6, LastPartStep
  <2>7. CASE MarkEnd(c)
    BY <1>6, <2>7 DEF MarkEnd
  <2>8. CASE NoteTransportClosed(c)
    BY <1>6, <2>8 DEF NoteTransportClosed
  <2>9. ASSUME NEW failed \in BOOLEAN, SinkReturns(c, failed) PROVE SafetyInv'
    BY <1>1, <2>9, SinkStep
  <2>. QED  BY <1>8, <2>1, <2>2, <2>3, <2>4, <2>5, <2>6, <2>7, <2>8, <2>9
            DEF CallProceeds, Ingest
<1>9. CASE SweepTick
  BY <1>1, <1>9, QuietStep DEF SweepTick
<1>10. CASE Sweep
  <2>1. PICK S \in SUBSET FrameIDs : S = {f \in FrameIDs : Expired(frames[f], sweeper.now)}
    OBVIOUS
  <2>2. \A f \in S : frames[f].status = "pending"
    BY <2>1 DEF Expired
  <2>3. frames' = [f \in FrameIDs |-> IF f \in S THEN GivenUp(frames[f]) ELSE frames[f]]
    BY <1>10, <2>1 DEF Sweep
  <2>. QED  BY <1>1, <1>10, <2>2, <2>3, GiveUpStep DEF Sweep
<1>11. CASE CheckFinalize
  BY <1>1, <1>11, QuietStep DEF CheckFinalize
<1>12. CASE Finalize
  <2>1. PICK S \in SUBSET FrameIDs : S = {f \in FrameIDs : frames[f].status = "pending"}
    OBVIOUS
  <2>2. frames' = [f \in FrameIDs |-> IF f \in S THEN GivenUp(frames[f]) ELSE frames[f]]
    BY <1>12, <2>1 DEF Finalize, ClosedFrames
  <2>. QED  BY <1>1, <1>12, <2>1, <2>2, GiveUpStep DEF Finalize
<1>13. CASE UNCHANGED vars
  BY <1>1, <1>13, QuietStep DEF vars
<1>. QED
  BY <1>3, <1>7, <1>8, <1>9, <1>10, <1>11, <1>12, <1>13 DEF Next, SweepLoop

LEMMA SafetyInvariant == Spec => []SafetyInv
  BY SafetyInit, SafetyNext, PTL DEF Spec

\* What the slice of chunks, its counter and the frame's total say of each other
\* holds for any number of frames, chunks and callers.
THEOREM FramesStayWellFormed == Spec => []FramesWellFormed
<1>1. SafetyInv => FramesWellFormed
  BY DEF SafetyInv
<1>. QED  BY <1>1, SafetyInvariant, PTL

\* A frame reaches the sink once, and only if it was completed: no interleaving
\* of callers, sweeps, expiry and consolidation hands it over twice or not at all.
THEOREM FramesHandedOverOnce == Spec => []HandedOverOnce
<1>1. SafetyInv => HandedOverOnce
  BY DEF SafetyInv
<1>. QED  BY <1>1, SafetyInvariant, PTL

\* Whatever is lost, duplicated, reordered or inconsistently encoded, a frame
\* that reaches the sink is the whole frame in order, and only that frame.
THEOREM FramesDeliveredIntact == Spec => []DeliveredIntact
<1>1. SafetyInv => DeliveredIntact
  BY DEF SafetyInv
<1>. QED  BY <1>1, SafetyInvariant, PTL

-----------------------------------------------------------------------------
(* The reassembler implements the frame life cycle                          *)

\* The sweep loop is over exactly when the session is closed.
SweeperInv == finalized <=> sweeper.pc = "stopped"

LEMMA SweeperInit == Init => SweeperInv
  BY DEF Init, SweeperInv, Waiting

LEMMA SweeperNext == TypeOK /\ SweeperInv /\ [Next]_vars => SweeperInv'
<1>. SUFFICES ASSUME TypeOK, SweeperInv, [Next]_vars PROVE SweeperInv'
  OBVIOUS
<1>1. CASE UNCHANGED <<finalized, sweeper>>
  BY <1>1 DEF SweeperInv
<1>2. CASE SweepTick
  BY <1>2 DEF SweepTick, SweeperInv, finalVars, Waiting
<1>3. CASE Sweep
  BY <1>3 DEF Sweep, SweeperInv, finalVars, TypeOK, Sweepers
<1>4. CASE CheckFinalize
  BY <1>4 DEF CheckFinalize, SweeperInv, finalVars, TypeOK, Sweepers, Waiting
<1>5. CASE Finalize
  BY <1>5 DEF Finalize, SweeperInv, TypeOK, Sweepers
<1>6. CASE Tick
  BY <1>1, <1>6 DEF Tick, finalVars
<1>7. ASSUME NEW c \in Callers, CallBegins(c) PROVE SweeperInv'
  BY <1>1, <1>7 DEF CallBegins, IngestCall, MarkEndCall, ClosedCall, Enter, NoteWrongSession,
     NoteProtocolError, NoteRejected, finalVars
<1>8. ASSUME NEW c \in Callers, CallProceeds(c) PROVE SweeperInv'
  BY <1>1, <1>8 DEF CallProceeds, Ingest, IngestAfterFinalize, IngestLate, IngestMismatch,
     IngestDuplicate, IngestPart, IngestLastPart, MarkEnd, NoteTransportClosed, SinkReturns, finalVars
<1>9. CASE UNCHANGED vars
  BY <1>1, <1>9 DEF vars, finalVars
<1>. QED  BY <1>2, <1>3, <1>4, <1>5, <1>6, <1>7, <1>8, <1>9 DEF Next, SweepLoop

LEMMA Phases ==
  ASSUME NEW fs
  PROVE  /\ fs.status = "absent"   => PhaseOf(fs) = "none"
         /\ fs.status = "pending"  => PhaseOf(fs) = "assembling"
         /\ fs.status = "complete" => PhaseOf(fs) = "complete"
         /\ fs.status = "timedOut" => PhaseOf(fs) = "partial"
  BY DEF PhaseOf

\* The initial states are initial for the abstract specification.
LEMMA LifecycleInit == Init => Lifecycle!AInit
<1>. SUFFICES ASSUME Init PROVE Lifecycle!AInit
  OBVIOUS
<1>1. \A f \in FrameIDs : PhaseOf(frames[f]) = "none"
  BY Phases DEF Init, Absent, Frame
<1>2. {f \in FrameIDs : deliveries[f] > 0} = {}
  BY DEF Init
<1>. QED  BY <1>1, <1>2 DEF Init, Lifecycle!AInit

\* A step that changes neither the frames, nor the store, nor finalized, stutters.
LEMMA LifecycleStutter ==
  ASSUME frames' = frames, deliveries' = deliveries, finalized' = finalized
  PROVE  UNCHANGED Lifecycle!avars
  BY DEF Lifecycle!avars

\* Frame g alone moves on, before the session closes.
LEMMA LifecycleOneFrame ==
  ASSUME TypeOK, ~finalized, deliveries' = deliveries, finalized' = finalized,
         NEW g \in FrameIDs, NEW fs \in FrameRecords,
         frames' = [frames EXCEPT ![g] = fs],
         frames[g].status \in {"absent", "pending"}, fs.status \in {"pending", "complete"}
  PROVE  [Lifecycle!ANext]_(Lifecycle!avars)
<1>. DEFINE ph  == [f \in FrameIDs |-> PhaseOf(frames[f])]
            php == [f \in FrameIDs |-> PhaseOf(frames'[f])]
<1>1. /\ frames'[g] = fs
      /\ \A f \in FrameIDs : f # g => frames'[f] = frames[f]
  BY DEF TypeOK
<1>2. php = [ph EXCEPT ![g] = PhaseOf(fs)]
  <2>1. \A f \in FrameIDs :
          PhaseOf(frames'[f]) = IF f = g THEN PhaseOf(fs) ELSE PhaseOf(frames[f])
    BY <1>1
  <2>2. [ph EXCEPT ![g] = PhaseOf(fs)] =
          [f \in FrameIDs |-> IF f = g THEN PhaseOf(fs) ELSE PhaseOf(frames[f])]
    OBVIOUS
  <2>. QED  BY <2>1, <2>2
<1>3. CASE frames[g].status = "absent"
  <2>1. ph[g] = "none" /\ PhaseOf(fs) \in {"assembling", "complete"}
    BY <1>3, Phases
  <2>2. Lifecycle!Start(g)
    BY <1>2, <2>1 DEF Lifecycle!Start
  <2>. QED  BY <2>2 DEF Lifecycle!ANext
<1>4. CASE frames[g].status = "pending" /\ fs.status = "complete"
  <2>1. ph[g] = "assembling" /\ PhaseOf(fs) = "complete"
    BY <1>4, Phases
  <2>2. Lifecycle!Complete(g)
    BY <1>2, <2>1 DEF Lifecycle!Complete
  <2>. QED  BY <2>2 DEF Lifecycle!ANext
<1>5. CASE frames[g].status = "pending" /\ fs.status = "pending"
  <2>1. ph[g] = PhaseOf(fs)
    BY <1>5, Phases
  <2>2. php = ph
    BY <1>2, <2>1
  <2>. QED  BY <2>2 DEF Lifecycle!avars
<1>. QED  BY <1>3, <1>4, <1>5

\* The frames of S are given up.
LEMMA GivenUpPhases ==
  ASSUME TypeOK, NEW S \in SUBSET FrameIDs, \A f \in S : frames[f].status = "pending",
         frames' = [f \in FrameIDs |-> IF f \in S THEN GivenUp(frames[f]) ELSE frames[f]]
  PROVE  /\ \A f \in S : PhaseOf(frames[f]) = "assembling" /\ PhaseOf(frames'[f]) = "partial"
         /\ \A f \in FrameIDs : f \notin S => PhaseOf(frames'[f]) = PhaseOf(frames[f])
<1>1. \A f \in S : frames'[f].status = "timedOut"
  BY GivenUpType DEF TypeOK
<1>. QED  BY <1>1, Phases

\* Every step is a step of the frame life cycle or changes nothing of it.
LEMMA LifecycleNext ==
  SafetyInv /\ SafetyInv' /\ SweeperInv /\ [Next]_vars => [Lifecycle!ANext]_(Lifecycle!avars)
<1>. SUFFICES ASSUME SafetyInv, SafetyInv', SweeperInv, [Next]_vars
              PROVE  [Lifecycle!ANext]_(Lifecycle!avars)
  OBVIOUS
<1>. USE DEF frameVars, endVars, finalVars
<1>1. TypeOK
  BY DEF SafetyInv
<1>2. CASE UNCHANGED <<frames, deliveries, finalized>>
  BY <1>2, LifecycleStutter
<1>3. CASE Tick
  BY <1>2, <1>3 DEF Tick
<1>4. ASSUME NEW c \in Callers, CallBegins(c) PROVE [Lifecycle!ANext]_(Lifecycle!avars)
  BY <1>2, <1>4 DEF CallBegins, IngestCall, MarkEndCall, ClosedCall, Enter, NoteWrongSession,
     NoteProtocolError, NoteRejected
<1>5. ASSUME NEW c \in Callers, CallProceeds(c) PROVE [Lifecycle!ANext]_(Lifecycle!avars)
  <2>1. CASE IngestPart(c) \/ IngestLastPart(c)
    <3>a. PICK h, now, fs : h = call[c].h /\ now = call[c].at /\ fs = FrameOf(h, now)
      OBVIOUS
    <3>1. h \in Headers /\ now \in Nat
      BY <1>1, <2>1, <3>a, CallFields DEF TypeOK, IngestPart, IngestLastPart, Arrived
    <3>2. h.frameID \in FrameIDs /\ fs \in FrameRecords
      BY <1>1, <3>a, <3>1, HeaderFields, FrameOfType DEF TypeOK
    <3>3. ~finalized /\ fs.status = "pending"
      BY <2>1, <3>a DEF IngestPart, IngestLastPart, Arrived, Fits
    <3>4. frames[h.frameID].status \in {"absent", "pending"}
      BY <3>a, <3>3 DEF FrameOf
    <3>5. /\ Stored(fs, h) \in FrameRecords /\ Stored(fs, h).status = "pending"
          /\ Completed(Stored(fs, h)) \in FrameRecords
          /\ Completed(Stored(fs, h)).status = "complete"
      BY <3>1, <3>2, <3>3, StoredType, CompletedType
    <3>6. \/ frames' = [frames EXCEPT ![h.frameID] = Stored(fs, h)]
          \/ frames' = [frames EXCEPT ![h.frameID] = Completed(Stored(fs, h))]
      BY <2>1, <3>a DEF IngestPart, IngestLastPart
    <3>7. deliveries' = deliveries /\ finalized' = finalized
      BY <2>1 DEF IngestPart, IngestLastPart
    <3>. QED  BY <1>1, <3>2, <3>3, <3>4, <3>5, <3>6, <3>7, LifecycleOneFrame
  <2>2. ASSUME NEW failed \in BOOLEAN, SinkReturns(c, failed)
        PROVE  [Lifecycle!ANext]_(Lifecycle!avars)
    <3>a. PICK g : g = call[c].frame.frameID
      OBVIOUS
    <3>1. /\ g \in FrameIDs /\ frames[g].status = "complete" /\ deliveries[g] = 0
      BY <2>2, <3>a, SinkHoldsComplete DEF SinkReturns
    <3>2. /\ frames' = frames /\ finalized' = finalized
          /\ deliveries' = [deliveries EXCEPT ![g] = 1]
      BY <2>2, <3>a, <3>1 DEF SinkReturns
    <3>3. {f \in FrameIDs : deliveries'[f] > 0} = {f \in FrameIDs : deliveries[f] > 0} \union {g}
      BY <1>1, <3>1, <3>2 DEF TypeOK
    <3>4. PhaseOf(frames[g]) = "complete"
      BY <3>1, Phases
    <3>5. Lifecycle!HandOver(g)
      BY <3>1, <3>2, <3>3, <3>4 DEF Lifecycle!HandOver
    <3>. QED  BY <3>1, <3>5 DEF Lifecycle!ANext
  <2>3. CASE IngestAfterFinalize(c) \/ IngestLate(c) \/ IngestMismatch(c) \/ IngestDuplicate(c)
              \/ MarkEnd(c) \/ NoteTransportClosed(c)
    BY <1>2, <2>3 DEF IngestAfterFinalize, IngestLate, IngestMismatch, IngestDuplicate,
       MarkEnd, NoteTransportClosed
  <2>. QED  BY <1>5, <2>1, <2>2, <2>3 DEF CallProceeds, Ingest
<1>6. CASE SweepTick
  BY <1>2, <1>6 DEF SweepTick
<1>7. CASE Sweep
  <2>1. PICK S \in SUBSET FrameIDs : S = {f \in FrameIDs : Expired(frames[f], sweeper.now)}
    OBVIOUS
  <2>2. \A f \in S : frames[f].status = "pending"
    BY <2>1 DEF Expired
  <2>3. frames' = [f \in FrameIDs |-> IF f \in S THEN GivenUp(frames[f]) ELSE frames[f]]
    BY <1>7, <2>1 DEF Sweep
  <2>4. ~finalized /\ finalized' = finalized /\ deliveries' = deliveries
    BY <1>7 DEF Sweep, SweeperInv
  <2>5. Lifecycle!Expire(S)
    BY <1>1, <2>2, <2>3, <2>4, GivenUpPhases DEF Lifecycle!Expire
  <2>. QED  BY <2>5 DEF Lifecycle!ANext
<1>8. CASE CheckFinalize
  BY <1>2, <1>8 DEF CheckFinalize
<1>9. CASE Finalize
  <2>1. PICK S \in SUBSET FrameIDs : S = {f \in FrameIDs : frames[f].status = "pending"}
    OBVIOUS
  <2>2. frames' = [f \in FrameIDs |-> IF f \in S THEN GivenUp(frames[f]) ELSE frames[f]]
    BY <1>9, <2>1 DEF Finalize, ClosedFrames
  <2>3. ~finalized /\ finalized' /\ deliveries' = deliveries
    BY <1>9 DEF Finalize, SweeperInv
  <2>4. \A f \in FrameIDs : f \notin S => PhaseOf(frames[f]) # "assembling"
    BY <1>1, <2>1, Phases DEF TypeOK, FrameRecords, Statuses
  <2>5. Lifecycle!Close
    BY <1>1, <2>1, <2>2, <2>3, <2>4, GivenUpPhases DEF Lifecycle!Close
  <2>. QED  BY <2>5 DEF Lifecycle!ANext
<1>10. CASE UNCHANGED vars
  BY <1>2, <1>10 DEF vars
<1>. QED  BY <1>3, <1>4, <1>5, <1>6, <1>7, <1>8, <1>9, <1>10 DEF Next, SweepLoop

\* The reassembler implements FrameLifecycle: each frame is decided once, handed
\* over once, and fixed when the session's report is.
THEOREM ImplementsLifecycle == Spec => FrameLifecycleImplemented
<1>1. Init => SweeperInv
  BY SweeperInit
<1>2. SafetyInv => TypeOK
  BY DEF SafetyInv
<1>. QED
  BY <1>1, <1>2, SweeperNext, SafetyInvariant, LifecycleInit, LifecycleNext, PTL
     DEF Spec, FrameLifecycleImplemented, Lifecycle!ASpec
=============================================================================
