---------------------------- MODULE Reassembler ----------------------------
(***************************************************************************)
(* backend/internal/reassembler: one instance per capture session.  It      *)
(* rebuilds frames from chunks that arrive lost, reordered and duplicated.  *)
(* Its callers run concurrently: the read loops of the session's transports *)
(* and the HTTP handlers (Callers), and the sweep loop of the session.      *)
(*                                                                          *)
(* The unit of atomicity is a critical section of r.mu.  What the code does *)
(* outside it is a step of its own: reading the clock before the lock is    *)
(* taken, and the call of the sink after it is released.                    *)
(*                                                                          *)
(* A chunk's payload is identified with its header, so that the model can   *)
(* tell which chunks a delivered frame was built from.                      *)
(***************************************************************************)
EXTENDS Integers, Sequences, FiniteSets

CONSTANTS
  FrameIDs,      \* frame identifiers that datagrams may carry
  MaxTotal,      \* most chunks a frame is cut into
  Codecs,        \* image codecs
  Claims,        \* values of framesSent in END_OF_CAPTURE and client-stats
  Callers,       \* transport read loops and HTTP handler threads
  FrameTimeout, EndGrace, IdleTimeout,   \* Config, in units of model time
  MaxDatagrams,  \* bound: chunks and malformed datagrams in a behaviour
  Horizon,       \* bound: no call starts after this time
  MaxClock       \* bound: last value of the clock

ASSUME ReassemblerAssumption ==
  /\ FrameIDs \subseteq Nat /\ IsFiniteSet(FrameIDs) /\ IsFiniteSet(Callers)
  /\ MaxTotal \in Nat
  /\ Claims \subseteq Int
  /\ {FrameTimeout, EndGrace, IdleTimeout, MaxDatagrams, Horizon, MaxClock} \subseteq Nat

VARIABLES
  clock,
  frames,           \* frameID -> frameState; "absent" is a missing map entry
  count,            \* the chunk and error counters
  firstChunkAt, lastChunkAt, lastCompletedAt,
  latencies,
  endMarked, endAt, framesSentClaim, closedAt,
  finalized, finalReport,
  call,             \* what each caller is doing
  sweeper,          \* the session's sweep loop
  deliveries,       \* frameID -> returns of the sink, the store's side
  arrivals          \* datagrams the callers have taken from their transports

frameVars == <<frames, firstChunkAt, lastChunkAt, lastCompletedAt, latencies>>
endVars   == <<endMarked, endAt, framesSentClaim, closedAt>>
finalVars == <<finalized, finalReport>>
vars == <<clock, frameVars, count, endVars, finalVars, call, sweeper, deliveries, arrivals>>

-----------------------------------------------------------------------------
(* Data                                                                     *)

Never == -1     \* the zero time.Time
Time  == Nat \union {Never}

\* A header as DecodeChunk lets it through: the index is below the total.
Headers ==
  {h \in [frameID : FrameIDs, chunkIndex : 0 .. MaxTotal - 1,
          totalChunks : 1 .. MaxTotal, codec : Codecs] :
     h.chunkIndex < h.totalChunks}

Statuses == {"absent", "pending", "complete", "timedOut"}

\* chunks holds the chunks stored so far, each in the slot of its index.
Frame(status, chunks, received, total, codec, at) ==
  [status |-> status, chunks |-> chunks, received |-> received,
   total |-> total, codec |-> codec, firstChunkAt |-> at]

NoCodec == "none"
Absent  == Frame("absent", {}, 0, 0, NoCodec, Never)

Slots(chunks) == {c.chunkIndex : c \in chunks}

Counters == {"chunksReceived", "chunksDuplicate", "chunksLate",
             "chunksWrongSession", "protocolErrors", "decodeErrors"}

\* The counters of S go up by one.
Bump(S) == count' = [k \in Counters |-> IF k \in S THEN count[k] + 1 ELSE count[k]]

Idle == [op |-> "idle"]

FrameRecords ==
  [status : Statuses, chunks : SUBSET Headers, received : Nat, total : Nat,
   codec : Codecs \union {NoCodec}, firstChunkAt : Time]

\* The argument of OnFrameComplete: which chunk ended up at each position.
CompleteFrames ==
  [frameID : FrameIDs, codec : Codecs \union {NoCodec},
   data : UNION {[D -> Headers] : D \in SUBSET (0 .. MaxTotal - 1)},
   firstChunkAt : Time, completedAt : Nat]

Calls ==
  {Idle}
  \union [op : {"ingest"}, h : Headers, at : Nat]
  \union [op : {"markEnd"}, framesSent : Claims, at : Nat]
  \union [op : {"closed"}, at : Nat]
  \union [op : {"sink"}, frame : CompleteFrames]

SweepSteps == {"wait", "sweep", "check", "finalize", "stopped"}

\* What the sweep loop remembers: last is the time of the last chunk it decided
\* by, recorded for GraceHonoured and read by no step.
Sweepers == [pc : SweepSteps, now : Time, last : Time]
Waiting  == [pc |-> "wait", now |-> Never, last |-> Never]

KnownFrames     == {f \in FrameIDs : frames[f].status # "absent"}
FramesIn(status) == {f \in FrameIDs : frames[f].status = status}

-----------------------------------------------------------------------------
(* The report                                                               *)

\* The nearest-rank percentile: the value at index rank of the sorted samples.
NearestRank(lat, pct) ==
  LET n    == Len(lat)
      raw  == (n * pct + 50) \div 100 - 1
      rank == IF raw < 0 THEN 0 ELSE IF raw >= n THEN n - 1 ELSE raw
      Below(v)   == Cardinality({i \in 1 .. n : lat[i] < v})
      UpTo(v)    == Cardinality({i \in 1 .. n : lat[i] <= v})
  IN  IF n = 0 THEN 0
      ELSE CHOOSE v \in {lat[i] : i \in 1 .. n} : Below(v) <= rank /\ rank < UpTo(v)

\* The largest frame identifier seen, -1 without frames.
MaxFrameID ==
  IF KnownFrames = {} THEN -1
  ELSE CHOOSE m \in KnownFrames : \A f \in KnownFrames : f <= m

\* The client's claim; without one, as many as the largest identifier implies.
FramesExpected ==
  IF framesSentClaim = 0 /\ MaxFrameID >= 0 THEN MaxFrameID + 1 ELSE framesSentClaim

ZeroReport ==
  [framesExpected |-> 0, framesComplete |-> 0, framesPartial |-> 0,
   framesLost |-> 0, partials |-> {}, counters |-> [k \in Counters |-> 0],
   total |-> 0, latencyP50 |-> 0, latencyP95 |-> 0, framesSentByClient |-> 0]

\* buildReportLocked, over the frames that were complete or partial at closing.
BuildReport(complete, partial) ==
  LET lost == FramesExpected - Cardinality(complete) - Cardinality(partial)
  IN  [framesExpected |-> FramesExpected,
       framesComplete |-> Cardinality(complete),
       framesPartial  |-> Cardinality(partial),
       framesLost     |-> IF lost > 0 THEN lost ELSE 0,
       partials       |-> {<<f, frames[f].received, frames[f].total>> : f \in partial},
       counters       |-> count,
       total          |-> IF firstChunkAt # Never /\ lastCompletedAt # Never
                            THEN lastCompletedAt - firstChunkAt ELSE 0,
       latencyP50     |-> NearestRank(latencies, 50),
       latencyP95     |-> NearestRank(latencies, 95),
       framesSentByClient |-> framesSentClaim]

-----------------------------------------------------------------------------
(* Calls begin: the caller has a message and reads the clock                *)

Init ==
  /\ clock = 0
  /\ frames = [f \in FrameIDs |-> Absent]
  /\ count = [k \in Counters |-> 0]
  /\ firstChunkAt = Never /\ lastChunkAt = Never /\ lastCompletedAt = Never
  /\ latencies = <<>>
  /\ endMarked = FALSE /\ endAt = Never /\ framesSentClaim = 0 /\ closedAt = Never
  /\ finalized = FALSE /\ finalReport = ZeroReport
  /\ call = [c \in Callers |-> Idle]
  /\ sweeper = Waiting
  /\ deliveries = [f \in FrameIDs |-> 0]
  /\ arrivals = 0

Tick ==
  /\ clock < MaxClock
  /\ clock' = clock + 1
  /\ UNCHANGED <<frameVars, count, endVars, finalVars, call, sweeper, deliveries, arrivals>>

CanCall(c) == call[c] = Idle /\ clock <= Horizon

\* The caller enters a method with these arguments and reads r.clock().
Enter(c, args) ==
  /\ CanCall(c)
  /\ call' = [call EXCEPT ![c] = args]
  /\ UNCHANGED <<clock, frameVars, count, endVars, finalVars, sweeper, deliveries>>

IngestCall(c, h) ==
  /\ arrivals < MaxDatagrams
  /\ Enter(c, [op |-> "ingest", h |-> h, at |-> clock])
  /\ arrivals' = arrivals + 1

MarkEndCall(c, framesSent) ==
  /\ Enter(c, [op |-> "markEnd", framesSent |-> framesSent, at |-> clock])
  /\ UNCHANGED arrivals

ClosedCall(c) ==
  /\ Enter(c, [op |-> "closed", at |-> clock])
  /\ UNCHANGED arrivals

-----------------------------------------------------------------------------
(* Ingest, under the mutex                                                  *)

Return(c) == call' = [call EXCEPT ![c] = Idle]

\* The frame a chunk belongs to: the one in the map, or a new one.
FrameOf(h, now) ==
  IF frames[h.frameID].status = "absent"
    THEN Frame("pending", {}, 0, h.totalChunks, h.codec, now)
    ELSE frames[h.frameID]

SameEncoding_IgnoresCodec(fs, h) == h.totalChunks = fs.total
SameEncoding(fs, h) == h.totalChunks = fs.total /\ h.codec = fs.codec

SlotTaken(fs, h) == h.chunkIndex \in Slots(fs.chunks)

FirstSeen_Restarts(at) == at
FirstSeen(at) == IF firstChunkAt = Never THEN at ELSE firstChunkAt

Arrived_AlsoFinalized(c) ==
  /\ call[c].op = "ingest"
  /\ firstChunkAt' = FirstSeen(call[c].at)
  /\ lastChunkAt' = call[c].at

\* A chunk is taken in: the session's first and last chunk times.
Arrived(c) ==
  /\ call[c].op = "ingest"
  /\ ~finalized
  /\ firstChunkAt' = FirstSeen(call[c].at)
  /\ lastChunkAt' = call[c].at

IngestAfterFinalize_Uncounted(c) ==
  /\ call[c].op = "ingest"
  /\ finalized
  /\ Return(c)
  /\ UNCHANGED <<clock, frameVars, count, endVars, finalVars, sweeper, deliveries, arrivals>>

\* The session's report is already fixed.
IngestAfterFinalize(c) ==
  /\ call[c].op = "ingest"
  /\ finalized
  /\ Bump({"chunksLate"})
  /\ Return(c)
  /\ UNCHANGED <<clock, frameVars, endVars, finalVars, sweeper, deliveries, arrivals>>

\* The frame was completed or given up before this chunk came.
IngestLate(c) ==
  /\ Arrived(c)
  /\ FrameOf(call[c].h, call[c].at).status # "pending"
  /\ Bump({"chunksReceived", "chunksLate"})
  /\ Return(c)
  /\ UNCHANGED <<clock, frames, lastCompletedAt, latencies, endVars, finalVars,
                 sweeper, deliveries, arrivals>>

\* The chunk disagrees with the frame's first chunk about how it was encoded.
IngestMismatch(c) ==
  /\ Arrived(c)
  /\ LET fs == FrameOf(call[c].h, call[c].at)
     IN  fs.status = "pending" /\ ~SameEncoding(fs, call[c].h)
  /\ Bump({"chunksReceived", "protocolErrors"})
  /\ Return(c)
  /\ UNCHANGED <<clock, frames, lastCompletedAt, latencies, endVars, finalVars,
                 sweeper, deliveries, arrivals>>

IngestDuplicate(c) ==
  /\ Arrived(c)
  /\ LET fs == FrameOf(call[c].h, call[c].at)
     IN  /\ fs.status = "pending"
         /\ SameEncoding(fs, call[c].h)
         /\ SlotTaken(fs, call[c].h)
  /\ Bump({"chunksReceived", "chunksDuplicate"})
  /\ Return(c)
  /\ UNCHANGED <<clock, frames, lastCompletedAt, latencies, endVars, finalVars,
                 sweeper, deliveries, arrivals>>

\* The chunk goes into its empty slot of a pending frame.
Fits(fs, h) == fs.status = "pending" /\ SameEncoding(fs, h) /\ ~SlotTaken(fs, h)

Stored(fs, h) ==
  Frame(fs.status, fs.chunks \union {h}, fs.received + 1, fs.total, fs.codec, fs.firstChunkAt)

Filled(fs) == fs.received = fs.total

IngestPart(c) ==
  LET h  == call[c].h
      fs == FrameOf(h, call[c].at)
  IN  /\ Arrived(c)
      /\ Fits(fs, h)
      /\ ~Filled(Stored(fs, h))
      /\ frames' = [frames EXCEPT ![h.frameID] = Stored(fs, h)]
      /\ Bump({"chunksReceived"})
      /\ Return(c)
      /\ UNCHANGED <<clock, lastCompletedAt, latencies, endVars, finalVars,
                     sweeper, deliveries, arrivals>>

\* What Ingest concatenates: the chunks in the order of their slots, an empty
\* slot contributing nothing.
Assembled(chunks) ==
  [i \in Slots(chunks) |-> CHOOSE c \in chunks : c.chunkIndex = i]

\* Its buffers are released: the sink gets a copy.
Completed(fs) == [fs EXCEPT !.status = "complete", !.chunks = {}]

\* The last slot is filled: the frame is complete, and the caller leaves the
\* mutex to call the sink.
IngestLastPart(c) ==
  LET h    == call[c].h
      now  == call[c].at
      full == Stored(FrameOf(h, now), h)
  IN  /\ Arrived(c)
      /\ Fits(FrameOf(h, now), h)
      /\ Filled(full)
      /\ frames' = [frames EXCEPT ![h.frameID] = Completed(full)]
      /\ latencies' = Append(latencies, now - full.firstChunkAt)
      /\ lastCompletedAt' = now
      /\ Bump({"chunksReceived"})
      /\ call' = [call EXCEPT ![c] =
                    [op |-> "sink",
                     frame |-> [frameID |-> h.frameID, codec |-> full.codec,
                                data |-> Assembled(full.chunks),
                                firstChunkAt |-> full.firstChunkAt,
                                completedAt |-> now]]]
      /\ UNCHANGED <<clock, endVars, finalVars, sweeper, deliveries, arrivals>>

\* OnFrameComplete returns; a decoding error is counted under the mutex, again
\* whether or not the session was finalized meanwhile.
SinkReturns(c, failed) ==
  /\ call[c].op = "sink"
  /\ deliveries' = [deliveries EXCEPT ![call[c].frame.frameID] = @ + 1]
  /\ Bump(IF failed THEN {"decodeErrors"} ELSE {})
  /\ Return(c)
  /\ UNCHANGED <<clock, frameVars, endVars, finalVars, sweeper, arrivals>>

-----------------------------------------------------------------------------
(* The other methods of the callers                                         *)

\* A datagram the transport rejects: it belongs to another session, or it does
\* not decode.  It is counted even after the session was finalized.
NoteRejected(c, counter) ==
  /\ CanCall(c)
  /\ arrivals < MaxDatagrams
  /\ arrivals' = arrivals + 1
  /\ Bump({counter})
  /\ UNCHANGED <<clock, frameVars, endVars, finalVars, call, sweeper, deliveries>>

NoteWrongSession(c)  == NoteRejected(c, "chunksWrongSession")
NoteProtocolError(c) == NoteRejected(c, "protocolErrors")

MarkEnd_Restarts(c) ==
  /\ call[c].op = "markEnd"
  /\ framesSentClaim' = IF framesSentClaim = 0 /\ call[c].framesSent > 0
                          THEN call[c].framesSent ELSE framesSentClaim
  /\ endMarked' = TRUE /\ endAt' = call[c].at
  /\ Return(c)
  /\ UNCHANGED <<clock, frameVars, count, closedAt, finalVars, sweeper, deliveries, arrivals>>

\* The first positive claim is kept; the first END starts the grace period.
MarkEnd(c) ==
  /\ call[c].op = "markEnd"
  /\ framesSentClaim' = IF framesSentClaim = 0 /\ call[c].framesSent > 0
                          THEN call[c].framesSent ELSE framesSentClaim
  /\ IF endMarked THEN UNCHANGED <<endMarked, endAt>>
     ELSE endMarked' = TRUE /\ endAt' = call[c].at
  /\ Return(c)
  /\ UNCHANGED <<clock, frameVars, count, closedAt, finalVars, sweeper, deliveries, arrivals>>

NoteTransportClosed(c) ==
  /\ call[c].op = "closed"
  /\ closedAt' = IF closedAt = Never THEN call[c].at ELSE closedAt
  /\ Return(c)
  /\ UNCHANGED <<clock, frameVars, count, endMarked, endAt, framesSentClaim,
                 finalVars, sweeper, deliveries, arrivals>>

-----------------------------------------------------------------------------
(* The sweep loop: Sweep, ShouldFinalize and Finalize are three critical    *)
(* sections, and the first two use a clock read before either.              *)

SweepTick ==
  /\ sweeper.pc = "wait"
  /\ sweeper' = [Waiting EXCEPT !.pc = "sweep", !.now = clock]
  /\ UNCHANGED <<clock, frameVars, count, endVars, finalVars, call, deliveries, arrivals>>

Expired_AnyStatus(fs, now) == now - fs.firstChunkAt > FrameTimeout
Expired(fs, now) == fs.status = "pending" /\ now - fs.firstChunkAt > FrameTimeout

GivenUp(fs) == [fs EXCEPT !.status = "timedOut", !.chunks = {}]

Sweep ==
  /\ sweeper.pc = "sweep"
  /\ frames' = [f \in FrameIDs |->
                  IF Expired(frames[f], sweeper.now) THEN GivenUp(frames[f]) ELSE frames[f]]
  /\ sweeper' = [sweeper EXCEPT !.pc = "check"]
  /\ UNCHANGED <<clock, count, firstChunkAt, lastChunkAt, lastCompletedAt, latencies,
                 endVars, finalVars, call, deliveries, arrivals>>

ShouldFinalize(now) ==
  /\ ~finalized
  /\ \/ endMarked /\ now - endAt >= EndGrace
     \/ closedAt # Never /\ now - closedAt >= EndGrace
     \/ lastChunkAt # Never /\ now - lastChunkAt >= IdleTimeout

CheckFinalize ==
  /\ sweeper.pc = "check"
  /\ sweeper' = IF ShouldFinalize(sweeper.now)
                  THEN [sweeper EXCEPT !.pc = "finalize", !.last = lastChunkAt]
                  ELSE Waiting
  /\ UNCHANGED <<clock, frameVars, count, endVars, finalVars, call, deliveries, arrivals>>

ClosedFrames_KeepsPending == frames

\* Pending frames become partial when the session closes.
ClosedFrames ==
  [f \in FrameIDs |-> IF frames[f].status = "pending" THEN GivenUp(frames[f]) ELSE frames[f]]

\* Finalize; the sweep loop ends after it.
Finalize ==
  /\ sweeper.pc = "finalize"
  /\ frames' = ClosedFrames
  /\ finalReport' = BuildReport({f \in FrameIDs : ClosedFrames[f].status = "complete"},
                                {f \in FrameIDs : ClosedFrames[f].status = "timedOut"})
  /\ finalized' = TRUE
  /\ sweeper' = [sweeper EXCEPT !.pc = "stopped"]
  /\ UNCHANGED <<clock, count, firstChunkAt, lastChunkAt, lastCompletedAt, latencies,
                 endVars, call, deliveries, arrivals>>

-----------------------------------------------------------------------------

Ingest(c) ==
  \/ IngestAfterFinalize(c) \/ IngestLate(c) \/ IngestMismatch(c)
  \/ IngestDuplicate(c) \/ IngestPart(c) \/ IngestLastPart(c)

CallBegins(c) ==
  \/ \E h \in Headers : IngestCall(c, h)
  \/ \E n \in Claims : MarkEndCall(c, n)
  \/ ClosedCall(c)
  \/ NoteWrongSession(c) \/ NoteProtocolError(c)

CallProceeds(c) ==
  \/ Ingest(c) \/ MarkEnd(c) \/ NoteTransportClosed(c)
  \/ \E failed \in BOOLEAN : SinkReturns(c, failed)

SweepLoop == SweepTick \/ Sweep \/ CheckFinalize \/ Finalize

Next ==
  \/ Tick
  \/ \E c \in Callers : CallBegins(c) \/ CallProceeds(c)
  \/ SweepLoop

Spec == Init /\ [][Next]_vars

-----------------------------------------------------------------------------
(* Invariants                                                               *)

SinkCalls(f) == {c \in Callers : call[c].op = "sink" /\ call[c].frame.frameID = f}

\* Every variable keeps its type.
TypeOK ==
  /\ clock \in Nat /\ arrivals \in Nat
  /\ frames \in [FrameIDs -> FrameRecords]
  /\ count \in [Counters -> Nat]
  /\ {firstChunkAt, lastChunkAt, lastCompletedAt, endAt, closedAt} \subseteq Time
  /\ latencies \in Seq(Int)
  /\ endMarked \in BOOLEAN /\ finalized \in BOOLEAN /\ framesSentClaim \in Int
  /\ finalReport.counters \in [Counters -> Nat]
  /\ finalReport.framesSentByClient \in Int
  /\ call \in [Callers -> Calls]
  /\ sweeper \in Sweepers
  /\ deliveries \in [FrameIDs -> Nat]

\* A frame in assembly.  What the slice of chunks, its counter and the frame's
\* total say of each other (frameState): received counts the filled slots, each
\* slot holds the chunk of its index, of this frame and of the encoding its
\* first chunk announced, and at least one slot is empty.
PendingFrame(f) ==
  LET fs == frames[f]
  IN  /\ fs.received = Cardinality(Slots(fs.chunks))
      /\ 0 < fs.received /\ fs.received < fs.total
      /\ \A c \in fs.chunks :
           c.frameID = f /\ c.totalChunks = fs.total /\ c.codec = fs.codec
      /\ \A c, d \in fs.chunks : c.chunkIndex = d.chunkIndex => c = d

\* Buffers are held only while a frame is pending ("nil tras COMPLETE/TIMED_OUT"),
\* a complete frame had every chunk, a partial one lacked some.
FramesWellFormed ==
  \A f \in FrameIDs :
    /\ frames[f].status = "pending" => PendingFrame(f)
    /\ frames[f].status # "pending" => frames[f].chunks = {}
    /\ frames[f].status = "complete" => frames[f].received = frames[f].total
    /\ frames[f].status = "timedOut" => frames[f].received < frames[f].total

\* A complete frame is given to the sink exactly once, although the sink runs
\* outside the mutex and other callers and the sweep loop go on meanwhile
\* ("entregado al sink exactamente una vez"); no other frame ever is.
HandedOverOnce ==
  \A f \in FrameIDs :
    deliveries[f] + Cardinality(SinkCalls(f)) = IF frames[f].status = "complete" THEN 1 ELSE 0

\* The whole frame of n chunks, in order.
Whole(cf, n) ==
  /\ n > 0
  /\ cf.data = [i \in 0 .. n - 1 |->
                  [frameID |-> cf.frameID, chunkIndex |-> i, totalChunks |-> n, codec |-> cf.codec]]

\* What the sink receives is the frame's chunks in order, none missing, none of
\* another frame or of another encoding of it.
DeliveredIntact ==
  \A c \in Callers : call[c].op = "sink" =>
    Whole(call[c].frame, frames[call[c].frame.frameID].total)

\* The chunks held or already used, one pair for each filled slot.
StoredChunks == {p \in FrameIDs \X (1 .. MaxTotal) : p[2] <= frames[p[1]].received}

ChunksInHand == {c \in Callers : call[c].op = "ingest"}

\* Conservation: each datagram taken from a transport is stored in a frame or
\* counted by exactly one of duplicate, late, wrong session and protocol error,
\* whichever way Ingest returns; nothing is dropped silently or counted twice.
EveryDatagramAccounted ==
  arrivals = Cardinality(ChunksInHand) + Cardinality(StoredChunks)
             + count["chunksDuplicate"] + count["chunksLate"]
             + count["chunksWrongSession"] + count["protocolErrors"]

\* The report's frame figures agree with each other and with the frames: every
\* frame seen is complete or partial, no expected frame is unexplained, and
\* without a claim the lost frames are the identifiers below the largest one
\* that no chunk ever mentioned.
ReportAddsUp ==
  finalized =>
    LET r == finalReport
    IN  /\ r.framesComplete = Cardinality(FramesIn("complete"))
        /\ r.framesComplete + r.framesPartial = Cardinality(KnownFrames)
        /\ r.framesExpected <= r.framesComplete + r.framesPartial + r.framesLost
        /\ r.framesLost > 0 =>
             r.framesExpected = r.framesComplete + r.framesPartial + r.framesLost
        /\ r.framesSentByClient = 0 =>
             r.framesLost = Cardinality((0 .. MaxFrameID) \ KnownFrames)
        /\ Cardinality(r.partials) = r.framesPartial
        /\ \A p \in r.partials : 0 < p[2] /\ p[2] < p[3]

\* The report's times are coherent when one read loop feeds the session: no
\* negative latency, the median below the 95th percentile, and neither above
\* the time from the first chunk to the last frame completed.
ReportTimesCoherent ==
  finalized =>
    /\ 0 <= finalReport.latencyP50
    /\ finalReport.latencyP50 <= finalReport.latencyP95
    /\ finalReport.latencyP95 <= finalReport.total

-----------------------------------------------------------------------------
(* Action properties                                                        *)

\* The session closes only if, when the sweep loop read its clock, a full
\* EndGrace had passed since END or since the transport's close, as they stand
\* at the closing, or a full IdleTimeout since the last chunk it decided by.
\* The decision and the closing are two critical sections: another END, another
\* close and chunks slip in between and must not leave the session closed
\* without the wait it was closed for.
GraceHonoured ==
  [][finalized' /\ ~finalized =>
       \/ endMarked /\ sweeper.now - endAt >= EndGrace
       \/ closedAt # Never /\ sweeper.now - closedAt >= EndGrace
       \/ sweeper.last # Never /\ sweeper.now - sweeper.last >= IdleTimeout]_vars

\* A late call only counts.  Once the session is closed the report stays what it
\* was and so do the frames, their times and latencies, the chunks taken in and
\* the duplicates among them; a claim, an END and a close that were in are not
\* replaced.  What may still change, and is then not in the report: the counters
\* of late and rejected datagrams and of decoding errors, and a first claim, END
\* or close that comes too late.
ClosedSessionIsFrozen ==
  [][finalized =>
       /\ UNCHANGED <<frameVars, finalVars>>
       /\ \A k \in {"chunksReceived", "chunksDuplicate"} : count'[k] = count[k]
       /\ framesSentClaim # 0 => framesSentClaim' = framesSentClaim
       /\ endMarked => UNCHANGED <<endMarked, endAt>>
       /\ closedAt # Never => closedAt' = closedAt]_vars

-----------------------------------------------------------------------------
(* The reassembler implements the frame life cycle                          *)

PhaseOf(fs) ==
  CASE fs.status = "absent"   -> "none"
    [] fs.status = "pending"  -> "assembling"
    [] fs.status = "complete" -> "complete"
    [] fs.status = "timedOut" -> "partial"

Lifecycle == INSTANCE FrameLifecycle WITH
  phase  <- [f \in FrameIDs |-> PhaseOf(frames[f])],
  handed <- {f \in FrameIDs : deliveries[f] > 0},
  closed <- finalized

\* Each frame is decided once, handed over once, and fixed when the session is.
FrameLifecycleImplemented == Lifecycle!ASpec
=============================================================================
