---------------------- MODULE ReassemblerReportProofs ----------------------
(***************************************************************************)
(* More theorems of Reassembler, for every value of its constants: what     *)
(* becomes of the datagrams, when the session closes, and the report.       *)
(***************************************************************************)
EXTENDS ReassemblerProofs

-----------------------------------------------------------------------------
(* The sweep loop is over when the session is closed                        *)

\* The invariant of the refinement proof, as one of the specification.
LEMMA SweeperInvariant == Spec => [](SafetyInv /\ SweeperInv)
<1>1. SafetyInv => TypeOK
  BY DEF SafetyInv
<1>. QED  BY <1>1, SafetyInvariant, SweeperInit, SweeperNext, PTL DEF Spec

\* The steps that touch the frames, the times, the latencies or the report, and
\* what each of them does to the rest.
LEMMA ClosedStep ==
  ASSUME SweeperInv, finalized, [Next]_vars
  PROVE  UNCHANGED <<frameVars, finalVars>>
<1>1. sweeper.pc = "stopped"
  BY DEF SweeperInv
<1>2. CASE Tick
  BY <1>2 DEF Tick
<1>3. ASSUME NEW c \in Callers, CallBegins(c)
      PROVE  UNCHANGED <<frameVars, finalVars>>
  BY <1>3 DEF CallBegins, IngestCall, MarkEndCall, ClosedCall, Enter, NoteWrongSession,
     NoteProtocolError, NoteRejected
<1>4. ASSUME NEW c \in Callers, CallProceeds(c)
      PROVE  UNCHANGED <<frameVars, finalVars>>
  <2>1. ~Arrived(c)
    BY DEF Arrived
  <2>. QED  BY <1>4, <2>1 DEF CallProceeds, Ingest, IngestAfterFinalize, IngestLate,
            IngestMismatch, IngestDuplicate, IngestPart, IngestLastPart, MarkEnd,
            NoteTransportClosed, SinkReturns
<1>5. CASE SweepLoop
  BY <1>1, <1>5 DEF SweepLoop, SweepTick, Sweep, CheckFinalize, Finalize
<1>6. CASE UNCHANGED vars
  BY <1>6 DEF vars, frameVars, finalVars
<1>. QED  BY <1>2, <1>3, <1>4, <1>5, <1>6 DEF Next

\* Only Finalize closes the session.
LEMMA OnlyFinalizeCloses ==
  ASSUME [Next]_vars, ~finalized, finalized'
  PROVE  Finalize
<1>1. CASE UNCHANGED finalized
  BY <1>1
<1>2. ASSUME NEW c \in Callers, CallBegins(c) \/ CallProceeds(c)
      PROVE  UNCHANGED finalized
  BY <1>2 DEF CallBegins, IngestCall, MarkEndCall, ClosedCall, Enter, NoteWrongSession,
     NoteProtocolError, NoteRejected, CallProceeds, Ingest, IngestAfterFinalize, IngestLate,
     IngestMismatch, IngestDuplicate, IngestPart, IngestLastPart, MarkEnd,
     NoteTransportClosed, SinkReturns, finalVars
<1>. QED  BY <1>1, <1>2 DEF Next, Tick, SweepLoop, SweepTick, Sweep, CheckFinalize, vars, finalVars

\* A late call leaves these counters alone, and what was said of the end.
LEMMA ClosedCounts ==
  ASSUME SafetyInv, SweeperInv, finalized, [Next]_vars
  PROVE  /\ \A k \in {"chunksReceived", "chunksDuplicate"} : count'[k] = count[k]
         /\ framesSentClaim # 0 => framesSentClaim' = framesSentClaim
         /\ endMarked => UNCHANGED <<endMarked, endAt>>
         /\ closedAt # Never => closedAt' = closedAt
<1>. DEFINE Kept == /\ \A k \in {"chunksReceived", "chunksDuplicate"} : count'[k] = count[k]
                    /\ framesSentClaim # 0 => framesSentClaim' = framesSentClaim
                    /\ endMarked => UNCHANGED <<endMarked, endAt>>
                    /\ closedAt # Never => closedAt' = closedAt
<1>1. CASE UNCHANGED <<count, endVars>>
  BY <1>1 DEF endVars
<1>2. ASSUME NEW S, Bump(S), S \intersect {"chunksReceived", "chunksDuplicate"} = {},
             UNCHANGED endVars
      PROVE  Kept
  BY <1>2 DEF Bump, Counters, endVars
<1>3. sweeper.pc = "stopped"
  BY DEF SweeperInv
<1>4. ASSUME NEW c \in Callers, CallBegins(c)
      PROVE  Kept
  <2>1. CASE UNCHANGED <<count, endVars>>
    BY <1>1, <2>1
  <2>2. CASE NoteWrongSession(c)
    BY <1>2, <2>2 DEF NoteWrongSession, NoteRejected
  <2>3. CASE NoteProtocolError(c)
    BY <1>2, <2>3 DEF NoteProtocolError, NoteRejected
  <2>. QED  BY <1>4, <2>1, <2>2, <2>3 DEF CallBegins, IngestCall, MarkEndCall, ClosedCall, Enter
<1>5. ASSUME NEW c \in Callers, CallProceeds(c)
      PROVE  Kept
  <2>1. CASE IngestAfterFinalize(c)
    BY <1>2, <2>1 DEF IngestAfterFinalize
  <2>2. CASE Ingest(c) /\ ~IngestAfterFinalize(c)
    BY <2>2 DEF Ingest, IngestLate, IngestMismatch, IngestDuplicate, IngestPart,
       IngestLastPart, Arrived
  <2>3. CASE MarkEnd(c)
    BY <2>3 DEF MarkEnd
  <2>4. CASE NoteTransportClosed(c)
    BY <2>4 DEF NoteTransportClosed
  <2>5. ASSUME NEW failed \in BOOLEAN, SinkReturns(c, failed)
        PROVE  Kept
    BY <1>2, <2>5 DEF SinkReturns
  <2>. QED  BY <1>5, <2>1, <2>2, <2>3, <2>4, <2>5 DEF CallProceeds
<1>6. CASE SweepLoop
  BY <1>1, <1>3, <1>6 DEF SweepLoop, SweepTick, Sweep, CheckFinalize, Finalize
<1>7. CASE UNCHANGED vars \/ Tick
  BY <1>1, <1>7 DEF vars, Tick, endVars
<1>. QED  BY <1>4, <1>5, <1>6, <1>7 DEF Next

\* Once the session is closed a late call only counts: the report, the frames,
\* their times, the chunks taken in and the duplicates stay, and a claim, an END
\* and a close that were in are not replaced.
THEOREM ClosedStaysFrozen == Spec => ClosedSessionIsFrozen
<1>1. SafetyInv /\ SweeperInv /\ [Next]_vars =>
        [finalized =>
           /\ UNCHANGED <<frameVars, finalVars>>
           /\ \A k \in {"chunksReceived", "chunksDuplicate"} : count'[k] = count[k]
           /\ framesSentClaim # 0 => framesSentClaim' = framesSentClaim
           /\ endMarked => UNCHANGED <<endMarked, endAt>>
           /\ closedAt # Never => closedAt' = closedAt]_vars
  BY ClosedStep, ClosedCounts
<1>. QED  BY <1>1, SweeperInvariant, PTL DEF Spec, ClosedSessionIsFrozen

-----------------------------------------------------------------------------
(* The grace period                                                         *)

\* What Finalize may count on: a full wait, by the clock the loop decided by.
WaitedFor ==
  \/ endMarked /\ sweeper.now - endAt >= EndGrace
  \/ closedAt # Never /\ sweeper.now - closedAt >= EndGrace
  \/ sweeper.last # Never /\ sweeper.now - sweeper.last >= IdleTimeout

\* The sweep loop goes on to Finalize only after the wait, and whatever is called
\* between the two keeps the wait what it was.
DecisionInv == sweeper.pc = "finalize" => WaitedFor

LEMMA DecisionInit == Init => DecisionInv
  BY DEF Init, DecisionInv, Waiting

LEMMA DecisionNext == TypeOK /\ DecisionInv /\ [Next]_vars => DecisionInv'
<1>. SUFFICES ASSUME TypeOK, DecisionInv, [Next]_vars  PROVE DecisionInv'
  OBVIOUS
<1>. USE DEF endVars
<1>a. sweeper \in Sweepers
  BY DEF TypeOK
<1>1. CASE /\ UNCHANGED sweeper
           /\ endMarked => UNCHANGED <<endMarked, endAt>>
           /\ closedAt # Never => closedAt' = closedAt
  BY <1>1 DEF DecisionInv, WaitedFor
<1>2. ASSUME NEW c \in Callers, CallBegins(c)
      PROVE  DecisionInv'
  BY <1>1, <1>2 DEF CallBegins, IngestCall, MarkEndCall, ClosedCall, Enter, NoteWrongSession,
     NoteProtocolError, NoteRejected
<1>3. ASSUME NEW c \in Callers, CallProceeds(c)
      PROVE  DecisionInv'
  <2>1. CASE MarkEnd(c)
    BY <1>1, <2>1 DEF MarkEnd
  <2>2. CASE NoteTransportClosed(c)
    BY <1>1, <2>2 DEF NoteTransportClosed
  <2>3. CASE Ingest(c)
    BY <1>1, <2>3 DEF Ingest, IngestAfterFinalize, IngestLate, IngestMismatch, IngestDuplicate,
       IngestPart, IngestLastPart
  <2>. QED  BY <1>1, <1>3, <2>1, <2>2, <2>3 DEF CallProceeds, SinkReturns
<1>4. CASE SweepTick
  BY <1>4 DEF SweepTick, DecisionInv, Waiting
<1>5. CASE Sweep
  BY <1>5, <1>a DEF Sweep, DecisionInv, Sweepers
<1>6. CASE CheckFinalize
  <2>1. CASE ShouldFinalize(sweeper.now)
    <3>1. /\ sweeper'.now = sweeper.now /\ sweeper'.last = lastChunkAt
          /\ UNCHANGED <<endMarked, endAt, closedAt>>
      BY <1>6, <1>a, <2>1 DEF CheckFinalize, Sweepers
    <3>. QED  BY <2>1, <3>1 DEF ShouldFinalize, DecisionInv, WaitedFor
  <2>2. CASE ~ShouldFinalize(sweeper.now)
    BY <1>6, <2>2 DEF CheckFinalize, DecisionInv, Waiting
  <2>. QED  BY <2>1, <2>2
<1>7. CASE Finalize
  BY <1>7, <1>a DEF Finalize, DecisionInv, Sweepers
<1>8. CASE UNCHANGED vars \/ Tick
  BY <1>1, <1>8 DEF vars, Tick
<1>. QED  BY <1>2, <1>3, <1>4, <1>5, <1>6, <1>7, <1>8 DEF Next, SweepLoop

\* A session closes only after the full wait it was closed for, for any number of
\* read loops and handlers, whatever they call between the decision and the
\* closing.
THEOREM ClosesAfterGrace == Spec => GraceHonoured
<1>1. DecisionInv /\ [Next]_vars =>
        [finalized' /\ ~finalized =>
           \/ endMarked /\ sweeper.now - endAt >= EndGrace
           \/ closedAt # Never /\ sweeper.now - closedAt >= EndGrace
           \/ sweeper.last # Never /\ sweeper.now - sweeper.last >= IdleTimeout]_vars
  <2>. SUFFICES ASSUME DecisionInv, [Next]_vars, finalized', ~finalized
                PROVE  WaitedFor
    BY DEF WaitedFor
  <2>1. Finalize
    BY OnlyFinalizeCloses
  <2>. QED  BY <2>1 DEF Finalize, DecisionInv
<1>2. SafetyInv => TypeOK
  BY DEF SafetyInv
<1>. QED  BY <1>1, <1>2, SafetyInvariant, DecisionInit, DecisionNext, PTL DEF Spec, GraceHonoured

-----------------------------------------------------------------------------
(* The clocks of one read loop                                              *)

\* No two calls of Ingest overlap.  A client sends its chunks on one transport, and
\* a transport is read by one loop (package comment: the read loop of the channel).
OneIngest ==
  \A c, d \in Callers : call[c].op = "ingest" /\ call[d].op = "ingest" => c = d

\* Nothing is dated after the clock, and chunks are dated in the order they are
\* taken in.
ClockInv ==
  /\ {firstChunkAt, lastChunkAt, endAt, closedAt} \subseteq -1 .. clock
  /\ \A c \in Callers : call[c].op \in {"ingest", "markEnd", "closed"} => call[c].at <= clock
  /\ \A c \in Callers : call[c].op = "ingest" => lastChunkAt <= call[c].at
  /\ firstChunkAt <= lastChunkAt /\ (lastChunkAt # Never => firstChunkAt # Never)

LEMMA ClockInit == Init => ClockInv
  BY DEF Init, ClockInv, Never, Idle

LEMMA ClockNext == TypeOK /\ OneIngest /\ ClockInv /\ [Next]_vars => ClockInv'
<1>. SUFFICES ASSUME TypeOK, OneIngest, ClockInv, [Next]_vars  PROVE ClockInv'
  OBVIOUS
<1>. USE DEF frameVars, endVars, finalVars
<1>a. /\ clock \in Nat /\ call \in [Callers -> Calls]
      /\ {firstChunkAt, lastChunkAt, endAt, closedAt} \subseteq Int
      /\ sweeper \in Sweepers
  BY DEF TypeOK, Time, Never
<1>1. CASE Tick
  <2>1. clock' = clock + 1
    BY <1>1 DEF Tick
  <2>3. \A c \in Callers : call[c].op \in {"ingest", "markEnd", "closed"} => call[c].at <= clock'
    <3>. SUFFICES ASSUME NEW c \in Callers, call[c].op \in {"ingest", "markEnd", "closed"}
                  PROVE  call[c].at <= clock + 1
      BY <2>1
    <3>1. call[c].at \in Nat /\ call[c].at <= clock
      BY <1>a, CallFields DEF ClockInv
    <3>. QED  BY <1>a, <3>1
  <2>. QED  BY <1>1, <1>a, <2>1, <2>3 DEF Tick, ClockInv
<1>2. ASSUME NEW c \in Callers, NEW args, Enter(c, args),
             args.op \in {"ingest", "markEnd", "closed"} => args.at = clock
      PROVE  ClockInv'
  <2>1. \A d \in Callers : call'[d] = IF d = c THEN args ELSE call[d]
    BY <1>2, <1>a DEF Enter
  <2>. QED  BY <1>2, <1>a, <2>1 DEF Enter, ClockInv
<1>3. ASSUME NEW c \in Callers, NEW k, NoteRejected(c, k)
      PROVE  ClockInv'
  BY <1>3 DEF NoteRejected, ClockInv
<1>4. ASSUME NEW c \in Callers, Return(c) \/ call' = [call EXCEPT ![c] = [op |-> "sink", frame |-> call'[c].frame]],
             UNCHANGED <<clock, endVars, sweeper>>,
             \/ UNCHANGED <<firstChunkAt, lastChunkAt>>
             \/ Arrived(c)
      PROVE  ClockInv'
  <2>1. \A d \in Callers : d # c => call'[d] = call[d]
    BY <1>4, <1>a DEF Return
  <2>2. call'[c].op \in {"idle", "sink"}
    BY <1>4, <1>a DEF Return, Idle
  <2>3. CASE UNCHANGED <<firstChunkAt, lastChunkAt>>
    BY <1>4, <1>a, <2>1, <2>2, <2>3 DEF ClockInv
  <2>4. CASE Arrived(c)
    <3>1. /\ call[c].op = "ingest" /\ lastChunkAt' = call[c].at
          /\ firstChunkAt' = IF firstChunkAt = Never THEN call[c].at ELSE firstChunkAt
      BY <2>4 DEF Arrived, FirstSeen
    <3>2. call[c].at \in Nat /\ call[c].at <= clock /\ lastChunkAt <= call[c].at
      BY <1>a, <3>1, CallFields DEF ClockInv
    <3>3. \A d \in Callers : call'[d].op # "ingest"
      BY <2>1, <2>2, <3>1 DEF OneIngest
    <3>5. \A d \in Callers : call'[d].op \in {"markEnd", "closed"} => call'[d].at <= clock'
      BY <1>4, <2>1, <2>2 DEF ClockInv
    <3>. QED  BY <1>4, <1>a, <3>1, <3>2, <3>3, <3>5 DEF ClockInv, Never
  <2>. QED  BY <1>4, <2>3, <2>4
<1>5. ASSUME NEW c \in Callers, CallBegins(c)
      PROVE  ClockInv'
  BY <1>2, <1>3, <1>5 DEF CallBegins, IngestCall, MarkEndCall, ClosedCall, NoteWrongSession, NoteProtocolError
<1>6. ASSUME NEW c \in Callers, CallProceeds(c)
      PROVE  ClockInv'
  <2>1. CASE Ingest(c)
    BY <1>4, <2>1 DEF Ingest, IngestAfterFinalize, IngestLate, IngestMismatch, IngestDuplicate,
       IngestPart, IngestLastPart
  <2>2. ASSUME NEW failed \in BOOLEAN, SinkReturns(c, failed)
        PROVE  ClockInv'
    BY <1>4, <2>2 DEF SinkReturns
  <2>3. CASE MarkEnd(c)
    <3>1. \A d \in Callers : call'[d] = IF d = c THEN Idle ELSE call[d]
      BY <1>a, <2>3 DEF MarkEnd, Return
    <3>2. call[c].at \in Nat /\ call[c].at <= clock
      BY <1>a, <2>3, CallFields DEF MarkEnd, ClockInv
    <3>. QED  BY <1>a, <2>3, <3>1, <3>2 DEF MarkEnd, ClockInv, Idle
  <2>4. CASE NoteTransportClosed(c)
    <3>1. \A d \in Callers : call'[d] = IF d = c THEN Idle ELSE call[d]
      BY <1>a, <2>4 DEF NoteTransportClosed, Return
    <3>2. call[c].at \in Nat /\ call[c].at <= clock
      BY <1>a, <2>4, CallFields DEF NoteTransportClosed, ClockInv
    <3>. QED  BY <1>a, <2>4, <3>1, <3>2 DEF NoteTransportClosed, ClockInv, Idle
  <2>. QED  BY <1>6, <2>1, <2>2, <2>3, <2>4 DEF CallProceeds
<1>7. CASE SweepTick
  BY <1>7, <1>a DEF SweepTick, ClockInv
<1>8. CASE Sweep
  BY <1>8, <1>a DEF Sweep, ClockInv
<1>9. CASE CheckFinalize
  BY <1>9, <1>a DEF CheckFinalize, ClockInv
<1>10. CASE Finalize
  BY <1>10, <1>a DEF Finalize, ClockInv
<1>11. CASE UNCHANGED vars
  BY <1>11 DEF vars, ClockInv
<1>. QED  BY <1>1, <1>5, <1>6, <1>7, <1>8, <1>9, <1>10, <1>11 DEF Next, SweepLoop

-----------------------------------------------------------------------------
(* What becomes of the datagrams                                            *)

\* A frame has a chunk exactly when its entry is in the map, and no more than
\* the most chunks a frame is cut into.
SeenInv ==
  \A f \in FrameIDs :
    /\ frames[f].status = "absent" <=> frames[f].received = 0
    /\ frames[f].received <= frames[f].total /\ frames[f].total <= MaxTotal

\* A chunk goes into its slot: frame g has one chunk more, the others are alone.
StoresOne(g) ==
  /\ frames[g].received + 1 <= MaxTotal
  /\ frames'[g].received = frames[g].received + 1
  /\ frames'[g].received <= frames'[g].total /\ frames'[g].total <= MaxTotal
  /\ frames'[g].status # "absent"
  /\ \A f \in FrameIDs \ {g} : frames'[f] = frames[f]

\* No frame gets a chunk, and none appears or goes.
StoresNone ==
  \A f \in FrameIDs :
    /\ frames'[f].received = frames[f].received /\ frames'[f].total = frames[f].total
    /\ frames'[f].status = "absent" <=> frames[f].status = "absent"

LEMMA StoringStep ==
  ASSUME SafetyInv, SeenInv, NEW c \in Callers, IngestPart(c) \/ IngestLastPart(c)
  PROVE  \E g \in FrameIDs : StoresOne(g)
<1>a. PICK h, now, fs : h = call[c].h /\ now = call[c].at /\ fs = FrameOf(h, now)
  OBVIOUS
<1>b. PICK g : g = h.frameID
  OBVIOUS
<1>1. h \in Headers /\ now \in Nat
  BY <1>a, CallFields DEF SafetyInv, TypeOK, IngestPart, IngestLastPart, Arrived
<1>2. g \in FrameIDs /\ h.totalChunks \in 1 .. MaxTotal /\ fs \in FrameRecords
  BY <1>a, <1>b, <1>1, HeaderFields, FrameOfType DEF SafetyInv, TypeOK
<1>3. fs.status = "pending"
  BY <1>a DEF IngestPart, IngestLastPart, Fits
<1>4. Assembling(fs, g)
  BY <1>a, <1>b, <1>1, <1>3, FrameOfAssembling DEF SafetyInv
<1>5. fs.received = frames[g].received /\ fs.total <= MaxTotal
  <2>1. CASE frames[g].status = "absent"
    <3>1. fs = Frame("pending", {}, 0, h.totalChunks, h.codec, now)
      BY <1>a, <1>b, <2>1 DEF FrameOf
    <3>2. fs.received = 0 /\ fs.total = h.totalChunks
      BY <3>1 DEF Frame
    <3>. QED  BY <1>2, <2>1, <3>2 DEF SeenInv
  <2>2. CASE frames[g].status # "absent"
    <3>1. fs = frames[g]
      BY <1>a, <1>b, <2>2 DEF FrameOf
    <3>. QED  BY <1>2, <3>1 DEF SeenInv
  <2>. QED  BY <2>1, <2>2
<1>6. /\ fs.received \in Nat /\ fs.total \in Nat /\ fs.received + 1 <= fs.total
  BY <1>2, <1>4 DEF FrameRecords, Assembling
<1>7. PICK full : full = Stored(fs, h)
  OBVIOUS
<1>8. /\ full \in FrameRecords /\ full.received = fs.received + 1
      /\ full.total = fs.total /\ full.status = "pending"
  BY <1>1, <1>2, <1>3, <1>7, StoredType
<1>9. PICK new \in {full, Completed(full)} : frames' = [frames EXCEPT ![g] = new]
  BY <1>a, <1>b, <1>7 DEF IngestPart, IngestLastPart
<1>10. new.received = fs.received + 1 /\ new.total = fs.total /\ new.status # "absent"
  BY <1>8, <1>9, CompletedType
<1>11. frames'[g] = new /\ \A f \in FrameIDs \ {g} : frames'[f] = frames[f]
  BY <1>2, <1>9 DEF SafetyInv, TypeOK
<1>12. MaxTotal \in Nat
  BY ReassemblerAssumption
<1>13. StoresOne(g)
  BY <1>5, <1>6, <1>10, <1>11, <1>12 DEF StoresOne
<1>. QED  BY <1>2, <1>13

\* Giving frames up stores nothing.
LEMMA GivingUpStoresNone ==
  ASSUME SafetyInv, SeenInv, NEW S \in SUBSET FrameIDs, \A f \in S : frames[f].status = "pending",
         frames' = [f \in FrameIDs |-> IF f \in S THEN GivenUp(frames[f]) ELSE frames[f]]
  PROVE  StoresNone
<1>1. \A f \in FrameIDs : frames[f] \in FrameRecords
  BY DEF SafetyInv, TypeOK
<1>2. ASSUME NEW f \in FrameIDs
      PROVE  /\ frames'[f].received = frames[f].received /\ frames'[f].total = frames[f].total
             /\ frames'[f].status = "absent" <=> frames[f].status = "absent"
  BY <1>1, GivenUpType
<1>. QED  BY <1>2 DEF StoresNone

\* Every step stores one chunk, with its call of Ingest, or none.
LEMMA StoringSteps ==
  ASSUME SafetyInv, SeenInv, [Next]_vars,
         ~ \E c \in Callers : IngestPart(c) \/ IngestLastPart(c)
  PROVE  StoresNone
<1>1. CASE frames' = frames
  BY <1>1 DEF StoresNone
<1>2. CASE Sweep
  <2>1. PICK S \in SUBSET FrameIDs : S = {f \in FrameIDs : Expired(frames[f], sweeper.now)}
    OBVIOUS
  <2>2. \A f \in S : frames[f].status = "pending"
    BY <2>1 DEF Expired
  <2>3. frames' = [f \in FrameIDs |-> IF f \in S THEN GivenUp(frames[f]) ELSE frames[f]]
    BY <1>2, <2>1 DEF Sweep
  <2>. QED  BY <2>2, <2>3, GivingUpStoresNone
<1>3. CASE Finalize
  <2>1. PICK S \in SUBSET FrameIDs : S = {f \in FrameIDs : frames[f].status = "pending"}
    OBVIOUS
  <2>2. frames' = [f \in FrameIDs |-> IF f \in S THEN GivenUp(frames[f]) ELSE frames[f]]
    BY <1>3, <2>1 DEF Finalize, ClosedFrames
  <2>. QED  BY <2>1, <2>2, GivingUpStoresNone
<1>4. ASSUME NEW c \in Callers, CallBegins(c) \/ CallProceeds(c)
      PROVE  frames' = frames
  BY <1>4 DEF CallBegins, IngestCall, MarkEndCall, ClosedCall, Enter, NoteWrongSession,
     NoteProtocolError, NoteRejected, CallProceeds, Ingest, IngestAfterFinalize, IngestLate,
     IngestMismatch, IngestDuplicate, MarkEnd, NoteTransportClosed, SinkReturns, frameVars
<1>. QED  BY <1>1, <1>2, <1>3, <1>4 DEF Next, Tick, SweepLoop, SweepTick, CheckFinalize, vars, frameVars

LEMMA SeenInit == Init => SeenInv
<1>1. MaxTotal >= 0
  BY ReassemblerAssumption
<1>2. Absent.status = "absent" /\ Absent.received = 0 /\ Absent.total = 0
  BY DEF Absent, Frame
<1>. QED  BY <1>1, <1>2 DEF Init, SeenInv

LEMMA SeenNext == SafetyInv /\ SeenInv /\ [Next]_vars => SeenInv'
<1>. SUFFICES ASSUME SafetyInv, SeenInv, [Next]_vars  PROVE SeenInv'
  OBVIOUS
<1>1. \A f \in FrameIDs : frames[f].received \in Nat
  BY DEF SafetyInv, TypeOK, FrameRecords
<1>2. CASE \E c \in Callers : IngestPart(c) \/ IngestLastPart(c)
  <2>1. PICK g \in FrameIDs : StoresOne(g)
    BY <1>2, StoringStep
  <2>. SUFFICES ASSUME NEW f \in FrameIDs
                PROVE  /\ frames'[f].status = "absent" <=> frames'[f].received = 0
                       /\ frames'[f].received <= frames'[f].total /\ frames'[f].total <= MaxTotal
    BY DEF SeenInv
  <2>2. CASE f = g
    BY <1>1, <2>1, <2>2 DEF StoresOne
  <2>3. CASE f # g
    BY <2>1, <2>3 DEF StoresOne, SeenInv
  <2>. QED  BY <2>2, <2>3
<1>3. CASE ~ \E c \in Callers : IngestPart(c) \/ IngestLastPart(c)
  BY <1>3, StoringSteps DEF StoresNone, SeenInv
<1>. QED  BY <1>2, <1>3

\* The set of chunks in hand or used, one step on.
LEMMA StoredChunksFinite == IsFiniteSet(StoredChunks) /\ Cardinality(StoredChunks) \in Nat
<1>1. IsFiniteSet(FrameIDs) /\ MaxTotal \in Int
  BY ReassemblerAssumption
<1>2. IsFiniteSet(1 .. MaxTotal)
  BY <1>1, FS_Interval
<1>3. IsFiniteSet(FrameIDs \X (1 .. MaxTotal))
  BY <1>1, <1>2, FS_Product
<1>4. StoredChunks \in SUBSET (FrameIDs \X (1 .. MaxTotal))
  BY DEF StoredChunks
<1>. QED  BY <1>3, <1>4, FS_Subset, FS_CardinalityType

LEMMA OneStoredMore ==
  ASSUME SafetyInv, NEW g \in FrameIDs, StoresOne(g)
  PROVE  Cardinality(StoredChunks') = Cardinality(StoredChunks) + 1
<1>1. MaxTotal \in Nat /\ \A f \in FrameIDs : frames[f].received \in Nat
  BY ReassemblerAssumption DEF SafetyInv, TypeOK, FrameRecords
<1>2. PICK new : new = <<g, frames[g].received + 1>>
  OBVIOUS
<1>3. StoredChunks' = StoredChunks \union {new}
  <2>1. ASSUME NEW f \in FrameIDs, NEW n \in 1 .. MaxTotal
        PROVE  n <= frames'[f].received <=> (n <= frames[f].received \/ <<f, n>> = new)
    <3>1. CASE f = g
      BY <1>1, <1>2, <3>1 DEF StoresOne
    <3>2. CASE f # g
      BY <1>2, <3>2 DEF StoresOne
    <3>. QED  BY <3>1, <3>2
  <2>2. new \in FrameIDs \X (1 .. MaxTotal)
    BY <1>1, <1>2 DEF StoresOne
  <2>. QED  BY <2>1, <2>2 DEF StoredChunks
<1>4. new \notin StoredChunks
  BY <1>1, <1>2 DEF StoredChunks
<1>. QED  BY <1>3, <1>4, StoredChunksFinite, FS_AddElement

LEMMA NoneStored ==
  ASSUME StoresNone
  PROVE  StoredChunks' = StoredChunks
  BY DEF StoresNone, StoredChunks

\* The callers with a chunk in hand, one step on.
LEMMA HandFinite == IsFiniteSet(ChunksInHand) /\ Cardinality(ChunksInHand) \in Nat
  BY ReassemblerAssumption, FS_Subset, FS_CardinalityType DEF ChunksInHand

LEMMA HandTakes ==
  ASSUME NEW c \in Callers, call[c].op # "ingest", call'[c].op = "ingest",
         \A d \in Callers \ {c} : call'[d] = call[d]
  PROVE  Cardinality(ChunksInHand') = Cardinality(ChunksInHand) + 1
<1>1. ChunksInHand' = ChunksInHand \union {c} /\ c \notin ChunksInHand
  BY DEF ChunksInHand
<1>. QED  BY <1>1, HandFinite, FS_AddElement

LEMMA HandGives ==
  ASSUME NEW c \in Callers, call[c].op = "ingest", call'[c].op # "ingest",
         \A d \in Callers \ {c} : call'[d] = call[d]
  PROVE  Cardinality(ChunksInHand') = Cardinality(ChunksInHand) - 1
<1>1. ChunksInHand' = ChunksInHand \ {c} /\ c \in ChunksInHand
  BY DEF ChunksInHand
<1>. QED  BY <1>1, HandFinite, FS_RemoveElement

\* The datagrams that were counted instead of stored.
Turned == count["chunksDuplicate"] + count["chunksLate"]
          + count["chunksWrongSession"] + count["protocolErrors"]

\* One of the four counters goes up, or none.
LEMMA TurnedOne ==
  ASSUME TypeOK,
         NEW k \in {"chunksDuplicate", "chunksLate", "chunksWrongSession", "protocolErrors"},
         Bump({k}) \/ Bump({"chunksReceived", k})
  PROVE  Turned' = Turned + 1
  BY DEF TypeOK, Bump, Turned, Counters

LEMMA TurnedNone ==
  ASSUME TypeOK, count' = count \/ Bump({}) \/ Bump({"chunksReceived"}) \/ Bump({"decodeErrors"})
  PROVE  Turned' = Turned
  BY DEF TypeOK, Bump, Turned, Counters

LEMMA TurnedType == TypeOK => Turned \in Nat
  BY DEF TypeOK, Turned, Counters

\* What a step does to the four terms decides what it does to the account.
LEMMA Balance ==
  ASSUME SafetyInv, EveryDatagramAccounted, TypeOK',
         NEW a \in Int, NEW h \in Int, NEW s \in Int, NEW t \in Int, a = h + s + t,
         arrivals' = arrivals + a,
         Cardinality(ChunksInHand') = Cardinality(ChunksInHand) + h,
         Cardinality(StoredChunks') = Cardinality(StoredChunks) + s,
         Turned' = Turned + t
  PROVE  EveryDatagramAccounted'
<1>. DEFINE hand == Cardinality(ChunksInHand)
            stored == Cardinality(StoredChunks)
<1>1. hand \in Nat /\ stored \in Nat /\ Turned \in Nat /\ arrivals \in Nat
  BY HandFinite, StoredChunksFinite, TurnedType DEF SafetyInv, TypeOK
<1>2. count \in [Counters -> Nat]
  BY DEF SafetyInv, TypeOK
<1>3. arrivals = hand + stored + Turned
  BY <1>1, <1>2 DEF EveryDatagramAccounted, Turned, Counters
<1>. HIDE DEF hand, stored
<1>4. arrivals' = hand' + stored' + Turned' /\ hand' \in Int /\ stored' \in Int
  BY <1>1, <1>3 DEF hand, stored
<1>5. \A k \in Counters : count'[k] \in Int
  BY DEF TypeOK
<1>6. EveryDatagramAccounted' <=>
        arrivals' = hand' + stored' + count'["chunksDuplicate"] + count'["chunksLate"]
                    + count'["chunksWrongSession"] + count'["protocolErrors"]
  BY DEF hand, stored, EveryDatagramAccounted
<1>. QED  BY <1>4, <1>5, <1>6 DEF Turned, Counters

LEMMA AccountInit == Init => EveryDatagramAccounted
<1>. SUFFICES ASSUME Init  PROVE EveryDatagramAccounted
  OBVIOUS
<1>1. ChunksInHand = {}
  BY DEF Init, ChunksInHand, Idle
<1>2. StoredChunks = {}
  <2>1. ASSUME NEW f \in FrameIDs, NEW n \in 1 .. MaxTotal
        PROVE  ~ (n <= frames[f].received)
    BY DEF Init, Absent, Frame
  <2>. QED  BY <2>1 DEF StoredChunks
<1>3. Cardinality(ChunksInHand) = 0 /\ Cardinality(StoredChunks) = 0
  BY <1>1, <1>2, FS_EmptySet
<1>4. arrivals = 0 /\ \A k \in Counters : count[k] = 0
  BY DEF Init
<1>. QED  BY <1>3, <1>4 DEF EveryDatagramAccounted, Counters

LEMMA AccountNext ==
  SafetyInv /\ SeenInv /\ EveryDatagramAccounted /\ [Next]_vars => EveryDatagramAccounted'
<1>. SUFFICES ASSUME SafetyInv, SeenInv, EveryDatagramAccounted, [Next]_vars
              PROVE  EveryDatagramAccounted'
  OBVIOUS
<1>. USE DEF frameVars, endVars, finalVars
<1>a. TypeOK /\ TypeOK' /\ call \in [Callers -> Calls] /\ arrivals \in Nat
  BY TypeNext DEF SafetyInv, TypeOK
<1>b. /\ Cardinality(ChunksInHand) \in Nat /\ Cardinality(StoredChunks) \in Nat /\ Turned \in Nat
  BY <1>a, HandFinite, StoredChunksFinite, TurnedType
<1>c. call' = call => ChunksInHand' = ChunksInHand
  BY DEF ChunksInHand
<1>d. (\A c \in Callers : call'[c].op = "ingest" <=> call[c].op = "ingest") => ChunksInHand' = ChunksInHand
  BY DEF ChunksInHand
\* Nothing stored, nothing taken or turned away.
<1>1. ASSUME StoresNone, Turned' = Turned, ChunksInHand' = ChunksInHand, arrivals' = arrivals
      PROVE  EveryDatagramAccounted'
  BY <1>1, <1>a, <1>b, NoneStored, Balance
\* A chunk in hand is counted instead of stored.
<1>2. ASSUME NEW c \in Callers, call[c].op = "ingest", Return(c), frames' = frames,
             Turned' = Turned + 1, arrivals' = arrivals
      PROVE  EveryDatagramAccounted'
  <2>1. call'[c].op # "ingest" /\ \A d \in Callers \ {c} : call'[d] = call[d]
    BY <1>2, <1>a DEF Return, Idle
  <2>2. StoresNone
    BY <1>2 DEF StoresNone
  <2>3. /\ Cardinality(ChunksInHand') = Cardinality(ChunksInHand) + (-1)
        /\ Cardinality(StoredChunks') = Cardinality(StoredChunks) + 0
        /\ arrivals' = arrivals + 0
    BY <1>2, <1>a, <1>b, <2>1, <2>2, HandGives, NoneStored
  <2>. QED  BY <1>2, <2>3, <1>a, Balance
\* A call that has no chunk in hand begins or goes on.
<1>3. ASSUME NEW c \in Callers, call[c].op # "ingest", call'[c].op # "ingest",
             \A d \in Callers \ {c} : call'[d] = call[d], frames' = frames,
             Turned' = Turned, arrivals' = arrivals
      PROVE  EveryDatagramAccounted'
  <2>1. StoresNone
    BY <1>3 DEF StoresNone
  <2>. QED  BY <1>1, <1>3, <1>d, <2>1
<1>4. ASSUME NEW c \in Callers, CallBegins(c)
      PROVE  EveryDatagramAccounted'
  <2>1. ASSUME NEW h \in Headers, IngestCall(c, h)
        PROVE  EveryDatagramAccounted'
    <3>1. /\ call[c].op # "ingest" /\ call'[c].op = "ingest"
          /\ \A d \in Callers \ {c} : call'[d] = call[d]
      BY <2>1, <1>a DEF IngestCall, Enter, CanCall, Idle
    <3>2. StoresNone /\ Turned' = Turned
      BY <2>1 DEF IngestCall, Enter, StoresNone, Turned
    <3>3. /\ Cardinality(ChunksInHand') = Cardinality(ChunksInHand) + 1
          /\ Cardinality(StoredChunks') = Cardinality(StoredChunks) + 0
          /\ Turned' = Turned + 0 /\ arrivals' = arrivals + 1
      BY <2>1, <1>b, <3>1, <3>2, HandTakes, NoneStored DEF IngestCall
    <3>. QED  BY <3>3, <1>a, Balance
  <2>2. ASSUME NEW args, Enter(c, args), args.op # "ingest", arrivals' = arrivals
        PROVE  EveryDatagramAccounted'
    BY <1>3, <1>a, <2>2 DEF Enter, CanCall, Idle, Turned
  <2>3. (\E n \in Claims : MarkEndCall(c, n)) \/ ClosedCall(c) => EveryDatagramAccounted'
    BY <2>2 DEF MarkEndCall, ClosedCall
  <2>4. ASSUME NEW k \in {"chunksWrongSession", "protocolErrors"}, NoteRejected(c, k)
        PROVE  EveryDatagramAccounted'
    <3>1. Turned' = Turned + 1
      BY <2>4, <1>a, TurnedOne DEF NoteRejected
    <3>2. StoresNone
      BY <2>4 DEF NoteRejected, StoresNone
    <3>3. /\ Cardinality(ChunksInHand') = Cardinality(ChunksInHand) + 0
          /\ Cardinality(StoredChunks') = Cardinality(StoredChunks) + 0
          /\ arrivals' = arrivals + 1
      BY <2>4, <1>b, <1>c, <3>2, NoneStored DEF NoteRejected
    <3>. QED  BY <3>1, <3>3, <1>a, Balance
  <2>. QED  BY <1>4, <2>1, <2>3, <2>4 DEF CallBegins, NoteWrongSession, NoteProtocolError
<1>5. ASSUME NEW c \in Callers, CallProceeds(c)
      PROVE  EveryDatagramAccounted'
  <2>1. CASE IngestAfterFinalize(c)
    BY <1>2, <1>a, <2>1, TurnedOne DEF IngestAfterFinalize
  <2>2. CASE IngestLate(c)
    BY <1>2, <1>a, <2>2, TurnedOne DEF IngestLate, Arrived
  <2>3. CASE IngestMismatch(c)
    BY <1>2, <1>a, <2>3, TurnedOne DEF IngestMismatch, Arrived
  <2>4. CASE IngestDuplicate(c)
    BY <1>2, <1>a, <2>4, TurnedOne DEF IngestDuplicate, Arrived
  <2>5. CASE IngestPart(c) \/ IngestLastPart(c)
    <3>1. PICK g \in FrameIDs : StoresOne(g)
      BY <2>5, StoringStep
    <3>2. /\ call[c].op = "ingest" /\ call'[c].op # "ingest"
          /\ \A d \in Callers \ {c} : call'[d] = call[d]
      BY <2>5, <1>a DEF IngestPart, IngestLastPart, Arrived, Return, Idle
    <3>3. /\ Cardinality(ChunksInHand') = Cardinality(ChunksInHand) + (-1)
          /\ Cardinality(StoredChunks') = Cardinality(StoredChunks) + 1
      BY <1>b, <3>1, <3>2, HandGives, OneStoredMore
    <3>4. Turned' = Turned + 0 /\ arrivals' = arrivals + 0
      <4>1. Turned' = Turned
        BY <2>5, <1>a, TurnedNone DEF IngestPart, IngestLastPart
      <4>. QED  BY <2>5, <1>a, <1>b, <4>1 DEF IngestPart, IngestLastPart
    <3>. QED  BY <3>3, <3>4, <1>a, Balance
  <2>6. CASE MarkEnd(c)
    BY <1>3, <1>a, <2>6 DEF MarkEnd, Return, Idle, Turned
  <2>7. CASE NoteTransportClosed(c)
    BY <1>3, <1>a, <2>7 DEF NoteTransportClosed, Return, Idle, Turned
  <2>8. ASSUME NEW failed \in BOOLEAN, SinkReturns(c, failed)
        PROVE  EveryDatagramAccounted'
    <3>1. Turned' = Turned
      BY <2>8, <1>a, TurnedNone DEF SinkReturns
    <3>. QED  BY <1>3, <1>a, <2>8, <3>1 DEF SinkReturns, Return, Idle
  <2>. QED  BY <1>5, <2>1, <2>2, <2>3, <2>4, <2>5, <2>6, <2>7, <2>8 DEF CallProceeds, Ingest
<1>6. CASE Tick \/ SweepLoop \/ UNCHANGED vars
  <2>1. /\ call' = call /\ count' = count /\ arrivals' = arrivals
    BY <1>6 DEF Tick, SweepLoop, SweepTick, Sweep, CheckFinalize, Finalize, vars
  <2>2. Turned' = Turned
    BY <2>1 DEF Turned
  <2>3. StoresNone
    <3>1. CASE \E c \in Callers : IngestPart(c) \/ IngestLastPart(c)
      BY <2>1, <1>a, <3>1 DEF IngestPart, IngestLastPart, Arrived, Return, Idle
    <3>. QED  BY <3>1, StoringSteps
  <2>. QED  BY <1>1, <1>c, <2>1, <2>2, <2>3
<1>. QED  BY <1>4, <1>5, <1>6 DEF Next

LEMMA SeenInvariant == Spec => [](SafetyInv /\ SeenInv)
  BY SafetyInvariant, SeenInit, SeenNext, PTL DEF Spec

\* Each datagram taken from a transport is stored in a frame or counted once,
\* for any number of frames, callers and datagrams.
THEOREM DatagramsAccounted == Spec => []EveryDatagramAccounted
  BY SeenInvariant, AccountInit, AccountNext, PTL DEF Spec

-----------------------------------------------------------------------------
(* The report's frame figures                                               *)

\* A finite set of numbers has a largest one: of the subsets that had none, one
\* would be minimal.
LEMMA LargestExists ==
  ASSUME NEW S \in SUBSET Int, IsFiniteSet(S), S # {}
  PROVE  \E m \in S : \A x \in S : x <= m
<1>. DEFINE Unbounded == {T \in SUBSET S : T # {} /\ ~ \E m \in T : \A x \in T : x <= m}
<1>. SUFFICES ASSUME Unbounded # {}  PROVE FALSE
  OBVIOUS
<1>1. IsWellFoundedOn(StrictSubsetOrdering(S), SUBSET S)
  BY FS_StrictSubsetOrderingWellFounded, FS_FiniteSubsetsOfFinite
<1>2. Unbounded \subseteq SUBSET S
  OBVIOUS
<1>3. PICK T \in Unbounded : \A U \in Unbounded : <<U, T>> \notin StrictSubsetOrdering(S)
  <2>. HIDE DEF Unbounded
  <2>. QED  BY <1>1, <1>2, WFMin
<1>4. PICK x \in T : TRUE
  OBVIOUS
<1>5. PICK U : U = T \ {x}
  OBVIOUS
<1>6. U \notin Unbounded
  <2>1. U \in SUBSET S /\ T \in SUBSET S /\ U \subseteq T /\ U # T
    BY <1>4, <1>5
  <2>2. <<U, T>> \in StrictSubsetOrdering(S)
    BY <2>1 DEF StrictSubsetOrdering
  <2>. QED  BY <1>3, <2>2
<1>7. CASE U = {}
  <2>1. \A y \in T : y = x
    BY <1>5, <1>7
  <2>2. x \in Int
    BY <1>4
  <2>. QED  BY <1>4, <2>1, <2>2
<1>8. CASE U # {}
  <2>1. PICK m \in U : \A y \in U : y <= m
    BY <1>5, <1>6, <1>8
  <2>2. m \in T /\ x \in Int /\ T \subseteq Int
    BY <1>4, <1>5
  <2>3. \A y \in T : y = x \/ y <= m
    BY <1>5, <2>1
  <2>. QED  BY <1>4, <2>2, <2>3
<1>. QED  BY <1>7, <1>8

\* The frames are finitely many.
LEMMA FramesFinite ==
  ASSUME NEW S \in SUBSET FrameIDs
  PROVE  IsFiniteSet(S) /\ Cardinality(S) \in Nat
  BY ReassemblerAssumption, FS_Subset, FS_CardinalityType

LEMMA KnownAreNumbers ==
  /\ KnownFrames \in SUBSET FrameIDs
  /\ KnownFrames \in SUBSET Int
  /\ \A f \in KnownFrames : f \in Nat
<1>1. \A f \in KnownFrames : f \in FrameIDs
  BY DEF KnownFrames
<1>2. \A f \in FrameIDs : f \in Nat
  BY ReassemblerAssumption
<1>3. \A f \in KnownFrames : f \in Int
  BY <1>1, <1>2
<1>. QED  BY <1>1, <1>2, <1>3

\* The largest identifier seen is one.
LEMMA MaxFrameIDIsLargest ==
  /\ KnownFrames = {} => MaxFrameID = -1
  /\ KnownFrames # {} => MaxFrameID \in KnownFrames /\ \A f \in KnownFrames : f <= MaxFrameID
<1>1. ASSUME KnownFrames # {}
      PROVE  \E m \in KnownFrames : \A f \in KnownFrames : f <= m
  BY <1>1, KnownAreNumbers, FramesFinite, LargestExists
<1>. QED  BY <1>1 DEF MaxFrameID

\* The identifiers below the largest that no chunk mentioned.
LEMMA UnseenFrames ==
  /\ MaxFrameID \in Int /\ MaxFrameID >= -1
  /\ Cardinality((0 .. MaxFrameID) \ KnownFrames) = MaxFrameID + 1 - Cardinality(KnownFrames)
  /\ Cardinality((0 .. MaxFrameID) \ KnownFrames) \in Nat
<1>. DEFINE known == KnownFrames
            m == MaxFrameID
<1>1. known \in SUBSET FrameIDs /\ \A f \in known : f \in Nat
  BY KnownAreNumbers
<1>a. /\ known = {} => m = -1
      /\ known # {} => m \in known /\ \A f \in known : f <= m
  BY MaxFrameIDIsLargest
<1>. HIDE DEF known, m
<1>2. m \in Int /\ m >= -1 /\ known \subseteq 0 .. m
  <2>1. CASE known = {}
    BY <1>a, <2>1
  <2>2. CASE known # {}
    BY <1>1, <1>a, <2>2
  <2>. QED  BY <2>1, <2>2
<1>3. IsFiniteSet(0 .. m) /\ Cardinality(0 .. m) = m + 1
  <2>1. IsFiniteSet(0 .. m) /\ Cardinality(0 .. m) = IF 0 > m THEN 0 ELSE m - 0 + 1
    BY <1>2, FS_Interval
  <2>. QED  BY <1>2, <2>1
<1>4. (0 .. m) \intersect known = known
  BY <1>2
<1>5. /\ IsFiniteSet((0 .. m) \ known)
      /\ Cardinality((0 .. m) \ known) = Cardinality(0 .. m) - Cardinality(known)
  <2>. DEFINE all == 0 .. m
  <2>1. IsFiniteSet(all) /\ all \intersect known = known
    BY <1>3, <1>4
  <2>. HIDE DEF all
  <2>2. /\ IsFiniteSet(all \ known)
        /\ Cardinality(all \ known) = Cardinality(all) - Cardinality(all \intersect known)
    BY <2>1, FS_Difference
  <2>. QED  BY <2>1, <2>2 DEF all
<1>6. Cardinality((0 .. m) \ known) \in Nat
  BY <1>5, FS_CardinalityType
<1>7. Cardinality((0 .. m) \ known) = m + 1 - Cardinality(known)
  BY <1>1, <1>2, <1>3, <1>5, FramesFinite
<1>. QED  BY <1>2, <1>6, <1>7 DEF known, m

\* A partial frame's triple is its own.
LEMMA PartialsCount ==
  ASSUME NEW S \in SUBSET FrameIDs
  PROVE  Cardinality({<<f, frames[f].received, frames[f].total>> : f \in S}) = Cardinality(S)
<1>. DEFINE T == {<<f, frames[f].received, frames[f].total>> : f \in S}
            b == [f \in S |-> <<f, frames[f].received, frames[f].total>>]
<1>1. b \in [S -> T] /\ (\A t \in T : \E f \in S : b[f] = t) /\ (\A f, g \in S : b[f] = b[g] => f = g)
  OBVIOUS
<1>2. b \in Bijection(S, T)
  BY <1>1 DEF Bijection, Injection, Surjection, IsInjective
<1>3. ExistsBijection(S, T)
  BY <1>2 DEF ExistsBijection
<1>. QED  BY <1>3, FramesFinite, FS_Bijection

\* What Finalize reports.
LEMMA FinalizeReports ==
  ASSUME SafetyInv, SeenInv, Finalize
  PROVE  ReportAddsUp'
<1>. DEFINE complete == FramesIn("complete")
            partial == {f \in FrameIDs : frames[f].status \in {"pending", "timedOut"}}
            known == KnownFrames
            c == Cardinality(complete)
            p == Cardinality(partial)
            lost == FramesExpected - c - p
            r == finalReport'
<1>1. \A f \in FrameIDs : frames[f] \in FrameRecords
  BY DEF SafetyInv, TypeOK
<1>2. \A f \in FrameIDs :
        /\ frames'[f].status = IF frames[f].status = "pending" THEN "timedOut" ELSE frames[f].status
        /\ ClosedFrames[f].status = frames'[f].status
  BY <1>1, GivenUpType DEF Finalize, ClosedFrames
<1>3. /\ FramesIn("complete")' = complete
      /\ {f \in FrameIDs : ClosedFrames[f].status = "complete"} = complete
      /\ {f \in FrameIDs : ClosedFrames[f].status = "timedOut"} = partial
      /\ KnownFrames' = known
  BY <1>1, <1>2 DEF FramesIn, KnownFrames, FrameRecords, Statuses
<1>4. MaxFrameID' = MaxFrameID
  BY <1>3 DEF MaxFrameID
<1>5. r = BuildReport(complete, partial)
  BY <1>3 DEF Finalize
<1>6. /\ r.framesExpected = FramesExpected /\ r.framesComplete = c /\ r.framesPartial = p
      /\ r.framesLost = IF lost > 0 THEN lost ELSE 0
      /\ r.partials = {<<f, frames[f].received, frames[f].total>> : f \in partial}
      /\ r.framesSentByClient = framesSentClaim
  BY <1>5 DEF BuildReport
<1>7. c \in Nat /\ p \in Nat /\ Cardinality(known) = c + p
  <2>1. complete \in SUBSET FrameIDs /\ partial \in SUBSET FrameIDs
    BY DEF FramesIn
  <2>2. complete \union partial = known /\ complete \intersect partial = {}
    BY <1>1 DEF FramesIn, KnownFrames, FrameRecords, Statuses
  <2>3. /\ IsFiniteSet(complete) /\ IsFiniteSet(partial) /\ c \in Nat /\ p \in Nat
    BY <2>1, FramesFinite
  <2>. HIDE DEF complete, partial, known
  <2>4. Cardinality(complete \union partial) =
          Cardinality(complete) + Cardinality(partial) - Cardinality(complete \intersect partial)
    BY <2>3, FS_Union
  <2>5. Cardinality(complete \intersect partial) = 0
    BY <2>2, FS_EmptySet
  <2>6. Cardinality(known) = Cardinality(complete) + Cardinality(partial) - 0
    BY <2>2, <2>4, <2>5
  <2>. QED  BY <2>3, <2>6
<1>8. FramesExpected \in Int /\ lost \in Int
  BY <1>7, UnseenFrames DEF FramesExpected, SafetyInv, TypeOK
<1>9. framesSentClaim = 0 =>
        (IF lost > 0 THEN lost ELSE 0) = Cardinality((0 .. MaxFrameID) \ known)
  <2>. HIDE DEF c, p, known
  <2>1. /\ Cardinality((0 .. MaxFrameID) \ known) = MaxFrameID + 1 - (c + p)
        /\ Cardinality((0 .. MaxFrameID) \ known) \in Nat
        /\ MaxFrameID \in Int /\ MaxFrameID >= -1
    BY <1>7, UnseenFrames DEF known
  <2>2. framesSentClaim = 0 => FramesExpected = MaxFrameID + 1
    BY <2>1 DEF FramesExpected
  <2>. QED  BY <1>7, <2>1, <2>2
<1>10. Cardinality(r.partials) = p
  <2>1. partial \in SUBSET FrameIDs
    OBVIOUS
  <2>. HIDE DEF partial
  <2>. QED  BY <1>6, <2>1, PartialsCount
<1>11. \A t \in r.partials : 0 < t[2] /\ t[2] < t[3]
  <2>1. ASSUME NEW f \in partial
        PROVE  0 < frames[f].received /\ frames[f].received < frames[f].total
    <3>1. frames[f].received \in Nat /\ frames[f].received # 0
      BY <1>1 DEF SeenInv, FrameRecords
    <3>2. frames[f].received < frames[f].total
      BY DEF SafetyInv, FramesWellFormed, PendingFrame
    <3>. QED  BY <3>1, <3>2
  <2>. QED  BY <1>6, <2>1
<1>. HIDE DEF c, p, complete, partial, known, r, lost
<1>12. /\ r.framesComplete = Cardinality(FramesIn("complete")')
       /\ r.framesComplete + r.framesPartial = Cardinality(KnownFrames')
       /\ r.framesExpected <= r.framesComplete + r.framesPartial + r.framesLost
       /\ r.framesLost > 0 =>
            r.framesExpected = r.framesComplete + r.framesPartial + r.framesLost
  <2>1. FramesExpected = lost + c + p
    BY <1>7, <1>8 DEF lost
  <2>2. r.framesComplete = Cardinality(FramesIn("complete")')
    BY <1>3, <1>6 DEF c
  <2>. QED  BY <1>3, <1>6, <1>7, <1>8, <2>1, <2>2
<1>13. r.framesSentByClient = 0 => r.framesLost = Cardinality((0 .. MaxFrameID') \ KnownFrames')
  BY <1>3, <1>4, <1>6, <1>9
<1>. QED  BY <1>6, <1>10, <1>11, <1>12, <1>13 DEF ReportAddsUp, r

LEMMA ReportNext ==
  SafetyInv /\ SeenInv /\ SweeperInv /\ ReportAddsUp /\ [Next]_vars => ReportAddsUp'
<1>. SUFFICES ASSUME SafetyInv, SeenInv, SweeperInv, ReportAddsUp, [Next]_vars
              PROVE  ReportAddsUp'
  OBVIOUS
<1>1. CASE finalized
  <2>1. UNCHANGED <<frames, finalized, finalReport>>
    BY <1>1, ClosedStep DEF frameVars, finalVars
  <2>. QED  BY <2>1 DEF ReportAddsUp, FramesIn, KnownFrames, MaxFrameID
<1>2. CASE ~finalized /\ finalized'
  BY <1>2, OnlyFinalizeCloses, FinalizeReports
<1>3. CASE ~finalized'
  BY <1>3 DEF ReportAddsUp
<1>. QED  BY <1>1, <1>2, <1>3

\* The report's figures agree with each other and with the frames, for any number
\* of frames, chunks, claims and callers.
THEOREM ReportsAddUp == Spec => []ReportAddsUp
<1>1. Init => ReportAddsUp
  BY DEF Init, ReportAddsUp
<1>. QED  BY <1>1, SeenInvariant, SweeperInvariant, ReportNext, PTL DEF Spec

-----------------------------------------------------------------------------
(* Percentiles                                                              *)

\* A finite set of numbers has a smallest one too.
LEMMA SmallestExists ==
  ASSUME NEW S \in SUBSET Int, IsFiniteSet(S), S # {}
  PROVE  \E m \in S : \A x \in S : m <= x
<1>. DEFINE T == {-x : x \in S}
            neg == [x \in S |-> -x]
<1>1. neg \in Surjection(S, T)
  BY DEF Surjection
<1>2. T \in SUBSET Int /\ T # {} /\ IsFiniteSet(T)
  <2>1. IsFiniteSet(T)
    <3>. HIDE DEF T, neg
    <3>. QED  BY <1>1, FS_Surjection
  <2>2. \A x \in S : -x \in Int
    OBVIOUS
  <2>3. T # {}
    OBVIOUS
  <2>. QED  BY <2>1, <2>2, <2>3
<1>3. PICK n \in T : \A y \in T : y <= n
  <2>. HIDE DEF T
  <2>. QED  BY <1>2, LargestExists
<1>4. PICK m \in S : n = -m
  OBVIOUS
<1>5. \A x \in S : -x <= -m
  BY <1>3, <1>4
<1>. QED  BY <1>5

Samples(lat)  == {lat[i] : i \in 1 .. Len(lat)}
Below(lat, v) == Cardinality({i \in 1 .. Len(lat) : lat[i] < v})
UpTo(lat, v)  == Cardinality({i \in 1 .. Len(lat) : lat[i] <= v})

RankOf(lat, pct) ==
  LET n   == Len(lat)
      raw == (n * pct + 50) \div 100 - 1
  IN  IF raw < 0 THEN 0 ELSE IF raw >= n THEN n - 1 ELSE raw

LEMMA CountsAreNumbers ==
  ASSUME NEW lat \in Seq(Int), NEW v \in Int
  PROVE  /\ IsFiniteSet(1 .. Len(lat)) /\ Cardinality(1 .. Len(lat)) = Len(lat)
         /\ Below(lat, v) \in Nat /\ UpTo(lat, v) \in Nat
<1>. DEFINE n == Len(lat)
<1>1. n \in Nat
  OBVIOUS
<1>. HIDE DEF n
<1>2. IsFiniteSet(1 .. n) /\ Cardinality(1 .. n) = n
  <2>1. IsFiniteSet(1 .. n) /\ Cardinality(1 .. n) = IF 1 > n THEN 0 ELSE n - 1 + 1
    BY <1>1, FS_Interval
  <2>. QED  BY <1>1, <2>1
<1>3. \A S \in SUBSET (1 .. n) : Cardinality(S) \in Nat
  BY <1>2, FS_Subset, FS_CardinalityType
<1>4. /\ {i \in 1 .. n : lat[i] < v} \in SUBSET (1 .. n)
      /\ {i \in 1 .. n : lat[i] <= v} \in SUBSET (1 .. n)
  OBVIOUS
<1>. QED  BY <1>2, <1>3, <1>4 DEF n, Below, UpTo

\* The samples are finitely many numbers.
LEMMA SamplesFinite ==
  ASSUME NEW lat \in Seq(Int), Len(lat) > 0
  PROVE  /\ Samples(lat) \in SUBSET Int /\ Samples(lat) # {}
         /\ IsFiniteSet(Samples(lat))
<1>1. lat \in Surjection(1 .. Len(lat), Samples(lat))
  BY DEF Surjection, Samples
<1>2. IsFiniteSet(1 .. Len(lat))
  BY CountsAreNumbers
<1>3. IsFiniteSet(Samples(lat))
  BY <1>1, <1>2, FS_Surjection
<1>. QED  BY <1>3 DEF Samples

\* Some sample stands at every rank: the smallest of those that, with the ones up
\* to them, outnumber the rank.
LEMMA SampleAtRank ==
  ASSUME NEW lat \in Seq(Int), Len(lat) > 0, NEW rank \in 0 .. Len(lat) - 1
  PROVE  \E v \in Samples(lat) : Below(lat, v) <= rank /\ rank < UpTo(lat, v)
<1>. DEFINE T == {v \in Samples(lat) : rank < UpTo(lat, v)}
<1>1. /\ Samples(lat) \in SUBSET Int /\ IsFiniteSet(Samples(lat)) /\ Samples(lat) # {}
  BY SamplesFinite
<1>2. T # {}
  <2>1. PICK m \in Samples(lat) : \A x \in Samples(lat) : x <= m
    BY <1>1, LargestExists
  <2>2. {i \in 1 .. Len(lat) : lat[i] <= m} = 1 .. Len(lat)
    BY <2>1 DEF Samples
  <2>3. UpTo(lat, m) = Len(lat)
    BY <1>1, <2>1, <2>2, CountsAreNumbers DEF UpTo
  <2>. QED  BY <2>1, <2>3
<1>3. T \in SUBSET Int /\ IsFiniteSet(T)
  BY <1>1, FS_Subset
<1>4. PICK v \in T : \A x \in T : v <= x
  <2>. HIDE DEF T
  <2>. QED  BY <1>2, <1>3, SmallestExists
<1>5. Below(lat, v) <= rank
  <2>. DEFINE less == {u \in Samples(lat) : u < v}
  <2>1. CASE less = {}
    <3>1. {i \in 1 .. Len(lat) : lat[i] < v} = {}
      BY <2>1 DEF Samples
    <3>2. Below(lat, v) = 0
      BY <3>1, FS_EmptySet DEF Below
    <3>. QED  BY <3>2
  <2>2. CASE less # {}
    <3>1. less \in SUBSET Int /\ IsFiniteSet(less)
      BY <1>1, FS_Subset
    <3>2. PICK u \in less : \A x \in less : x <= u
      <4>. HIDE DEF less
      <4>. QED  BY <2>2, <3>1, LargestExists
    <3>3. u \in Int /\ v \in Int /\ u < v /\ u \notin T
      BY <1>1, <1>4, <3>2
    <3>4. {i \in 1 .. Len(lat) : lat[i] < v} = {i \in 1 .. Len(lat) : lat[i] <= u}
      <4>1. ASSUME NEW i \in 1 .. Len(lat)
            PROVE  lat[i] < v <=> lat[i] <= u
        <5>1. lat[i] \in Samples(lat) /\ lat[i] \in Int
          BY DEF Samples
        <5>. QED  BY <3>2, <3>3, <5>1
      <4>. QED  BY <4>1
    <3>5. Below(lat, v) = UpTo(lat, u)
      BY <3>4 DEF Below, UpTo
    <3>6. ~ (rank < UpTo(lat, u)) /\ UpTo(lat, u) \in Nat
      BY <3>2, <3>3, CountsAreNumbers
    <3>. QED  BY <3>5, <3>6
  <2>. QED  BY <2>1, <2>2
<1>. QED  BY <1>4, <1>5

\* The nearest-rank percentile is the sample at its rank.
LEMMA NearestRankIsASample ==
  ASSUME NEW lat \in Seq(Int), Len(lat) > 0, NEW pct \in Nat
  PROVE  /\ NearestRank(lat, pct) \in Samples(lat)
         /\ Below(lat, NearestRank(lat, pct)) <= RankOf(lat, pct)
         /\ RankOf(lat, pct) < UpTo(lat, NearestRank(lat, pct))
<1>1. RankOf(lat, pct) \in 0 .. Len(lat) - 1
  <2>. DEFINE n == Len(lat)
              raw == (n * pct + 50) \div 100 - 1
  <2>1. n \in Nat /\ n > 0 /\ n * pct \in Nat
    OBVIOUS
  <2>2. raw \in Int
    BY <2>1
  <2>3. RankOf(lat, pct) = IF raw < 0 THEN 0 ELSE IF raw >= n THEN n - 1 ELSE raw
    BY DEF RankOf
  <2>. HIDE DEF n, raw
  <2>4. RankOf(lat, pct) \in 0 .. n - 1
    BY <2>1, <2>2, <2>3
  <2>. QED  BY <2>4 DEF n
<1>2. NearestRank(lat, pct) =
        CHOOSE v \in Samples(lat) : Below(lat, v) <= RankOf(lat, pct) /\ RankOf(lat, pct) < UpTo(lat, v)
  <2>1. Len(lat) # 0
    OBVIOUS
  <2>. QED  BY <2>1, Zenon DEF NearestRank, Samples, Below, UpTo, RankOf
<1>3. \E v \in Samples(lat) : Below(lat, v) <= RankOf(lat, pct) /\ RankOf(lat, pct) < UpTo(lat, v)
  BY <1>1, SampleAtRank
<1>. QED  BY <1>2, <1>3, Zenon

\* The median is not above the 95th percentile.
LEMMA PercentilesOrdered ==
  ASSUME NEW lat \in Seq(Int), Len(lat) > 0
  PROVE  NearestRank(lat, 50) <= NearestRank(lat, 95)
<1>. DEFINE low == NearestRank(lat, 50)
            high == NearestRank(lat, 95)
            lower == RankOf(lat, 50)
            upper == RankOf(lat, 95)
<1>1. /\ low \in Samples(lat) /\ high \in Samples(lat)
      /\ Below(lat, low) <= lower /\ upper < UpTo(lat, high)
  BY NearestRankIsASample
<1>2. low \in Int /\ high \in Int
  BY <1>1, SamplesFinite
<1>3. lower \in Int /\ upper \in Int /\ lower <= upper
  BY DEF RankOf
<1>. HIDE DEF low, high, lower, upper
<1>4. CASE high < low
  <2>. DEFINE reached == {i \in 1 .. Len(lat) : lat[i] <= high}
              passed == {i \in 1 .. Len(lat) : lat[i] < low}
  <2>1. reached \in SUBSET passed
    <3>1. \A i \in 1 .. Len(lat) : lat[i] \in Int
      OBVIOUS
    <3>. QED  BY <1>2, <1>4, <3>1
  <2>2. IsFiniteSet(passed)
    <3>1. passed \in SUBSET (1 .. Len(lat)) /\ IsFiniteSet(1 .. Len(lat))
      BY CountsAreNumbers
    <3>. HIDE DEF passed
    <3>. QED  BY <3>1, FS_Subset
  <2>3. UpTo(lat, high) <= Below(lat, low)
    <3>1. Cardinality(reached) <= Cardinality(passed)
      <4>. HIDE DEF reached, passed
      <4>. QED  BY <2>1, <2>2, FS_Subset
    <3>. QED  BY <3>1 DEF UpTo, Below
  <2>4. UpTo(lat, high) \in Nat /\ Below(lat, low) \in Nat
    BY <1>2, CountsAreNumbers, Zenon
  <2>. QED  BY <1>1, <1>3, <2>3, <2>4
<1>. QED  BY <1>2, <1>4 DEF low, high

-----------------------------------------------------------------------------
(* The report's times                                                       *)

\* With one read loop the times are in order: the session's first chunk, a
\* frame's first chunk, its completion, the session's last chunk.
TimesInv ==
  /\ lastCompletedAt <= lastChunkAt
  /\ \A f \in FrameIDs : frames[f].status # "absent" =>
       /\ firstChunkAt # Never
       /\ firstChunkAt <= frames[f].firstChunkAt /\ frames[f].firstChunkAt <= lastChunkAt
  /\ lastCompletedAt = Never <=> Len(latencies) = 0
  /\ lastCompletedAt # Never => firstChunkAt # Never
  /\ \A i \in 1 .. Len(latencies) :
       0 <= latencies[i] /\ latencies[i] <= lastCompletedAt - firstChunkAt

LEMMA TimesInit == Init => TimesInv
  BY DEF Init, TimesInv, Absent, Frame, Never

\* A chunk is taken in: the times move on, and what frame g has is dated between.
LEMMA TimesArrive ==
  ASSUME SafetyInv, ClockInv, TimesInv, NEW c \in Callers, Arrived(c)
  PROVE  /\ call[c].at \in Nat /\ lastChunkAt' = call[c].at
         /\ lastChunkAt <= lastChunkAt' /\ firstChunkAt' # Never /\ firstChunkAt' <= lastChunkAt'
         /\ firstChunkAt # Never => firstChunkAt' = firstChunkAt
         /\ firstChunkAt' \in Nat
<1>1. call[c].op = "ingest" /\ call[c].at \in Nat
  BY CallFields DEF Arrived, SafetyInv, TypeOK
<1>2. lastChunkAt <= call[c].at /\ firstChunkAt <= lastChunkAt
  BY <1>1 DEF ClockInv
<1>3. firstChunkAt \in Time /\ lastChunkAt \in Time
  BY DEF SafetyInv, TypeOK
<1>. QED  BY <1>1, <1>2, <1>3 DEF Arrived, FirstSeen, Never, Time

LEMMA TimesNext ==
  SafetyInv /\ ClockInv /\ TimesInv /\ [Next]_vars => TimesInv'
<1>. SUFFICES ASSUME SafetyInv, ClockInv, TimesInv, [Next]_vars  PROVE TimesInv'
  OBVIOUS
<1>. USE DEF frameVars, endVars, finalVars
<1>a. /\ frames \in [FrameIDs -> FrameRecords] /\ latencies \in Seq(Int)
      /\ {firstChunkAt, lastChunkAt, lastCompletedAt} \subseteq Int
      /\ \A f \in FrameIDs : frames[f].firstChunkAt \in Int
  BY DEF SafetyInv, TypeOK, FrameRecords, Time, Never
<1>1. CASE UNCHANGED <<frames, firstChunkAt, lastChunkAt, lastCompletedAt, latencies>>
  BY <1>1 DEF TimesInv
<1>2. ASSUME NEW S \in SUBSET FrameIDs, \A f \in S : frames[f].status = "pending",
             frames' = [f \in FrameIDs |-> IF f \in S THEN GivenUp(frames[f]) ELSE frames[f]],
             UNCHANGED <<firstChunkAt, lastChunkAt, lastCompletedAt, latencies>>
      PROVE  TimesInv'
  <2>1. ASSUME NEW f \in FrameIDs
        PROVE  /\ frames'[f].firstChunkAt = frames[f].firstChunkAt
               /\ frames'[f].status = "absent" <=> frames[f].status = "absent"
    BY <1>2, <1>a DEF GivenUp, FrameRecords
  <2>. QED  BY <1>2, <2>1 DEF TimesInv
<1>3. ASSUME NEW c \in Callers, Arrived(c), UNCHANGED <<frames, lastCompletedAt, latencies>>
      PROVE  TimesInv'
  BY <1>3, <1>a, TimesArrive DEF TimesInv
\* Frame g gets a chunk; it is dated from its first chunk, this one or an earlier.
<1>4. ASSUME NEW c \in Callers, IngestPart(c) \/ IngestLastPart(c)
      PROVE  TimesInv'
  <2>a. PICK h, now, fs : h = call[c].h /\ now = call[c].at /\ fs = FrameOf(h, now)
    OBVIOUS
  <2>b. PICK g, full : g = h.frameID /\ full = Stored(fs, h)
    OBVIOUS
  <2>1. Arrived(c) /\ h \in Headers /\ now \in Nat /\ g \in FrameIDs
    <3>1. h \in Headers /\ now \in Nat
      BY <1>4, <2>a, CallFields DEF SafetyInv, TypeOK, IngestPart, IngestLastPart, Arrived
    <3>. QED  BY <1>4, <2>b, <3>1, HeaderFields DEF IngestPart, IngestLastPart
  <2>2. /\ lastChunkAt' = now /\ lastChunkAt <= now
        /\ firstChunkAt' # Never /\ firstChunkAt' <= now /\ firstChunkAt' \in Nat
        /\ firstChunkAt # Never => firstChunkAt' = firstChunkAt
    BY <2>1, <2>a, TimesArrive
  <2>3. fs \in FrameRecords
    BY <2>1, <2>a, FrameOfType DEF SafetyInv, TypeOK
  <2>4. full \in FrameRecords /\ full.firstChunkAt = fs.firstChunkAt
    BY <2>1, <2>3, <2>b, StoredType
  <2>5. /\ fs.firstChunkAt \in Int
        /\ firstChunkAt' <= fs.firstChunkAt /\ fs.firstChunkAt <= now
    <3>1. CASE frames[g].status = "absent"
      <4>1. fs.firstChunkAt = now
        BY <2>a, <2>b, <3>1 DEF FrameOf, Frame
      <4>. QED  BY <2>1, <2>2, <4>1
    <3>2. CASE frames[g].status # "absent"
      <4>1. fs = frames[g]
        BY <2>a, <2>b, <3>2 DEF FrameOf
      <4>2. /\ firstChunkAt # Never /\ frames[g].firstChunkAt \in Int
            /\ firstChunkAt <= frames[g].firstChunkAt /\ frames[g].firstChunkAt <= lastChunkAt
        BY <1>a, <2>1, <3>2 DEF TimesInv
      <4>. QED  BY <1>a, <2>1, <2>2, <4>1, <4>2
    <3>. QED  BY <3>1, <3>2
  <2>6. PICK new \in {full, Completed(full)} : frames' = [frames EXCEPT ![g] = new]
    BY <1>4, <2>a, <2>b DEF IngestPart, IngestLastPart
  <2>7. new.firstChunkAt = fs.firstChunkAt
    BY <2>4, <2>6 DEF Completed, FrameRecords
  <2>8. ASSUME NEW f \in FrameIDs, frames'[f].status # "absent"
        PROVE  firstChunkAt' <= frames'[f].firstChunkAt /\ frames'[f].firstChunkAt <= lastChunkAt'
    <3>1. CASE f = g
      BY <1>a, <2>2, <2>5, <2>6, <2>7, <3>1
    <3>2. CASE f # g
      <4>1. frames'[f] = frames[f]
        BY <1>a, <2>6, <3>2
      <4>2. /\ firstChunkAt # Never /\ frames[f].firstChunkAt \in Int
            /\ firstChunkAt <= frames[f].firstChunkAt /\ frames[f].firstChunkAt <= lastChunkAt
        BY <1>a, <2>8, <4>1 DEF TimesInv
      <4>. QED  BY <1>a, <2>1, <2>2, <4>1, <4>2
    <3>. QED  BY <3>1, <3>2
  <2>9. CASE IngestPart(c)
    <3>1. UNCHANGED <<lastCompletedAt, latencies>>
      BY <2>9 DEF IngestPart
    <3>2. lastCompletedAt <= lastChunkAt'
      BY <1>a, <2>1, <2>2 DEF TimesInv
    <3>. QED  BY <1>a, <2>2, <2>8, <3>1, <3>2 DEF TimesInv
  <2>10. CASE IngestLastPart(c)
    <3>1. lastCompletedAt' = now /\ latencies' = Append(latencies, now - full.firstChunkAt)
      BY <2>10, <2>a, <2>b DEF IngestLastPart
    <3>2. PICK x \in Int : x = now - full.firstChunkAt /\ 0 <= x /\ x <= now - firstChunkAt'
      <4>. DEFINE x == now - full.firstChunkAt
      <4>1. full.firstChunkAt = fs.firstChunkAt /\ now \in Int /\ firstChunkAt' \in Int
        BY <2>1, <2>2, <2>4
      <4>2. x \in Int /\ 0 <= x /\ x <= now - firstChunkAt'
        BY <2>5, <4>1
      <4>. QED  BY <4>2
    <3>3. /\ Len(latencies') = Len(latencies) + 1 /\ latencies'[Len(latencies) + 1] = x
          /\ \A i \in 1 .. Len(latencies) : latencies'[i] = latencies[i]
      BY <1>a, <3>1, <3>2
    <3>4. ASSUME NEW i \in 1 .. Len(latencies')
          PROVE  0 <= latencies'[i] /\ latencies'[i] <= lastCompletedAt' - firstChunkAt'
      <4>1. CASE i = Len(latencies) + 1
        BY <3>1, <3>2, <3>3, <4>1
      <4>2. CASE i # Len(latencies) + 1
        <5>1. i \in 1 .. Len(latencies) /\ latencies[i] \in Int
          BY <1>a, <3>3, <4>2
        <5>2. /\ 0 <= latencies[i] /\ latencies[i] <= lastCompletedAt - firstChunkAt
              /\ firstChunkAt # Never /\ lastCompletedAt <= lastChunkAt
          BY <1>a, <5>1 DEF TimesInv
        <5>3. latencies'[i] = latencies[i] /\ firstChunkAt' = firstChunkAt
          BY <2>2, <3>3, <5>1, <5>2
        <5>. QED  BY <1>a, <2>1, <2>2, <3>1, <5>1, <5>2, <5>3
      <4>. QED  BY <4>1, <4>2
    <3>5. Len(latencies') # 0 /\ lastCompletedAt' # Never
      BY <1>a, <2>1, <3>1, <3>3 DEF Never
    <3>. QED  BY <2>1, <2>2, <2>8, <3>1, <3>4, <3>5 DEF TimesInv
  <2>. QED  BY <1>4, <2>9, <2>10
<1>5. ASSUME NEW c \in Callers, CallBegins(c)
      PROVE  TimesInv'
  BY <1>1, <1>5 DEF CallBegins, IngestCall, MarkEndCall, ClosedCall, Enter, NoteWrongSession,
     NoteProtocolError, NoteRejected
<1>6. ASSUME NEW c \in Callers, CallProceeds(c)
      PROVE  TimesInv'
  <2>1. CASE IngestLate(c) \/ IngestMismatch(c) \/ IngestDuplicate(c)
    BY <1>3, <2>1 DEF IngestLate, IngestMismatch, IngestDuplicate
  <2>2. CASE IngestAfterFinalize(c) \/ MarkEnd(c) \/ NoteTransportClosed(c)
              \/ \E failed \in BOOLEAN : SinkReturns(c, failed)
    BY <1>1, <2>2 DEF IngestAfterFinalize, MarkEnd, NoteTransportClosed, SinkReturns
  <2>. QED  BY <1>4, <1>6, <2>1, <2>2 DEF CallProceeds, Ingest
<1>7. CASE Sweep
  <2>1. PICK S \in SUBSET FrameIDs : S = {f \in FrameIDs : Expired(frames[f], sweeper.now)}
    OBVIOUS
  <2>2. \A f \in S : frames[f].status = "pending"
    BY <2>1 DEF Expired
  <2>3. frames' = [f \in FrameIDs |-> IF f \in S THEN GivenUp(frames[f]) ELSE frames[f]]
    BY <1>7, <2>1 DEF Sweep
  <2>. QED  BY <1>2, <1>7, <2>2, <2>3 DEF Sweep
<1>8. CASE Finalize
  <2>1. PICK S \in SUBSET FrameIDs : S = {f \in FrameIDs : frames[f].status = "pending"}
    OBVIOUS
  <2>2. frames' = [f \in FrameIDs |-> IF f \in S THEN GivenUp(frames[f]) ELSE frames[f]]
    BY <1>8, <2>1 DEF Finalize, ClosedFrames
  <2>. QED  BY <1>2, <1>8, <2>1, <2>2 DEF Finalize
<1>9. CASE Tick \/ SweepTick \/ CheckFinalize \/ UNCHANGED vars
  BY <1>1, <1>9 DEF Tick, SweepTick, CheckFinalize, vars
<1>. QED  BY <1>5, <1>6, <1>7, <1>8, <1>9 DEF Next, SweepLoop

\* What Finalize reports of the latencies.
LEMMA FinalizeTimes ==
  ASSUME SafetyInv, TimesInv, Finalize
  PROVE  ReportTimesCoherent'
<1>. DEFINE r == finalReport'
<1>1. /\ r.latencyP50 = NearestRank(latencies, 50) /\ r.latencyP95 = NearestRank(latencies, 95)
      /\ r.total = IF firstChunkAt # Never /\ lastCompletedAt # Never
                     THEN lastCompletedAt - firstChunkAt ELSE 0
  BY DEF Finalize, BuildReport
<1>2. latencies \in Seq(Int)
  BY DEF SafetyInv, TypeOK
<1>3. CASE Len(latencies) = 0
  <2>1. NearestRank(latencies, 50) = 0 /\ NearestRank(latencies, 95) = 0
    BY <1>3 DEF NearestRank
  <2>2. r.total = 0
    BY <1>1, <1>3 DEF TimesInv
  <2>. QED  BY <1>1, <2>1, <2>2 DEF ReportTimesCoherent
<1>4. CASE Len(latencies) # 0
  <2>. DEFINE low == NearestRank(latencies, 50)
              high == NearestRank(latencies, 95)
  <2>1. Len(latencies) > 0
    BY <1>2, <1>4
  <2>2. low \in Samples(latencies) /\ high \in Samples(latencies) /\ low <= high
    <3>1. 50 \in Nat /\ 95 \in Nat
      OBVIOUS
    <3>. QED  BY <1>2, <2>1, <3>1, NearestRankIsASample, PercentilesOrdered
  <2>3. r.total = lastCompletedAt - firstChunkAt
    BY <1>1, <1>4 DEF TimesInv
  <2>4. \A v \in Samples(latencies) : 0 <= v /\ v <= r.total
    BY <2>3 DEF Samples, TimesInv
  <2>. QED  BY <1>1, <2>2, <2>4 DEF ReportTimesCoherent
<1>. QED  BY <1>3, <1>4

LEMMA ReportTimesNext ==
  SafetyInv /\ SweeperInv /\ TimesInv /\ ReportTimesCoherent /\ [Next]_vars => ReportTimesCoherent'
<1>. SUFFICES ASSUME SafetyInv, SweeperInv, TimesInv, ReportTimesCoherent, [Next]_vars
              PROVE  ReportTimesCoherent'
  OBVIOUS
<1>1. CASE finalized
  <2>1. UNCHANGED <<finalized, finalReport>>
    BY <1>1, ClosedStep DEF finalVars
  <2>. QED  BY <2>1 DEF ReportTimesCoherent
<1>2. CASE ~finalized /\ finalized'
  BY <1>2, OnlyFinalizeCloses, FinalizeTimes
<1>3. CASE ~finalized'
  BY <1>3 DEF ReportTimesCoherent
<1>. QED  BY <1>1, <1>2, <1>3

\* With one read loop no latency is negative, the median is not above the 95th
\* percentile, and neither is above the time the capture took.
THEOREM ReportTimesAgree == Spec /\ []OneIngest => []ReportTimesCoherent
<1>1. SafetyInv => TypeOK
  BY DEF SafetyInv
<1>2. Init => ReportTimesCoherent
  BY DEF Init, ReportTimesCoherent
<1>. QED
  BY <1>1, <1>2, SweeperInvariant, ClockInit, ClockNext, TimesInit, TimesNext, ReportTimesNext, PTL
     DEF Spec
=============================================================================
