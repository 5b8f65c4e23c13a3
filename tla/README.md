# A verification model of the face-capture proof of concept

The system measures how well short bursts of camera frames survive an unreliable
channel. A browser captures about three seconds of video, cuts each encoded frame into
chunks of at most 1100 payload bytes, and sends them paced over a WebRTC data
channel without order or retransmission, or over a WebSocket when WebRTC does not
connect. A Go server rebuilds the frames, stores those that decode, fuses them into
one image, and consolidates a report of what arrived: complete, partial and lost
frames, duplicates, late chunks, latencies.

The report is the product. What has to be right is therefore that each frame is
decided exactly once, that the report says of every frame and every datagram what
became of it, and that every session ends with its report on disk, although chunks
arrive in any order and several goroutines work on the session at once.

## Inventory

### Server (`src/backend`)

| Component | State | Operations | Interacts with | Hard part |
|---|---|---|---|---|
| Reassembler (`internal/reassembler`) | frames by identifier, counters, first/last times, END, close and final report, under `r.mu` | `Ingest`, `MarkEnd`, `NoteTransportClosed`, `NoteWrongSession`, `NoteProtocolError`, `Sweep`, `ShouldFinalize`, `Finalize`, `Live` | called by read loops, HTTP handlers and the sweep loop; calls the store's sink outside the mutex | clock read before the lock; sink after it; decision and closing in two critical sections; loss, duplicates, reordering |
| Report (`report.go`) | none | `buildReportLocked`, `percentileMs` | reads the reassembler's state at closing | claims that contradict what was seen; nearest rank at the edges |
| Session (`internal/session/session.go`) | `state`, `transport`, `clientStats`, `report` under `s.mu`; channel `done` | `MarkCapturing`, `MarkEnding`, `SetClientStats`, `finalizeOnce`, `persistReport`, `sweepLoop` | one reassembler and one store each | two mutexes per operation; the report file is written under none; state visible before its consequences |
| Manager (`manager.go`) | sessions by id and by sequence number, next number | `Create`, `ByID`, `evictLoop` | HTTP handlers, sessions | wrap of 16-bit numbers, eviction against traffic, abandoned sweep loops |
| Ingest (`internal/transport/ingest.go`) | none | `HandleDatagram`, `HandleControl` | both adapters; protocol, session, reassembler | order of `MarkEnd` and `MarkEnding` |
| WebSocket and WebRTC adapters | the connection | read loop, `CreateAnswer`, callbacks | session, ingest | two transports on one session; when a loop ends |
| Store (`internal/storage`) | saved frames, composite, `decodeSkipped`; files | `OnFrameComplete`, `Composite`, `WriteReport`, `ReadReport`, `List` | called by reassembler, session and HTTP | disk steps between locks; files seen half written |
| Protocol (`internal/protocol`) | none | `EncodeChunk`, `DecodeChunk` | ingest | order of the checks, agreement with the client's encoder |
| HTTP API, presets, configuration, start-up | none of their own | routing, polling, `client-stats` | manager, sessions, store | what a poller may see |

### Client (`src/frontend/src`)

| Component | State | Operations | Interacts with | Hard part |
|---|---|---|---|---|
| PacedSender (`transport/sender.ts`) | queue of frames, one timer, `stopped`, the flush promise, stats | `enqueueFrame`, `flushAndStop`, `abort`, `tick` | capture loop, channel | the single timer under backpressure, eviction of a half-sent frame, a channel that dies |
| Capture loop (`capture/captureLoop.ts`) | `busy`, frame counter, encode in flight, timers | `tick`, `finish`, `cancel` | encoder, sender, channel | promises that never settle, cancel against finish, END repeated |
| Channel selection (`transport/connect.ts`, `webrtc.ts`, `websocket.ts`) | the attempts | `connectTransport` | server signalling, both channels | the WebRTC attempt that opens after the fallback |
| Chunker and header (`transport/chunker.ts`, `protocol/header.ts`) | none | `chunkFrame`, `encodeChunk` | capture loop | 255 chunks at most, last payload, field widths |
| Encoders, camera, screens, API client | browser objects | | | outside what a model checker sees |

### What makes each component correct

- Reassembler: each frame is decided once and handed over once, and what is handed
  over is one encoding of it, whole; every datagram is in exactly one counter or
  slot; a session closes only when one of its conditions has held, and what its report was
  made of then stays.
- Report: figures that agree with the frames and with each other.
- Session: the state says only what the reassembler and the disk back, moves only
  forward, and ends in a readable `report.json` that has the client's stats.
- Manager: no two live sessions share a number; a live capture is not evicted; no
  goroutine outlives its session.
- Adapters: a message reaches the session of its connection; the channel that lost
  the race does not end the capture of the one that won.
- Sender: chunks are paced, no frame goes missing from the books, the queue always
  moves while the channel does, and the flush ends.
- Channel selection: connecting ends, with one channel, and leaves nothing behind on
  the server.
- Store: what is announced is on disk and whole; the composite is made of what the frames
  show.
- Capture loop: one encode at a time, END after the last chunk, and an end.
- Protocol: what one side encodes the other decodes, and nothing else decodes.

## Plan

Done:

1. `FrameLifecycle`, the abstract promise of the reassembler; `Reassembler`, which
   implements it; `ReassemblerProofs`, and `ReassemblerReportProofs` for the report and
   the closing.
2. `SessionLifecycle`, the abstract promise of a session; `Session`, which extends the
   reassembler by everything around it and implements that promise; `SessionProofs`.
3. `Manager`: many sessions in one table, each of which still implements
   `SessionLifecycle`; `ManagerProofs`.
4. `PacedSender`, and `CaptureLoop` around it; `CaptureLoopProofs`.
5. `Connect`: the client's choice of a channel, both adapters and what they do to the
   session; `ConnectProofs`.
6. `Protocol`: chunking, encoding and the two decoders; `ProtocolProofs`.
7. `SessionStore`: the files of a session and the composite; `SessionStoreProofs`.

Left:

- `EndToEnd`: sender, a channel that loses, duplicates and reorders, and the
  reassembler in one state space. Each half is checked against every input the other
  can give it (`Reassembler` takes arbitrary chunks, `CaptureLoop` an arbitrary
  channel), so what is left is the relation of the two ends' figures, and its proof for any loss.

## The modules and the code

### `Reassembler`

The unit of atomicity is a critical section of `r.mu`. Each method reads `r.clock()`
before it locks, so a call is a step that enters (`IngestCall`, `MarkEndCall`,
`ClosedCall`, with the time it read) and a step that runs under the mutex. `call[c]`
says where caller `c` is; a caller is any goroutine that handles one message at a
time: a WebSocket read loop, a data channel's callbacks, an HTTP handler. The early
returns of `Ingest` are one action each, in the code's order: `IngestAfterFinalize`,
`IngestLate`, `IngestMismatch`, `IngestDuplicate`, and then `IngestPart` or
`IngestLastPart`. The latter leaves the caller in the sink with the assembled frame;
`SinkReturns` is the return of `OnFrameComplete`, which may count a decoding error
under the mutex. The sweep loop is one more process: `SweepTick` reads its clock once,
`Sweep`, `CheckFinalize` and `Finalize` are its three critical sections.
`sweeper.last` is history: the last chunk the decision to close was made by, for
`GraceHonoured`.

| State in the model | Field |
|---|---|
| `frames[f].status` | presence in `r.frames` and `frameState.status` |
| `frames[f].chunks`, `received`, `total`, `codec`, `firstChunkAt` | the same fields; the slice of buffers is the set of chunks stored |
| `count` | the six counters |
| `firstChunkAt`, `lastChunkAt`, `lastCompletedAt`, `endMarked`, `endAt`, `closedAt`, `framesSentClaim`, `finalized`, `finalReport` | the same fields; `Never` is the zero time |
| `deliveries`, `arrivals` | none: what the store and the transports have seen |

A payload is identified with its header, which is what lets `DeliveredIntact` say from
which chunks a frame was built. Flags, bytes, the bitrate derived from bytes and the
`receivedPct` of a partial frame are not kept (the report keeps received and total).

### `FrameLifecycle`

Frames without chunks, clocks or locks: start, complete, expire, hand over, close.
`Reassembler` implements it with `phase` read off the status, `handed` off the
deliveries and `closed` off `finalized`.

### `Session`

Extends `Reassembler` by the session's own mutex and everything that happens under
neither mutex. `thread[w]` is the position of goroutine `w` inside a method of the
session: between `MarkEnd` and `MarkEnding` in `HandleControl`; between `MarkEnd` and
the session's lock in `SetClientStats`; at each of the steps of `finalizeOnce`
(`Finalize`, done, the frames loaded for the composite, the composite, the report); and
inside `persistReport` at its copy under the mutex, its marshalling, and the truncation and the
write that `os.WriteFile` consists of.
A shorter document written over a longer one leaves its tail behind, so two writers
can leave `garbled` text: `Overwritten` gives the outcomes the sizes allow. The disk may
refuse to open the file (`OpenFails`) or fail in the middle of the write (`WriteFails`); the
code logs the error and goes on. `statsInTime`, `statsLate` and `writeFailed` are history:
when stats were attached, and whether a write failed.
`HandleDatagram` is `MarkCapturing` followed by the entry of `Ingest`: nothing the
model tells apart happens between the two.

`OneSession` maps it to `SessionLifecycle`: `heard` is that the reassembler has an
END, a close or a chunk, `running` that the loop has not returned.

### `SessionLifecycle`

A session without frames, locks or files: the first chunk, the END, the consolidation by
its own loop once something was heard, and the return of the loop. `Session` implements
it with the real methods and its fairness; `Manager` implements it once per session.

### `Manager`

`m.mu` is a variable that names its holder, because two critical sections of the code
are long: the search for a number, one `TryNumber` per turn, and a round of `evictLoop`,
which reads each state (`ReadState`) under the session's own mutex and judges it later
(`Judge`). A connection resolves one session, keeps the `*Session` and goes on calling it
after eviction. Each call is a step of its own, for each takes another mutex: a datagram is
`MarkCapturing` and then `Ingest`, an END is `MarkEnd` and then `MarkEnding`, and the last
thing a connection does is `Leave`, the close of its channel or the claim of client-stats.
Of the reassembler the module keeps what `ShouldFinalize` needs, `ingested` and `told`; times
of the grace, frames and files are left to `Session`. `evictor.silent` is history: the sessions
that no chunk had reached when the round took the mutex.

| State in the model | Field |
|---|---|
| `byID`, `bySeq`, `nextSeq`, `mu` | the same fields of `Manager`; `bySeq[n] = NoSession` is a missing entry |
| `createdAt`, `seq`, `state` | fields of `Session` |
| `ingested[s]`, `told[s]` | the session's reassembler: `lastChunkAt` is set; `endMarked` or `closedAt` is |
| `conn` | the variable `s` of a handler, and which of two calls it is between |
| `loop` | the goroutine of `sweepLoop`; "closing" is inside `finalizeOnce` |
| `creator`, `evictor` | local variables and position of `Create` and of `evictLoop` |

### `PacedSender`

JavaScript runs a callback at a time, so each method and the timer callback is one
step. `timer` is the time left of the only timer. The channel is external: it may
congest on a send (`bufferedAmount` above the limit), drain, or die. A closed
WebSocket swallows a chunk, a closed data channel throws out of `tick`.

### `CaptureLoop`

Extends `PacedSender` by `runCapture`: the interval, the encode in flight, `finish` as
the sequence of its awaits (`finish` is "timer", "encode", "flush", "spacing",
"resolved") and `cancel`. Promise continuations run before any other callback: a step
that is not a continuation is guarded by `~Due`. The encoder is external: it answers with
a frame, without one, throws before it returns its promise, or never answers when it has
not to (only the run with fairness obliges it to). Progress callbacks and averages are
left out; `unsent` counts the identifiers that never became a frame.

### `Connect`

The client's side of `connectTransport` and of the capture callback of `App.tsx`, and
the server's `CreateAnswer` with its callbacks, `Accept` with its read loop, `SetTransport`
and `NoteTransportClosed`. One client timer counts down (the WebRTC budget, the
WebSocket's timeout, then the capture), `attempt` is the WebRTC attempt wherever the client
has gone meanwhile, `pc` and `wsLoop` are the two ends on the server. Of a chunk
only its arrival is kept: the reassembler is `closed`, `endMarked`, the grace they start and
the idle timeout that each chunk restarts. `OpensLate` is the
handler of `connect.ts` that closes an attempt which opens after the fallback.

### `Protocol`

A datagram is a sequence of bytes, and a byte has `Byte` values: 256 in the code, 8 in
the run. Every width of the header is kept as two of them or one, so that carries, ranges
and the limit of `Byte - 1` chunks are where they are in the format. `DecodeChunk` and
`DecodeChunkTS` are the two implementations, in the order of their checks; the header's
layout, the same twelve bytes on both sides, is written once. A behaviour cuts a frame with
`chunkFrame` and puts one of its chunks on the wire, where it may be changed in one byte or
resized.

### `SessionStore`

`OnFrameComplete` is the steps of one read loop: the decision by codec, the write,
ffmpeg or the skipped decode, and the entry into the list under the mutex; each write and
each ffmpeg process may fail and leave a torn file, or none. `Composite` is a listing
under the mutex, the fusion, the write and `setComposite`. A picture is its size and the three
channels of each pixel; the loaded frames are a function from their identifiers, and the
first one, whose size decides, is that of the least identifier. The fusion is computed on pictures of a few pixels: luma,
energy and the sharpest frame as reference (`Reference`), the least sum of absolute
differences over the search window in the order of the loops (`BestShift`), the median of
the frames that reach a pixel (`Fused`). What bytes decode to is an input (`Pictures`), and
encoding again keeps a channel to `Quantum`.

### The instances for TLC

`MCReassembler`, `MCSession`, `MCManager`, `MCCaptureLoop`, `MCConnect`, `MCProtocol` and
`MCSessionStore`.

## What the runs check

| Run | Question | Answer |
|---|---|---|
| `ReassemblerReport` | do the figures and times of the report agree with the frames, is the closing justified, and is it final | holds |
| `ReassemblerRace` | does any interleaving of two callers and the sweep loop mix, lose or repeat a frame, or drop a datagram from the books; is the life cycle implemented | holds |
| `Session` | is the session's state backed by the reassembler and the disk, does a file follow every done, does every session that heard something end with its report whole (unless a write failed or stats came late), and is the promise of a single session kept | holds |
| `Manager` | do the two maps agree however numbers wrap, does the search end, does eviction forget what is done and spare what captures, and do connections that call in several steps, sweep loops and eviction keep each session's life cycle | holds |
| `CaptureLoop` | pacing, eviction, accounting from identifier to outcome, END as the last word, silence after a cancel, and an end | holds |
| `Connect` | what can end a capture early, which channel the report names, does connecting end, and does the server let go | holds |
| `Protocol` | does the server rebuild what the client cuts, do both decoders agree on every datagram, and is nothing else ingested | holds |
| `SessionStore` | is what is announced on disk and whole, and does the fusion align, reject outliers, invent nothing and count right | holds |
| `SessionStatsReported` | are client-stats always in the file in the end | no: a lost update, or a garbled file |
| `ManagerEvictedLoop` | does the goroutine of an evicted session end | no: not of one that was never heard of |
| `CaptureDeadChannel` | does a capture resolve on a dead channel, so that client-stats can be the END | no: `send` throws out of the timer and none is left |
| `ConnectOrphan` | does an attempt that opens late leave the capture on the WebSocket alone | no: its close starts the grace of the session |

The runs that end in a counterexample are listed with the quoted claim in the findings
of `PROJECT.json`. The type invariants of the modules whose proofs hold for every value of
the constants (`Reassembler`, `Session`, `Manager`, `PacedSender`, `Connect`), and the invariants
`FramesWellFormed`, `DoneHasReport` and `StateMonotonic` proved with them, are not checked
again by a run.

### Known differences that no run shows

Smaller disagreements of the code with itself or with its comments, met while modelling:

- A decoding error of a frame that completed just before closing is counted after
  `Finalize`, so the report misses it (`reassembler.go:179` against the comment at `:35`).
- `done` is visible before the composite and `report.json` exist (`session.go:112` against the
  comment at `:102`), while the integration test reads the report once the state is done
  (`integration_test.go:127`, `:165`). `FileFollowsDone` says how long the file may be missing.
- The composite is made from the frames the store has by then; one that is complete and
  still decoding is missing (`session.go:119` against `composite.go:15`).
- A claim, an END, a close or a counter may still change after `Finalize`; the report does not
  (`reassembler.go:106`, `:180`, `:225`). `ClosedSessionIsFrozen` says which.
- A failing write of `report.json` leaves a done session without a readable report; the error
  is only logged (`session.go:146`).
- Chunks are an interval apart only while the queue does not run empty: a frame offered to
  an empty queue starts at once (`sender.ts:75`).
- `CreateAnswer` that fails after its callbacks were installed notes a close on a session
  whose client is about to fall back (`webrtc.go:135-149`); `OnlyStrayEndsCapture` counts it
  among the causes that may end a capture.
- A first tick that throws leaves the interval of `runCapture` set (`captureLoop.ts:102`).
- A late attempt that never opens is not closed by the client, and one that opens overwrites
  the transport of the session (`session.go:50`).
- The WebSocket's read loop does not end when the session is consolidated
  (`websocket.go:18-20`).
- In the composite a tie prefers the first offset tried, the most negative one
  (`composite.go:224`); pictures of at most twice the shift are never aligned (`:221`); the
  median of two frames is the larger value (`:250`); a damaged frame may be the sharpest
  (`:66`); the first frame's size decides which frames are fused (`:48`).
- An exception in `App.tsx` between connecting and closing leaves the channel open
  (`App.tsx:104`).

### Bounds

- Reassembler: one or two frame identifiers, `{0, 2}` in the report so that an
  identifier below the largest is never seen; frames of one or two chunks, enough for
  an empty slot, a duplicate, reordering and disagreement about the total; two codecs
  where a mismatch matters; three datagrams (`MaxDatagrams`), enough for a duplicate
  and a completion, a completion and a late chunk, or a frame completed beside a
  partial one. Calls start until time `Horizon`, the clock runs to `MaxClock`, late
  enough for every timeout to pass. Timeouts are one or two units, different from each
  other where an exchange would matter.
- Session: one frame of one chunk, one reading goroutine, one HTTP handler and the
  sweep loop: a session with or without frames, and each pair of goroutines racing
  through every step; calls start until time 1 and the clock runs to 2, where every grace has
  passed. `SessionStatsReported` lets a post start after the session was done.
- Manager: three sessions over two numbers, so that the search wraps, passes over a live
  number, takes one that eviction freed and meets a full table; a TTL of 0 and one tick, so
  that a session is evictable in the round after its creation. One creator: the mutex is
  held by a creator or by the evictor. One connection: between two of its calls its session's
  loop and the evictor go on. Several creators and connections are covered by the proofs.
- CaptureLoop: an interval of two units, so that early differs from on time; a queue of
  three, as in the code; frames of one or two chunks, so that a head may be half sent; five
  frames, enough to evict with the head started and not. The run of the dead channel is
  smaller: two frames are enough.
- Connect: half seconds. The budget, the WebSocket's timeout, the capture, the grace and the
  idle timeout are 8, 10, 8, 4 and 10, as in the code up to the capture's length, which keeps
  the order of every two of the client's timers; a capture whose flush drags on lasts longer
  than its time, so that the idle timeout may run out in it.
- Protocol: a byte of 8 values, so that a carry and the largest number are within reach;
  lengths 0, 1, one payload and one more, the largest number of chunks and one more byte;
  limits of 0, 2, the maximum and one more; numbers with and without a carry, at the end of
  the width and past it.
- SessionStore: three frames, so that a median has a majority; two read loops; pictures of 5
  by 5 and a shift of one, the smallest with an inner window, borders and offsets; a scene,
  the same one shaken, damaged, flat and smaller; one fault.

Symmetry is used only in runs without liveness, over codecs (only compared), callers
(any may call anything) and read loops. Deadlock is not checked: a session whose loop
stopped, a sender that was flushed, a client that is done, a frame that was cut and a store
whose frames were all handed over are at rest.

### Fairness

- `SFairSpec` of `Session`: time passes, the session's loop is scheduled, and a goroutine
  inside a method goes on; Go's scheduler, mutexes and ticker give that, and the disk is
  assumed to answer. Nothing obliges a client to send anything, so the liveness property
  starts from a session that heard an END, a close or a chunk.
- `FairSpec` of `Manager`: the same for the evictor, the creators inside `Create` and the
  sweep loops. Taking `m.mu` is strongly fair: a Go mutex hands itself to a waiter that has
  starved for a millisecond. Nobody has to create, resolve or send.
- `CFairSpec` of `CaptureLoop`: timers fire, continuations run, an open channel transmits
  what it buffers, and an encoder that gave a promise settles it. A channel need not die, nor
  live, and nobody has to cancel.
- `FairSpec` of `Connect`: timers fire, the sweep loop runs, and the server learns of a
  connection that ended (pion's connection states, a read that fails). No attempt has to
  open, no END has to arrive, and a capture on a dead channel need not end.

## What is proved

`ReassemblerProofs` proves, for every value of the constants that
`ReassemblerAssumption` admits (any set of natural frame identifiers, any total, codecs,
claims, callers and timeouts; only the sets of identifiers and callers are finite):

- `TypeCorrect`: `Spec => []TypeOK`.
- `FramesStayWellFormed`, `FramesHandedOverOnce`, `FramesDeliveredIntact`: the three
  safety properties of that name.
- `ImplementsLifecycle`: `Spec => FrameLifecycleImplemented`, the refinement of
  `FrameLifecycle`.

The argument is one inductive invariant, the conjunction of the four properties.
`HandedOverOnce` alone is not inductive: that a frame completes only once follows from
its status, and that what the completing caller carries is whole follows from the
count of filled slots, which `FramesWellFormed` ties to the chunks stored. The step
from part to whole is the counting argument of `FramesWellFormed`: `total` distinct
indices below `total` are all of them (a cardinality lemma). For the refinement a
second invariant says that the sweep loop reaches `Finalize` only while the session is
not finalized, so that `Close` happens once; the sink's return maps to `HandOver`
because `HandedOverOnce` leaves no second caller with the same frame.

`ReassemblerReportProofs` goes on with the report and the closing:

- `ClosedStaysFrozen` and `ReportsAddUp`: after `Finalize` the report, the frames and their
  times stay, no claim, END or close that was in is replaced, and late calls only count; and the
  report's counts add up, whatever END claimed.
- `DatagramsAccounted`: every ingested datagram is in one counter, one slot or one
  caller's hands. The proof counts: each step moves one element between the two sides,
  and `SeenInv` bounds what a frame holds, so that the chunks stored are a finite set.
- `ClosesAfterGrace`: `GraceHonoured`, for any callers. `DecisionInv` says what `Finalize` may
  still count on, although the decision was taken in an earlier critical section: END and
  close keep their first time, and the sweep remembers the chunk it decided by.
- `ReportTimesAgree` assumes `[]OneIngest`, that no two calls of `Ingest` overlap. Each
  channel has one read loop, so that it takes two channels on one session to break it, and
  without it the property is false: `Ingest` reads the clock before the mutex, so a caller that
  lost the race moves `lastCompletedAt` back. `TimesInv` puts first chunk, completion and last
  chunk in order, and the nearest rank is shown to be one of the samples.

`SessionProofs` builds on it, under `SessionAssumption` besides (read loops and HTTP
handlers are two disjoint sets of callers, the session's own loop is neither, and no
stats is not a value of stats):

- `SessionTypeCorrect`, `SessionDoneHasReport`, `SessionEndingHasEnd`,
  `SessionFileOnlyWhenDone`: the types, and what the state and the file stand for.
- `SessionFileFollowsDone`: a done session without its file has `finalizeOnce` before the write,
  or a write that failed, whoever else writes.
- `SessionStateMonotonic`: the action property, from the four steps that write `state`.
- `SessionHandsOverOnce`: the reassembler's guarantee inside a session.
- `SessionImplementsLifecycle`: `SSpec => OneSession!LSpec`, the safety part of the
  refinement. Beside `SessionInv` it needs `Asked`: the sweep loop goes on to `Finalize`
  only when something was heard, and marks the session done once, after its last sweep.
- `StatsReachReport`: `StatsInTimeReported` (which excepts a failed write), under `OnePost`,
  that all stats posted are the same value: the client posts once (`App.tsx:124`), and of two posts that differ the second
  can be the one that `SessionStatsReported` shows to be lost. The invariant `StatsInv` says
  that once stats are in time their handler writes no file, and that the sweep loop, then
  the only writer, has them in its copy and writes it over an empty file.

Every step of a session is a step of the reassembler or leaves it alone
(`SessionUsesReassembler`), so the reassembler's theorems hold of sessions without
being proved again. The inductive invariant is `SessionInv`. Its added part,
`Positions`, says what a goroutine relies on at each place: a handler between
`MarkEnd` and `MarkEnding` has its END recorded or still in flight, a writer of
`report.json` that is not the session's loop has seen the state done, the loop that is
about to set done has finalized, and as long as the sweeper runs the loop is in no step
of `finalizeOnce`. Without it `FileOnlyWhenDone` is not inductive, since nothing
in the state it names prevents a writer of a session still running. That END and
`Finalize` are never taken back is the lemma `NothingForgotten`.

`ManagerProofs`, for any number of creators, sessions and numbers, any TTL and any
time (`ManagerAssumption`: at least one number besides 0, and goroutines told apart):

- `ManagerTypes` and `NumbersNameOneSession`: the types with the mutex discipline, and
  `NumbersAgree`.
- `EvictionSpares`: `EvictedOldAndQuiet`, although the state is read and judged apart and a
  chunk is taken in under a third mutex.
- `EveryLifecycle`: `LifecyclesImplemented`, a refinement per session, from handlers whose
  calls are steps of their own.

Its invariant `IInv` adds three parts. `CallsInOrder`: a session that a chunk reached is not
open, a handler between `MarkEnd` and `MarkEnding` has told the reassembler, and a loop that is
closing its session heard something. `CreatorsApart`: a session being created is in
neither map and no two creators have the same one; without it a number could be given to a
session that already has one. `RoundFresh`: what the evictor has read is stale in one way
only, a session it read as open may have gone on; done is for ever.

`CaptureLoopProofs`, for any interval, queue limit, chunks and frames:

- `CaptureUsesPacedSender`: every behaviour of a capture is one of the sender, so the
  sender's invariant is enough.
- `SenderTypes`, `NeverAsleep`, `NothingLost`, `EndClosesTheBooks`, `CancelledIsSilent`,
  `ChunksArePaced`, and `StartedFrameSent`, which assumes a queue limit above one: with a limit
  of one a started frame is the only one to evict.

`SenderInv` is needed beside the accounting because a timer exists exactly when a frame is
queued, and runs out no earlier than an interval after the last chunk of the same queue
(`TimerPaces`); `DrainStopped` says that a flush that has resolved leaves the queue empty.
`CaptureInv` adds `Stages`, what each await of `finish` and a cancel leave behind, and
`Claims`, that the ENDs sent say what still holds.

`ConnectProofs`, for any budget, timeout, length of the capture, grace and idle timeout above
zero:
`ConnectTypeCorrect`, `OnlyStrayEnds` and `ReportNames`. `ConnectInv` adds to the types that
the channel is chosen once and that one that took the data channel never makes a WebSocket
(`OneChannel`), that a grace has begun for a close the server saw or an END of a capture
that was over (`EndHasCause`), and that an adapter names its transport only after its own
channel came up (`NamedByAdapter`). The two properties follow from it in a few lines; neither
is inductive, because neither says what a grace that is running was started by.

`ProtocolProofs`, for any width of a byte, payload limit, magic number and set of frames
(`ProtocolAssumption`: the header's numbers fit their fields, as the code's constants do):

- `DecodersAlwaysAgree`, `DecodedStaysCanonical`, `ResizedNeverIngested`: from facts about
  every sequence of bytes, not only those on the wire (`DecodersAgreeOnDatagrams`,
  `DecodeInvertsEncode`, `EncodeInvertsDecode`, `CutIsRejected`, `ExtendedIsRejected`).
- `ChunksAreTheFrame`: `chunkFrame` answers exactly for the frames that fit (`CutsWhatFits`),
  each chunk decodes to its own header and slice (`ChunksDecode`), and the slices in order
  are the frame. `FlattenSeq` is defined by recursion; that it is the frame is shown by
  showing that its equation has one solution, by a least counterexample, and that the
  prefixes of the frame solve it.

`WireInv` is the little state there is: the datagram under way is as long as its header says
until it is damaged, and one that was resized is not accepted.

`SessionStoreProofs`, for any finite set of frames, any size of picture, any `maxShift`,
number of faults, read loops and decoders (`StoreAssumption`: what bytes decode to is a
picture or the corrupt stream):

- `StoreTypeCorrect` and `AnnouncedStaysWhole`, from `StoreInvariant`. `StoreInv` has to
  follow a frame through the steps of its call: what a read loop is about to enter in the
  list is on disk as it wrote it, two read loops are never in one frame, and a frame that is
  saved has returned, so that nobody writes its file again. `OneFrameMoves` is the frame
  rule of these steps: a step that touches one frame and one caller leaves the rest of the
  invariant alone.
- `StillSubjectStaysSharp`, `MostFramesDecide`, `NoPixelMadeUp`, `CountsTheFused`: what the
  composite shows, from lemmas about its algorithm. The sum of differences of a picture and
  itself is zero, and zero only where they agree (`SADFacts`); the search returns the first
  least offset (`BestShiftFacts`); a median is one of the values (`MedianIsAValue`), and the
  one that most of them have (`MedianOfMajority`). `FusionInv` carries what was computed at
  the fusion to the step that announces it, two steps later.

The library's theorems for induction take an operator as a parameter. Where sums over a set
and maxima need it, `SubsetInduction` gives it for a family of subsets of one finite set, from
a least subset that is not in the family; the sum's recursion is shown to have one
solution in the same way.

Only model-checked, being out of the prover's reach: the liveness properties
(`SessionSettles`, `SearchEnds`, `DoneForgotten`, `FinishEnds`, `ConnectEnds`,
`ServerLetsGo`) and the fairness half of `LifecycleImplemented`. Every other property that a
run finds to hold is the statement of a theorem, with the hypotheses named above.

## What is not modelled

- The browser's encoders, the camera and its features, ffmpeg and the image codecs of the
  server: pure computation or devices. They appear as what they may answer.
- Routing, CORS, file names, JSON and formatting; the screens; the progress figures and the
  telemetry of `getStats`.
- Presets and configuration: read once and never changed. The set-up of the WebRTC engine
  (mux, public address, codecs of the SDP).
- ICE, DTLS and SCTP: a library, whose effect is loss, reordering, duplication and closing.
- Bytes received, the bitrate computed from them, and the throughput figures of the client.
- A crash of the server loses its sessions: nothing is reloaded, so there is no recovery to
  model.
