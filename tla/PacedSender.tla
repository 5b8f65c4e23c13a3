---------------------------- MODULE PacedSender ----------------------------
(***************************************************************************)
(* frontend/src/transport/sender.ts: the client's queue of frames and the   *)
(* timer that sends one chunk at a time.  JavaScript runs one callback at a *)
(* time, so each method and each timer callback is one step; between them   *)
(* time passes and the channel fills, drains or dies.                       *)
(***************************************************************************)
EXTENDS Integers, Sequences

CONSTANTS
  Interval,    \* intervalMs, in units of model time
  MaxQueued,   \* maxQueuedFrames
  MaxChunks,   \* bound: most chunks of a frame
  MaxFrames    \* bound: frames captured in a behaviour

ASSUME SenderAssumption ==
  /\ {Interval, MaxQueued, MaxChunks} \subseteq Nat \ {0}
  /\ MaxFrames \in Nat

VARIABLES
  queue,        \* frames with a chunk left to send
  timer,        \* time until the callback runs, NoTimer when none is set
  stopped,
  drain,        \* the promise of flushAndStop: "none", "waiting", "resolved"
  framesEnqueued, framesDropped, chunksSent,      \* stats
  kind,         \* the channel connectTransport chose
  open,         \* the channel is open
  congested,    \* transport.bufferedAmount > maxBufferedBytes
  framesSent, framesAborted,   \* history: frames that left the queue otherwise
  sinceSend,    \* history: time since the last chunk was sent, up to Interval
  backlog       \* history: the queue was not empty after the last chunk

stats     == <<framesEnqueued, framesDropped, chunksSent>>
channel   == <<kind, open, congested>>
history   == <<framesSent, framesAborted, sinceSend, backlog>>
senderVars == <<queue, timer, stopped, drain, stats, channel, history>>

NoTimer == -1
Kinds   == {"webrtc", "websocket"}

\* Frames are numbered in the order of enqueueFrame.
QueuedFrames == [id : Nat, size : 1 .. MaxChunks, next : Nat]

Init ==
  /\ queue = <<>> /\ timer = NoTimer /\ stopped = FALSE /\ drain = "none"
  /\ framesEnqueued = 0 /\ framesDropped = 0 /\ chunksSent = 0
  /\ kind \in Kinds /\ open = TRUE /\ congested = FALSE
  /\ framesSent = 0 /\ framesAborted = 0 /\ sinceSend = Interval /\ backlog = FALSE

Schedule_Replaces(delay) == delay

\* schedule(delay): a timer that is already set stays.
Schedule(delay) == IF timer = NoTimer THEN delay ELSE timer

Resolved_Forgotten == drain

\* The promise of flushAndStop, if there is one.
Resolved == IF drain = "waiting" THEN "resolved" ELSE drain

-----------------------------------------------------------------------------
(* The methods                                                              *)

EvictIndex_Oldest(q) == 1

\* The oldest frame that has not begun; a lone frame goes even if it has.
EvictIndex(q) == IF q[1].next > 0 /\ Len(q) > 1 THEN 2 ELSE 1

Without(q, i) == SubSeq(q, 1, i - 1) \o SubSeq(q, i + 1, Len(q))

\* The queue never exceeds its limit, so the loop evicts one frame or none.
Room(q) == IF Len(q) >= MaxQueued THEN Without(q, EvictIndex(q)) ELSE q

Dropped == framesDropped + (IF Len(queue) >= MaxQueued THEN 1 ELSE 0)

\* A frame offered after the sender stopped is refused and changes nothing.
EnqueueFrame(size) ==
  /\ framesEnqueued < MaxFrames
  /\ ~stopped
  /\ queue' = Append(Room(queue), [id |-> framesEnqueued, size |-> size, next |-> 0])
  /\ framesDropped' = Dropped
  /\ framesEnqueued' = framesEnqueued + 1
  /\ timer' = Schedule(0)
  /\ UNCHANGED <<stopped, drain, chunksSent, channel, history>>

\* runCapture calls it once, when the capture's time is over.
FlushAndStop ==
  /\ drain = "none"
  /\ stopped' = TRUE
  /\ IF queue = <<>> THEN timer' = NoTimer /\ drain' = "resolved"
     ELSE timer' = Schedule(0) /\ drain' = "waiting"
  /\ UNCHANGED <<queue, stats, channel, history>>

Abort_KeepsQueue ==
  /\ stopped' = TRUE
  /\ timer' = NoTimer
  /\ drain' = Resolved
  /\ UNCHANGED <<queue, stats, channel, history>>

\* The capture is cancelled.
Abort ==
  /\ stopped' = TRUE
  /\ queue' = <<>>
  /\ timer' = NoTimer
  /\ drain' = Resolved
  /\ framesAborted' = framesAborted + Len(queue)
  /\ UNCHANGED <<stats, channel, framesSent, sinceSend, backlog>>

-----------------------------------------------------------------------------
(* The timer's callback: tick()                                             *)

TickSkipped_Forgets ==
  /\ timer = 0 /\ queue # <<>> /\ congested
  /\ timer' = NoTimer
  /\ UNCHANGED <<queue, stopped, drain, stats, channel, history>>

\* Backpressure.
TickSkipped ==
  /\ timer = 0 /\ queue # <<>> /\ congested
  /\ timer' = Interval
  /\ UNCHANGED <<queue, stopped, drain, stats, channel, history>>

\* The head after its next chunk was taken: gone with its last one.
Advanced(q) ==
  IF q[1].next + 1 >= q[1].size THEN Tail(q)
  ELSE [q EXCEPT ![1].next = @ + 1]

\* A closed WebSocket takes the chunk too, and never sends it.  Only a send can
\* congest the channel.
TickSends ==
  /\ timer = 0 /\ queue # <<>> /\ ~congested
  /\ open \/ kind = "websocket"
  /\ queue' = Advanced(queue)
  /\ chunksSent' = chunksSent + 1
  /\ timer' = IF queue' # <<>> THEN Interval ELSE NoTimer
  /\ drain' = IF queue' = <<>> THEN Resolved ELSE drain
  /\ congested' \in BOOLEAN
  /\ framesSent' = framesSent + Len(queue) - Len(queue')
  /\ sinceSend' = 0 /\ backlog' = (queue' # <<>>)
  /\ UNCHANGED <<stopped, framesEnqueued, framesDropped, kind, open, framesAborted>>

\* send() of a closed data channel throws out of the callback: the chunk was
\* taken, the frame stays at the head and no timer is set.
TickThrows ==
  /\ timer = 0 /\ queue # <<>> /\ ~congested
  /\ ~open /\ kind = "webrtc"
  /\ queue' = [queue EXCEPT ![1].next = @ + 1]
  /\ timer' = NoTimer
  /\ UNCHANGED <<stopped, drain, stats, channel, history>>

Tick == TickSkipped \/ TickSends \/ TickThrows

-----------------------------------------------------------------------------
(* Time and the channel                                                     *)

\* Timers run late, never early.
TimePasses ==
  /\ timer > 0 \/ sinceSend < Interval
  /\ timer' = IF timer > 0 THEN timer - 1 ELSE timer
  /\ sinceSend' = IF sinceSend < Interval THEN sinceSend + 1 ELSE sinceSend
  /\ UNCHANGED <<queue, stopped, drain, stats, channel, framesSent, framesAborted, backlog>>

ChannelDrains ==
  /\ open /\ congested
  /\ congested' = FALSE
  /\ UNCHANGED <<queue, timer, stopped, drain, stats, kind, open, history>>

ChannelDies ==
  /\ open
  /\ open' = FALSE
  /\ UNCHANGED <<queue, timer, stopped, drain, stats, kind, congested, history>>

Next ==
  \/ \E size \in 1 .. MaxChunks : EnqueueFrame(size)
  \/ FlushAndStop \/ Abort
  \/ Tick
  \/ TimePasses \/ ChannelDrains \/ ChannelDies

Spec == Init /\ [][Next]_senderVars

-----------------------------------------------------------------------------
(* Properties                                                               *)

\* Every variable keeps its type, the queue its limit.
TypeOK ==
  /\ queue \in Seq(QueuedFrames) /\ Len(queue) <= MaxQueued
  /\ timer \in {NoTimer} \union 0 .. Interval
  /\ kind \in Kinds /\ stopped \in BOOLEAN /\ open \in BOOLEAN /\ congested \in BOOLEAN /\ backlog \in BOOLEAN
  /\ drain \in {"none", "waiting", "resolved"}
  /\ {framesEnqueued, framesDropped, chunksSent, framesSent, framesAborted} \subseteq Nat
  /\ sinceSend \in 0 .. Interval

\* Every frame the capture handed over is still queued, was sent to its last
\* chunk, was evicted and counted as dropped, or was thrown away by abort.
FramesConserved ==
  framesEnqueued = framesDropped + framesSent + framesAborted + Len(queue)

\* The sender never falls asleep with work to do: while the channel is open a
\* queued frame always has a timer, and the timer only runs for a queued frame,
\* so that the first branch of tick() is never taken.
NoStall ==
  /\ open /\ queue # <<>> => timer # NoTimer
  /\ timer # NoTimer => queue # <<>>

\* A frame of which chunks are on the wire is not evicted for a newer one: it
\* leaves the queue when its last chunk is sent, or by abort.
StartedFrameKept ==
  [][queue # <<>> /\ queue[1].next > 0 /\ framesAborted' = framesAborted
       => \/ queue' # <<>> /\ queue'[1].id = queue[1].id
          \/ framesSent' = framesSent + 1]_senderVars

\* Two chunks of a queue that never ran empty in between are an interval apart.
PacedWhileBusy == [][chunksSent' > chunksSent /\ backlog => sinceSend = Interval]_senderVars
=============================================================================
