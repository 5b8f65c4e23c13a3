------------------------- MODULE CaptureLoopProofs -------------------------
(***************************************************************************)
(* What holds of the client's sender and of the capture loop around it for  *)
(* any interval, queue limit, frame size and number of frames.              *)
(***************************************************************************)
EXTENDS CaptureLoop, SequenceTheorems, TLAPS

-----------------------------------------------------------------------------
(* The queue's helpers                                                      *)

\* Taking one frame out of the queue.
LEMMA WithoutShorter ==
  ASSUME NEW q \in Seq(QueuedFrames), NEW i \in 1 .. Len(q)
  PROVE  /\ Without(q, i) \in Seq(QueuedFrames)
         /\ Len(Without(q, i)) = Len(q) - 1
         /\ i > 1 => Without(q, i)[1] = q[1]
<1> DEFINE a == SubSeq(q, 1, i - 1)
           b == SubSeq(q, i + 1, Len(q))
<1>1. Len(q) \in Nat /\ i \in Nat /\ 1 <= i /\ i <= Len(q)
  OBVIOUS
<1>2. \A j \in 1 .. Len(q) : q[j] \in QueuedFrames
  BY ElementOfSeq
<1>3. /\ a \in Seq(QueuedFrames) /\ Len(a) = i - 1
      /\ \A j \in 1 .. i - 1 : a[j] = q[j]
  <2>1. 1 \in Int /\ i - 1 \in Int /\ \A j \in 1 .. i - 1 : q[j] \in QueuedFrames
    BY <1>1, <1>2
  <2> QED
    BY <1>1, <2>1, SubSeqProperties
<1>4. b \in Seq(QueuedFrames) /\ Len(b) = Len(q) - i
  <2>1. i + 1 \in Int /\ Len(q) \in Int /\ \A j \in i + 1 .. Len(q) : q[j] \in QueuedFrames
    BY <1>1, <1>2
  <2> QED
    BY <1>1, <2>1, SubSeqProperties
<1> HIDE DEF a, b
<1>5. /\ a \o b \in Seq(QueuedFrames) /\ Len(a \o b) = Len(a) + Len(b)
      /\ \A j \in 1 .. Len(a) + Len(b) : (a \o b)[j] = IF j <= Len(a) THEN a[j] ELSE b[j - Len(a)]
  BY <1>3, <1>4, ConcatProperties, Zenon
<1>6. i > 1 => (a \o b)[1] = q[1]
  <2>1. i > 1 => 1 \in 1 .. Len(a) + Len(b) /\ 1 <= Len(a) /\ 1 \in 1 .. i - 1
    BY <1>1, <1>3, <1>4
  <2> QED
    BY <2>1, <1>3, <1>5
<1>7. Len(a \o b) = Len(q) - 1
  BY <1>1, <1>3, <1>4, <1>5
<1> QED
  BY <1>5, <1>6, <1>7 DEF Without, a, b

\* Making room: at most MaxQueued - 1 frames stay.
LEMMA RoomMade ==
  ASSUME NEW q \in Seq(QueuedFrames), Len(q) <= MaxQueued
  PROVE  /\ Room(q) \in Seq(QueuedFrames)
         /\ Len(Room(q)) = Len(q) - (IF Len(q) >= MaxQueued THEN 1 ELSE 0)
         /\ Len(Room(q)) < MaxQueued
<1>1. Len(q) \in Nat /\ MaxQueued \in Nat /\ MaxQueued > 0
  BY SenderAssumption
<1>2. CASE Len(q) >= MaxQueued
  <2>1. EvictIndex(q) \in 1 .. Len(q)
    BY <1>1, <1>2 DEF EvictIndex
  <2> QED
    BY <1>1, <1>2, <2>1, WithoutShorter DEF Room
<1>3. CASE ~(Len(q) >= MaxQueued)
  BY <1>1, <1>3 DEF Room
<1> QED
  BY <1>2, <1>3

\* Taking the next chunk of the head.
LEMMA AdvancedShape ==
  ASSUME NEW q \in Seq(QueuedFrames), q # <<>>
  PROVE  /\ Advanced(q) \in Seq(QueuedFrames)
         /\ \/ Len(Advanced(q)) = Len(q) - 1
            \/ Advanced(q) # <<>> /\ Len(Advanced(q)) = Len(q) /\ Advanced(q)[1].id = q[1].id
<1>1. Len(q) \in Nat /\ Len(q) > 0 /\ q[1] \in QueuedFrames
  BY EmptySeq
<1>2. CASE q[1].next + 1 >= q[1].size
  BY <1>1, <1>2 DEF Advanced
<1>3. CASE ~(q[1].next + 1 >= q[1].size)
  <2> DEFINE e == [q[1] EXCEPT !.next = @ + 1]
  <2>1. e \in QueuedFrames /\ e.id = q[1].id
    BY <1>1 DEF QueuedFrames
  <2>2. Advanced(q) = [q EXCEPT ![1] = e]
    BY <1>3 DEF Advanced
  <2> QED
    BY <1>1, <2>1, <2>2, EmptySeq
<1> QED
  BY <1>2, <1>3

-----------------------------------------------------------------------------
(* The sender                                                               *)

\* Why two chunks are an interval apart: either enough time has passed since the
\* last one, or the timer will not run before it has.
TimerPaces ==
  /\ backlog /\ queue # <<>> =>
       sinceSend = Interval \/ (timer # NoTimer /\ timer + sinceSend >= Interval)
  /\ backlog /\ queue = <<>> => stopped

\* flushAndStop resolves only once the queue is empty, and then it stays empty.
DrainStopped ==
  /\ drain # "none" => stopped
  /\ drain = "resolved" => queue = <<>>

\* The two halves of TypeOK.
Numbers == /\ queue \in Seq(QueuedFrames) /\ Len(queue) <= MaxQueued
           /\ timer \in {NoTimer} \union 0 .. Interval /\ sinceSend \in 0 .. Interval
           /\ {framesEnqueued, framesDropped, chunksSent, framesSent, framesAborted} \subseteq Nat
Flags == /\ kind \in Kinds /\ drain \in {"none", "waiting", "resolved"}
         /\ stopped \in BOOLEAN /\ open \in BOOLEAN /\ congested \in BOOLEAN /\ backlog \in BOOLEAN

LEMMA Halves == TypeOK <=> Numbers /\ Flags
BY Zenon DEF TypeOK, Numbers, Flags

SenderInv == TypeOK /\ FramesConserved /\ NoStall /\ TimerPaces /\ DrainStopped

LEMMA SenderInit == Init => SenderInv
<1> SUFFICES ASSUME Init PROVE SenderInv
  OBVIOUS
<1> USE SenderAssumption DEF Init, NoTimer, Kinds
<1>1. TypeOK
  <2>1. queue \in Seq(QueuedFrames) /\ Len(queue) = 0
    BY EmptySeq
  <2>2. Numbers
    BY <2>1 DEF Numbers
  <2>3. Flags
    BY DEF Flags
  <2> QED
    BY <2>2, <2>3, Halves
<1>2. FramesConserved /\ NoStall /\ TimerPaces /\ DrainStopped
  BY EmptySeq DEF FramesConserved, NoStall, TimerPaces, DrainStopped
<1> QED
  BY <1>1, <1>2 DEF SenderInv

\* Every method, every callback and the channel keep the sender's invariant.
LEMMA SenderStep == SenderInv /\ [Next]_senderVars => SenderInv'
<1> SUFFICES ASSUME SenderInv, [Next]_senderVars PROVE SenderInv'
  OBVIOUS
<1> USE SenderAssumption DEF NoTimer, Kinds, stats, channel, history
<1>0. /\ queue \in Seq(QueuedFrames) /\ Len(queue) \in Nat /\ Len(queue) <= MaxQueued
      /\ Interval \in Nat /\ Interval > 0 /\ MaxQueued \in Nat
      /\ framesEnqueued \in Nat /\ framesDropped \in Nat /\ chunksSent \in Nat
      /\ framesSent \in Nat /\ framesAborted \in Nat
      /\ timer \in Int /\ sinceSend \in 0 .. Interval
  BY DEF SenderInv, TypeOK
<1>1. ASSUME NEW size \in 1 .. MaxChunks, EnqueueFrame(size) PROVE SenderInv'
  <2> DEFINE new == [id |-> framesEnqueued, size |-> size, next |-> 0]
             room == Room(queue)
  <2>1. /\ room \in Seq(QueuedFrames) /\ Len(room) \in Nat
        /\ Len(room) = Len(queue) - (IF Len(queue) >= MaxQueued THEN 1 ELSE 0)
        /\ Len(room) < MaxQueued
    BY <1>0, RoomMade
  <2>2. new \in QueuedFrames
    BY <1>0 DEF QueuedFrames
  <2> HIDE DEF room, new
  <2>3. /\ queue' = Append(room, new)
        /\ queue' \in Seq(QueuedFrames) /\ Len(queue') = Len(room) + 1 /\ queue' # <<>>
    BY <1>1, <2>1, <2>2 DEF EnqueueFrame, room, new
  <2>4. framesDropped' = framesDropped + (IF Len(queue) >= MaxQueued THEN 1 ELSE 0)
    BY <1>1 DEF EnqueueFrame, Dropped
  <2>5. TypeOK'
    <3>1. framesDropped' \in Nat /\ framesEnqueued' = framesEnqueued + 1
      BY <1>0, <1>1, <2>4 DEF EnqueueFrame
    <3>2. timer' \in {NoTimer} \union 0 .. Interval
      BY <1>0, <1>1 DEF EnqueueFrame, Schedule, SenderInv, TypeOK
    <3>3. Numbers'
      <4>1. UNCHANGED <<chunksSent, framesSent, framesAborted, sinceSend>>
        BY <1>1 DEF EnqueueFrame
      <4> QED
        BY <1>0, <2>1, <2>3, <3>1, <3>2, <4>1 DEF Numbers
    <3>4. Flags'
      BY <1>1, Halves DEF EnqueueFrame, SenderInv, Flags
    <3> QED
      BY <3>3, <3>4, Zenon DEF TypeOK, Numbers, Flags
  <2>6. FramesConserved'
    <3>1. /\ framesEnqueued' = framesEnqueued + 1
          /\ UNCHANGED <<framesSent, framesAborted>>
      BY <1>1 DEF EnqueueFrame
    <3>2. framesEnqueued = framesDropped + framesSent + framesAborted + Len(queue)
      BY DEF SenderInv, FramesConserved
    <3>3. Len(queue') = Len(queue) - (IF Len(queue) >= MaxQueued THEN 1 ELSE 0) + 1
      BY <2>1, <2>3
    <3> QED
      BY <1>0, <2>4, <3>1, <3>2, <3>3 DEF FramesConserved
  <2>7. NoStall' /\ TimerPaces' /\ DrainStopped'
    BY <1>0, <1>1, <2>3
       DEF EnqueueFrame, Schedule, SenderInv, TypeOK, NoStall, TimerPaces, DrainStopped
  <2> QED
    BY <2>5, <2>6, <2>7 DEF SenderInv
<1>2. CASE FlushAndStop
  <2>1. TypeOK' /\ FramesConserved'
    BY <1>0, <1>2 DEF FlushAndStop, Schedule, SenderInv, TypeOK, FramesConserved
  <2>2. NoStall' /\ TimerPaces' /\ DrainStopped'
    BY <1>0, <1>2 DEF FlushAndStop, Schedule, SenderInv, TypeOK, NoStall, TimerPaces, DrainStopped
  <2> QED
    BY <2>1, <2>2 DEF SenderInv
<1>3. CASE Abort
  <2>1. TypeOK' /\ FramesConserved'
    BY <1>0, <1>3, EmptySeq DEF Abort, Resolved, SenderInv, TypeOK, FramesConserved
  <2>2. NoStall' /\ TimerPaces' /\ DrainStopped'
    BY <1>0, <1>3 DEF Abort, Resolved, SenderInv, TypeOK, NoStall, TimerPaces, DrainStopped
  <2> QED
    BY <2>1, <2>2 DEF SenderInv
<1>4. CASE TickSkipped
  <2>1. TypeOK' /\ FramesConserved'
    BY <1>0, <1>4 DEF TickSkipped, SenderInv, TypeOK, FramesConserved
  <2>2. NoStall' /\ TimerPaces' /\ DrainStopped'
    BY <1>0, <1>4 DEF TickSkipped, SenderInv, TypeOK, NoStall, TimerPaces, DrainStopped
  <2> QED
    BY <2>1, <2>2 DEF SenderInv
<1>5. CASE TickSends
  <2>1. /\ queue' \in Seq(QueuedFrames) /\ Len(queue') \in Nat
        /\ Len(queue') = Len(queue) - 1 \/ Len(queue') = Len(queue)
    BY <1>0, <1>5, AdvancedShape DEF TickSends
  <2>2. framesSent' = framesSent + Len(queue) - Len(queue') /\ framesSent' \in Nat
    BY <1>0, <1>5, <2>1 DEF TickSends
  <2>3. TypeOK'
    <3>1. chunksSent' \in Nat /\ timer' \in {NoTimer} \union 0 .. Interval /\ sinceSend' \in 0 .. Interval
      BY <1>0, <1>5 DEF TickSends
    <3>2. Numbers'
      BY <1>0, <1>5, <2>1, <2>2, <3>1 DEF TickSends, Numbers
    <3>3. Flags'
      BY <1>5, Halves DEF TickSends, Resolved, SenderInv, Flags
    <3> QED
      BY <3>2, <3>3, Zenon DEF TypeOK, Numbers, Flags
  <2>4. FramesConserved'
    <3>1. UNCHANGED <<framesEnqueued, framesDropped, framesAborted>>
      BY <1>5 DEF TickSends
    <3>2. framesEnqueued = framesDropped + framesSent + framesAborted + Len(queue)
      BY DEF SenderInv, FramesConserved
    <3> QED
      BY <1>0, <2>1, <2>2, <3>1, <3>2 DEF FramesConserved
  <2>5. NoStall' /\ TimerPaces' /\ DrainStopped'
    BY <1>0, <1>5 DEF TickSends, Resolved, SenderInv, TypeOK, NoStall, TimerPaces, DrainStopped
  <2> QED
    BY <2>3, <2>4, <2>5 DEF SenderInv
<1>6. CASE TickThrows
  <2> DEFINE e == [queue[1] EXCEPT !.next = @ + 1]
  <2>1. 1 \in 1 .. Len(queue) /\ queue[1] \in QueuedFrames
    BY <1>0, <1>6, EmptySeq, ElementOfSeq DEF TickThrows
  <2>2. e \in QueuedFrames
    BY <2>1 DEF QueuedFrames
  <2>3. queue' = [queue EXCEPT ![1] = e]
    BY <1>6 DEF TickThrows
  <2>4. queue' \in Seq(QueuedFrames) /\ Len(queue') = Len(queue) /\ queue' # <<>>
    BY <1>0, <2>1, <2>2, <2>3, ExceptSeq, EmptySeq
  <2>5. TypeOK' /\ FramesConserved'
    BY <1>0, <1>6, <2>4 DEF TickThrows, SenderInv, TypeOK, FramesConserved
  <2>6. NoStall' /\ TimerPaces' /\ DrainStopped'
    BY <1>0, <1>6, <2>4 DEF TickThrows, SenderInv, TypeOK, NoStall, TimerPaces, DrainStopped
  <2> QED
    BY <2>5, <2>6 DEF SenderInv
<1>7. CASE TimePasses
  <2>1. TypeOK' /\ FramesConserved'
    BY <1>0, <1>7 DEF TimePasses, SenderInv, TypeOK, FramesConserved
  <2>2. NoStall' /\ TimerPaces' /\ DrainStopped'
    BY <1>0, <1>7 DEF TimePasses, SenderInv, TypeOK, NoStall, TimerPaces, DrainStopped
  <2> QED
    BY <2>1, <2>2 DEF SenderInv
<1>8. CASE ChannelDrains \/ ChannelDies \/ UNCHANGED senderVars
  <2>1. Numbers' /\ FramesConserved'
    BY <1>0, <1>8, Halves DEF ChannelDrains, ChannelDies, senderVars, SenderInv, Numbers, FramesConserved
  <2>2. Flags'
    BY <1>8, Halves DEF ChannelDrains, ChannelDies, senderVars, SenderInv, Flags
  <2>3. NoStall' /\ TimerPaces' /\ DrainStopped'
    BY <1>0, <1>8 DEF ChannelDrains, ChannelDies, senderVars, SenderInv, NoStall, TimerPaces, DrainStopped
  <2> QED
    BY <2>1, <2>2, <2>3, Zenon DEF SenderInv, TypeOK, Numbers, Flags
<1> QED
  BY <1>1, <1>2, <1>3, <1>4, <1>5, <1>6, <1>7, <1>8 DEF Next, Tick

-----------------------------------------------------------------------------
(* The capture loop                                                         *)

\* The stages of a capture: what each step of finish() and a cancel leave behind.
Stages ==
  /\ finish \in FinishSteps
  /\ ticking => finish \in {"unset", "timer"}
  /\ finish = "unset" => ~stopped /\ ~cancelled /\ (~ticking => ~busy)
  /\ finish \in {"unset", "timer", "encode"} => drain = "none"
  /\ finish \in {"unset", "timer", "encode", "flush"} => ends = <<>>
  /\ finish \in {"flush", "spacing", "resolved"} => stopped /\ ~encoding
  /\ finish \in {"spacing", "resolved"} => drain = "resolved"
  /\ cancelled => stopped /\ queue = <<>>
  /\ stopped => cancelled \/ finish \in {"flush", "spacing", "resolved"}
  /\ encoding => busy

Claims ==
  /\ ends \in Seq([framesSent : Nat, chunksSent : Nat])
  /\ \A i \in DOMAIN ends : ends[i] = [framesSent |-> frameId, chunksSent |-> chunksSent]

CaptureTypes == frameId \in Nat /\ unsent \in Nat

CaptureInv == SenderInv /\ CaptureTypes /\ Stages /\ Claims /\ FramesAccounted

LEMMA CaptureInit == CInit => CaptureInv
<1> SUFFICES ASSUME CInit PROVE CaptureInv
  OBVIOUS
<1>1. SenderInv
  BY SenderInit DEF CInit
<1>2. Stages /\ CaptureTypes
  BY DEF CInit, Init, Stages, CaptureTypes, FinishSteps
<1>3. Claims
  BY EmptySeq DEF CInit, Claims
<1>4. FramesAccounted
  BY DEF CInit, Init, FramesAccounted
<1> QED
  BY <1>1, <1>2, <1>3, <1>4 DEF CaptureInv

\* Whatever the capture loop does, the sender takes one of its steps or none.
LEMMA CaptureStepIsSenderStep == [CNext]_allVars => [Next]_senderVars
<1> SUFFICES ASSUME [CNext]_allVars PROVE [Next]_senderVars
  OBVIOUS
<1>1. CASE RunCapture \/ CaptureTick \/ FinishFires
  BY <1>1 DEF RunCapture, CaptureTick, FinishFires
<1>2. CASE EncoderDone
  BY <1>2 DEF EncoderDone, EncodeAnswers, EncodeYieldsNothing, Next
<1>3. CASE Continuation \/ EndRepeats
  BY <1>3 DEF Continuation, FinishFlushes, FirstEnd, EndRepeats, SendEnd, Next
<1>4. CASE Cancel
  BY <1>4 DEF Cancel, Next
<1>5. CASE SenderTimer \/ Waiting \/ Drains \/ Dies
  BY <1>5 DEF SenderTimer, Waiting, Drains, Dies, Next
<1>6. CASE UNCHANGED allVars
  BY <1>6 DEF allVars
<1> QED
  BY <1>1, <1>2, <1>3, <1>4, <1>5, <1>6 DEF CNext

\* Every callback and continuation keeps the invariant.
LEMMA CaptureStep == CaptureInv /\ [CNext]_allVars => CaptureInv'
<1> SUFFICES ASSUME CaptureInv, [CNext]_allVars PROVE CaptureInv'
  OBVIOUS
<1> DEFINE Rest == CaptureTypes /\ Stages /\ Claims /\ FramesAccounted
<1> USE DEF FinishSteps, stats, channel, history
<1>0. /\ SenderInv' /\ DrainStopped /\ framesEnqueued \in Nat /\ chunksSent \in Nat
      /\ frameId \in Nat /\ unsent \in Nat
  BY SenderStep, CaptureStepIsSenderStep DEF CaptureInv, SenderInv, TypeOK, CaptureTypes
<1> SUFFICES Rest'
  BY <1>0 DEF CaptureInv
<1>1. ASSUME Encode, ~busy, ticking', finish \in {"unset", "timer"},
             finish' \in {finish, "timer"}, ~encoding' => finish' = finish,
             UNCHANGED <<senderVars, cancelled, ends>>
      PROVE  Rest'
  <2>1. ~encoding /\ ends = <<>> /\ frameId = framesEnqueued + unsent
    BY <1>0, <1>1 DEF CaptureInv, Stages, FramesAccounted
  <2>2. Claims'
    BY <1>1, <2>1, EmptySeq DEF Claims
  <2>3. CASE encoding' = TRUE /\ unsent' = unsent
    <3>1. FramesAccounted'
      BY <1>0, <1>1, <2>1, <2>3 DEF FramesAccounted, Encode, senderVars
    <3> QED
      BY <1>0, <1>1, <2>1, <2>2, <2>3, <3>1 DEF Encode, senderVars, CaptureInv, CaptureTypes, Stages
  <2>4. CASE encoding' = encoding /\ unsent' = unsent + 1
    <3>1. FramesAccounted'
      BY <1>0, <1>1, <2>1, <2>4 DEF FramesAccounted, Encode, senderVars
    <3> QED
      BY <1>0, <1>1, <2>1, <2>2, <2>4, <3>1 DEF Encode, senderVars, CaptureInv, CaptureTypes, Stages
  <2> QED
    BY <1>1, <2>3, <2>4 DEF Encode
<1>2. CASE RunCapture \/ CaptureTick
  BY <1>1, <1>2 DEF RunCapture, CaptureTick, CaptureInv, Stages, senderVars
<1>3. ASSUME NEW size \in 1 .. MaxChunks, EncodeAnswers(size) PROVE Rest'
  <2>1. /\ encoding /\ ~encoding' /\ ~busy' /\ ~cancelled /\ unsent' = unsent
        /\ UNCHANGED <<frameId, ticking, cancelled, finish, ends>>
    BY <1>3 DEF EncodeAnswers, EncodeSettles
  <2>2. finish \in {"unset", "timer", "encode"} /\ ends = <<>> /\ ~stopped
    BY <2>1 DEF CaptureInv, Stages
  <2>3. framesEnqueued' = framesEnqueued + 1 /\ UNCHANGED <<stopped, drain, chunksSent>>
    BY <1>3, <2>2 DEF EncodeAnswers, EnqueueFrame
  <2>4. frameId = framesEnqueued + unsent + 1
    BY <2>1 DEF CaptureInv, FramesAccounted
  <2>5. FramesAccounted'
    BY <1>0, <2>1, <2>3, <2>4 DEF FramesAccounted
  <2>6. Claims'
    BY <2>1, <2>2, EmptySeq DEF Claims
  <2>7. Stages'
    BY <2>1, <2>2, <2>3 DEF CaptureInv, Stages
  <2>8. CaptureTypes'
    BY <1>3, <2>1 DEF EncodeAnswers, EncodeSettles, CaptureInv, CaptureTypes
  <2> QED
    BY <2>5, <2>6, <2>7, <2>8
<1>4. CASE EncodeYieldsNothing
  <2>1. /\ encoding /\ ~encoding' /\ ~busy' /\ unsent' = unsent + 1
        /\ UNCHANGED <<frameId, ticking, cancelled, finish, ends, senderVars>>
    BY <1>4 DEF EncodeYieldsNothing, EncodeSettles
  <2>2. frameId = framesEnqueued + unsent + 1
    BY <2>1 DEF CaptureInv, FramesAccounted
  <2>3. FramesAccounted'
    BY <1>0, <2>1, <2>2 DEF FramesAccounted, senderVars
  <2>4. Claims'
    BY <2>1 DEF CaptureInv, Claims, senderVars
  <2>5. Stages'
    BY <2>1 DEF CaptureInv, Stages, senderVars
  <2>6. CaptureTypes'
    BY <1>0, <1>4, <2>1 DEF EncodeYieldsNothing, EncodeSettles, CaptureInv, CaptureTypes
  <2> QED
    BY <2>3, <2>4, <2>5, <2>6
<1>5. CASE FinishFires
  BY <1>5 DEF FinishFires, CaptureInv, CaptureTypes, Stages, Claims, FramesAccounted, senderVars
<1>6. CASE FinishFlushes
  <2>1. ends = <<>> /\ UNCHANGED <<ends, framesEnqueued, unsent, frameId, encoding, ticking, busy, cancelled>>
    BY <1>6 DEF FinishFlushes, FlushAndStop, CaptureInv, Stages
  <2>2. Claims'
    BY <2>1, EmptySeq DEF Claims
  <2>3. CaptureTypes' /\ FramesAccounted'
    BY <2>1 DEF CaptureInv, CaptureTypes, FramesAccounted
  <2>4. Stages'
    BY <1>6, <2>1 DEF FinishFlushes, FlushAndStop, CaptureInv, Stages
  <2> QED
    BY <2>2, <2>3, <2>4
<1>7. CASE FirstEnd \/ EndRepeats
  <2>1. SendEnd /\ finish \in {"flush", "spacing"} /\ drain = "resolved"
    BY <1>7 DEF FirstEnd, EndRepeats, CaptureInv, Stages
  <2> DEFINE claim == [framesSent |-> frameId, chunksSent |-> chunksSent]
  <2>2. claim \in [framesSent : Nat, chunksSent : Nat]
    BY <1>0
  <2>3. ends' = ends \/ ends' = Append(ends, claim)
    BY <2>1 DEF SendEnd
  <2>4. UNCHANGED <<senderVars, frameId, busy, encoding, ticking, cancelled, unsent>>
    BY <2>1 DEF SendEnd
  <2>5. ends \in Seq([framesSent : Nat, chunksSent : Nat]) /\ \A i \in DOMAIN ends : ends[i] = claim
    BY DEF CaptureInv, Claims
  <2> HIDE DEF claim
  <2>6. ends' \in Seq([framesSent : Nat, chunksSent : Nat]) /\ \A i \in DOMAIN ends' : ends'[i] = claim
    <3>1. CASE ends' = Append(ends, claim)
      BY <2>2, <2>5, <3>1
    <3> QED
      BY <2>3, <2>5, <3>1
  <2>7. Claims'
    BY <2>4, <2>6 DEF Claims, claim, senderVars
  <2>8. finish' \in {"spacing", "resolved"}
    BY <2>1 DEF SendEnd
  <2>9. Stages'
    BY <2>1, <2>4, <2>8 DEF CaptureInv, Stages, senderVars
  <2>10. CaptureTypes' /\ FramesAccounted'
    BY <2>4 DEF CaptureInv, CaptureTypes, FramesAccounted, senderVars
  <2> QED
    BY <2>7, <2>9, <2>10
<1>8. CASE Cancel
  <2>1. /\ cancelled' = TRUE /\ ticking' = FALSE /\ stopped' = TRUE /\ queue' = <<>>
        /\ drain' = (IF drain = "waiting" THEN "resolved" ELSE drain) /\ finish # "unset"
        /\ UNCHANGED <<frameId, busy, encoding, finish, ends, unsent, framesEnqueued, chunksSent>>
    BY <1>8 DEF Cancel, Abort, Resolved
  <2>2. CaptureTypes' /\ FramesAccounted' /\ Claims'
    BY <2>1 DEF CaptureInv, CaptureTypes, FramesAccounted, Claims
  <2>3. Stages'
    BY <2>1 DEF CaptureInv, Stages
  <2> QED
    BY <2>2, <2>3
<1>9. CASE SenderTimer
  <2>1. /\ queue # <<>> /\ UNCHANGED <<stopped, framesEnqueued>> /\ UNCHANGED captureVars
        /\ drain' = drain \/ (drain = "waiting" /\ drain' = "resolved")
    BY <1>9 DEF SenderTimer, Tick, TickSkipped, TickSends, TickThrows, Resolved
  <2>2. ~cancelled /\ drain # "resolved" /\ finish \notin {"spacing", "resolved"}
    BY <1>0, <2>1 DEF CaptureInv, Stages, DrainStopped
  <2>3. Stages'
    BY <2>1, <2>2 DEF CaptureInv, Stages, captureVars
  <2>4. CaptureTypes' /\ FramesAccounted'
    BY <2>1 DEF CaptureInv, CaptureTypes, FramesAccounted, captureVars
  <2>5. Claims'
    <3>1. ends = <<>>
      BY <2>2 DEF CaptureInv, Stages
    <3> QED
      BY <2>1, <3>1, EmptySeq DEF Claims, captureVars
  <2> QED
    BY <2>3, <2>4, <2>5
<1>10. CASE Waiting \/ Drains \/ Dies \/ UNCHANGED allVars
  <2>1. UNCHANGED <<queue, stopped, drain, framesEnqueued, chunksSent, captureVars>>
    BY <1>10 DEF Waiting, Drains, Dies, TimePasses, ChannelDrains, ChannelDies, allVars, senderVars
  <2> QED
    BY <2>1 DEF CaptureInv, CaptureTypes, Stages, Claims, FramesAccounted, captureVars
<1> QED
  BY <1>2, <1>3, <1>4, <1>5, <1>6, <1>7, <1>8, <1>9, <1>10 DEF CNext, EncoderDone, Continuation

LEMMA CaptureInvariance == CSpec => []CaptureInv
BY CaptureInit, CaptureStep, PTL DEF CSpec

-----------------------------------------------------------------------------
(* The theorems                                                             *)

\* Under the capture loop the sender behaves as the sender alone may: what holds
\* of every PacedSender holds of the one a capture uses.
THEOREM CaptureUsesPacedSender == CSpec => Spec
<1>1. CInit => Init
  BY DEF CInit
<1> QED
  BY <1>1, CaptureStepIsSenderStep, PTL DEF CSpec, Spec

\* The queue never exceeds maxQueuedFrames and every figure is a number.
THEOREM SenderTypes == CSpec => []TypeOK
BY CaptureInvariance, PTL DEF CaptureInv, SenderInv

\* No frame the capture handed over is lost from the sender's books.
THEOREM NoFrameLost == CSpec => []FramesConserved
BY CaptureInvariance, PTL DEF CaptureInv, SenderInv

\* While its channel is open the sender never sleeps with frames queued.
THEOREM NeverAsleep == CSpec => []NoStall
BY CaptureInvariance, PTL DEF CaptureInv, SenderInv

\* Each identifier given out is accounted for, so that no frame was offered to a
\* sender that had stopped.
THEOREM IdentifiersAccounted == CSpec => []FramesAccounted
BY CaptureInvariance, PTL DEF CaptureInv

\* From the identifier given out to the chunk sent, the drop counted or the
\* encode given up, no frame of a capture disappears.
THEOREM NothingLost == CSpec => []NothingUnaccounted
BY NoFrameLost, IdentifiersAccounted, PTL DEF NothingUnaccounted

\* The first END closes the books and every END makes the same claim.
THEOREM EndClosesTheBooks == CSpec => []EndIsFinal
<1>1. CaptureInv => EndIsFinal
  <2> SUFFICES ASSUME CaptureInv, ends # <<>> PROVE
         /\ queue = <<>> /\ timer = NoTimer /\ ~encoding /\ ~ticking
         /\ \A i \in DOMAIN ends : ends[i] = [framesSent |-> frameId, chunksSent |-> chunksSent]
    BY DEF EndIsFinal
  <2>1. finish \in {"spacing", "resolved"}
    BY DEF CaptureInv, Stages, FinishSteps
  <2>2. queue = <<>> /\ ~encoding /\ ~ticking
    BY <2>1 DEF CaptureInv, SenderInv, DrainStopped, Stages
  <2>3. timer = NoTimer
    BY <2>2 DEF CaptureInv, SenderInv, NoStall
  <2> QED
    BY <2>2, <2>3 DEF CaptureInv, Claims
<1> QED
  BY <1>1, CaptureInvariance, PTL

\* A step that sends a chunk is the callback of the timer, with a queue.
LEMMA OnlyTicksSend ==
  ASSUME [Next]_senderVars, chunksSent' # chunksSent PROVE TickSends
<1> USE DEF stats, channel, history
<1>1. CASE \E size \in 1 .. MaxChunks : EnqueueFrame(size)
  BY <1>1 DEF EnqueueFrame
<1>2. CASE FlushAndStop \/ Abort
  BY <1>2 DEF FlushAndStop, Abort
<1>3. CASE Tick
  BY <1>3 DEF Tick, TickSkipped, TickThrows
<1>4. CASE TimePasses \/ ChannelDrains \/ ChannelDies \/ UNCHANGED senderVars
  BY <1>4 DEF TimePasses, ChannelDrains, ChannelDies, senderVars
<1> QED
  BY <1>1, <1>2, <1>3, <1>4 DEF Next

\* A cancelled capture sends no further chunk, whatever timer is left.
THEOREM CancelledIsSilent == CSpec => CancelIsSilent
<1>1. CaptureInv /\ [CNext]_allVars => [cancelled => chunksSent' = chunksSent]_allVars
  BY CaptureStepIsSenderStep, OnlyTicksSend DEF CaptureInv, Stages, TickSends
<1> QED
  BY <1>1, CaptureInvariance, PTL DEF CSpec, CancelIsSilent

\* Chunks of a queue that did not run empty in between are an interval apart,
\* whatever else sets, keeps or skips the timer.
THEOREM ChunksArePaced == CSpec => PacedWhileBusy
<1>1. CaptureInv /\ [CNext]_allVars
        => [chunksSent' > chunksSent /\ backlog => sinceSend = Interval]_senderVars
  <2> SUFFICES ASSUME CaptureInv, [CNext]_allVars, chunksSent' > chunksSent, backlog
               PROVE sinceSend = Interval
    OBVIOUS
  <2>1. chunksSent \in Nat /\ sinceSend \in 0 .. Interval /\ Interval \in Nat
    BY SenderAssumption DEF CaptureInv, SenderInv, TypeOK
  <2>2. TickSends
    BY <2>1, CaptureStepIsSenderStep, OnlyTicksSend
  <2>3. timer = 0 /\ queue # <<>>
    BY <2>2 DEF TickSends
  <2> QED
    BY <2>1, <2>3 DEF CaptureInv, SenderInv, TimerPaces
<1> QED
  BY <1>1, CaptureInvariance, PTL DEF CSpec, PacedWhileBusy

\* A frame that has begun is not evicted for a newer one, whatever the limit, as
\* long as it leaves room for two (the code's default is 3).
THEOREM StartedFrameSent == ASSUME MaxQueued > 1 PROVE CSpec => StartedFrameKept
<1> DEFINE Kept == queue # <<>> /\ queue[1].next > 0 /\ framesAborted' = framesAborted
                     => \/ queue' # <<>> /\ queue'[1].id = queue[1].id
                        \/ framesSent' = framesSent + 1
<1>1. CaptureInv /\ [CNext]_allVars => [Kept]_senderVars
  <2> SUFFICES ASSUME CaptureInv, [CNext]_allVars, queue # <<>>, queue[1].next > 0,
                      framesAborted' = framesAborted
               PROVE  \/ queue' # <<>> /\ queue'[1].id = queue[1].id
                      \/ framesSent' = framesSent + 1
    OBVIOUS
  <2> USE DEF stats, channel, history
  <2>1. /\ queue \in Seq(QueuedFrames) /\ Len(queue) \in Nat /\ Len(queue) > 0
        /\ Len(queue) <= MaxQueued /\ MaxQueued \in Nat /\ MaxQueued > 1
        /\ framesSent \in Nat /\ framesAborted \in Nat /\ framesEnqueued \in Nat
    BY SenderAssumption, EmptySeq DEF CaptureInv, SenderInv, TypeOK
  <2>2. [Next]_senderVars
    BY CaptureStepIsSenderStep
  <2>3. ASSUME NEW size \in 1 .. MaxChunks, EnqueueFrame(size)
        PROVE queue' # <<>> /\ queue'[1].id = queue[1].id
    <3> DEFINE new == [id |-> framesEnqueued, size |-> size, next |-> 0]
               room == Room(queue)
    <3>1. new \in QueuedFrames
      BY <2>1 DEF QueuedFrames
    <3>2. room \in Seq(QueuedFrames) /\ Len(room) >= 1 /\ room[1] = queue[1]
      <4>1. CASE Len(queue) >= MaxQueued
        <5>1. EvictIndex(queue) = 2 /\ 2 \in 1 .. Len(queue)
          BY <2>1, <4>1 DEF EvictIndex
        <5>2. Room(queue) = Without(queue, 2)
          BY <4>1, <5>1 DEF Room
        <5> QED
          BY <2>1, <4>1, <5>1, <5>2, WithoutShorter
      <4>2. CASE ~(Len(queue) >= MaxQueued)
        BY <2>1, <4>2 DEF Room
      <4> QED
        BY <4>1, <4>2
    <3>3. queue' = Append(room, new)
      BY <2>3 DEF EnqueueFrame
    <3> HIDE DEF room, new
    <3> QED
      BY <3>1, <3>2, <3>3, EmptySeq
  <2>4. CASE FlushAndStop \/ TickSkipped
    BY <2>4 DEF FlushAndStop, TickSkipped
  <2>5. CASE Abort
    BY <2>1, <2>5 DEF Abort
  <2>6. CASE TickSends
    <3>1. queue' = Advanced(queue) /\ framesSent' = framesSent + Len(queue) - Len(queue')
      BY <2>6 DEF TickSends
    <3> QED
      BY <2>1, <3>1, AdvancedShape
  <2>7. CASE TickThrows
    <3> DEFINE e == [queue[1] EXCEPT !.next = @ + 1]
    <3>1. 1 \in 1 .. Len(queue) /\ queue[1] \in QueuedFrames
      BY <2>1, ElementOfSeq
    <3>2. e \in QueuedFrames /\ e.id = queue[1].id
      BY <3>1 DEF QueuedFrames
    <3>3. queue' = [queue EXCEPT ![1] = e]
      BY <2>7 DEF TickThrows
    <3>4. queue' \in Seq(QueuedFrames) /\ Len(queue') = Len(queue) /\ queue'[1] = e
      BY <2>1, <3>1, <3>2, <3>3, ExceptSeq
    <3> QED
      BY <2>1, <3>2, <3>4, EmptySeq
  <2>8. CASE TimePasses \/ ChannelDrains \/ ChannelDies \/ UNCHANGED senderVars
    BY <2>8 DEF TimePasses, ChannelDrains, ChannelDies, senderVars
  <2> QED
    BY <2>2, <2>3, <2>4, <2>5, <2>6, <2>7, <2>8 DEF Next, Tick
<1> QED
  BY <1>1, CaptureInvariance, PTL DEF CSpec, StartedFrameKept
=============================================================================
