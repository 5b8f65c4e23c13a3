---------------------------- MODULE CaptureLoop ----------------------------
(***************************************************************************)
(* frontend/src/capture/captureLoop.ts around the PacedSender: runCapture's *)
(* interval, the encode in flight, finish and cancel.  A callback and the   *)
(* promise continuations it releases run before any other callback, so a    *)
(* continuation that is Due goes first.  The encoder and the clock are      *)
(* external: an encode answers with a frame or without, throws instead of   *)
(* returning its promise, or takes for ever; a tick may come at any time    *)
(* the interval is set.                                                     *)
(***************************************************************************)
EXTENDS PacedSender

VARIABLES
  frameId,      \* identifiers given out: framesCaptured and the claim of the END
  busy,         \* an encode is in flight, or threw
  encoding,     \* pendingEncode has not settled
  ticking,      \* the interval is set
  cancelled,
  finish,       \* how far finish() is
  ends,         \* the END messages given to the channel
  unsent        \* history: identifiers that never became a queued frame

captureVars == <<frameId, busy, encoding, ticking, cancelled, finish, ends, unsent>>
allVars     == <<senderVars, captureVars>>

\* finish() is scheduled at the end of runCapture: "unset" before that.
FinishSteps == {"unset", "timer", "encode", "flush", "spacing", "resolved"}
END_OF_CAPTURE_REPEATS == 3

CInit ==
  /\ Init
  /\ frameId = 0 /\ busy = FALSE /\ encoding = FALSE /\ ticking = FALSE
  /\ cancelled = FALSE /\ finish = "unset" /\ ends = <<>> /\ unsent = 0

\* A continuation of finish() is ready to run.
Due ==
  \/ finish = "encode" /\ ~encoding
  \/ finish = "flush" /\ drain = "resolved"

-----------------------------------------------------------------------------
(* runCapture and tick                                                      *)

\* encoder.encode returns a promise, or throws with busy already set.
Encode ==
  /\ frameId' = frameId + 1
  /\ busy' = TRUE
  /\ \/ encoding' = TRUE /\ unsent' = unsent
     \/ encoding' = encoding /\ unsent' = unsent + 1

\* The interval, the first tick, and the timer of finish: a first tick that
\* throws leaves the interval without anybody to clear it.
RunCapture ==
  /\ finish = "unset" /\ ~ticking
  /\ ticking' = TRUE
  /\ Encode
  /\ finish' = IF encoding' THEN "timer" ELSE "unset"
  /\ UNCHANGED <<senderVars, cancelled, ends>>

\* A tick while busy, and every encode that gives no frame, raises framesSkipped
\* and changes nothing else: that figure is not kept.
CaptureTick ==
  /\ ~Due /\ ticking
  /\ ~busy
  /\ frameId < MaxFrames
  /\ Encode
  /\ UNCHANGED <<senderVars, ticking, cancelled, finish, ends>>

EncodeSettles ==
  /\ ~Due
  /\ encoding /\ encoding' = FALSE /\ busy' = FALSE
  /\ UNCHANGED <<frameId, ticking, cancelled, finish, ends>>

\* An encoded frame is cut into chunks and queued, unless the capture was
\* cancelled; a stopped sender would refuse it.
EncodeAnswers(size) ==
  /\ EncodeSettles
  /\ ~cancelled
  /\ unsent' = unsent
  /\ IF stopped THEN UNCHANGED senderVars ELSE EnqueueFrame(size)

\* No blob, a rejection, a frame that chunkFrame refuses, or a cancelled capture.
EncodeYieldsNothing ==
  /\ EncodeSettles
  /\ unsent' = unsent + 1
  /\ UNCHANGED senderVars

-----------------------------------------------------------------------------
(* finish                                                                   *)

FinishFires_NoWait ==
  /\ ~Due /\ finish = "timer"
  /\ ticking' = FALSE
  /\ FlushAndStop /\ finish' = "flush"
  /\ UNCHANGED <<frameId, busy, encoding, cancelled, ends, unsent>>

FinishFires ==
  /\ ~Due /\ finish = "timer"
  /\ ticking' = FALSE
  /\ finish' = "encode"
  /\ UNCHANGED <<senderVars, frameId, busy, encoding, cancelled, ends, unsent>>

\* await pendingEncode, then flushAndStop.
FinishFlushes ==
  /\ finish = "encode" /\ ~encoding
  /\ FlushAndStop
  /\ finish' = "flush"
  /\ UNCHANGED <<frameId, busy, encoding, ticking, cancelled, ends, unsent>>

Sendable == open \/ kind = "websocket"

\* sendControl, which on a closed data channel throws and ends the repetition.
SendEnd ==
  /\ ends' = IF Sendable THEN Append(ends, [framesSent |-> frameId, chunksSent |-> chunksSent])
             ELSE ends
  /\ finish' = IF Sendable /\ Len(ends') < END_OF_CAPTURE_REPEATS
               THEN "spacing" ELSE "resolved"
  /\ UNCHANGED <<senderVars, frameId, busy, encoding, ticking, cancelled, unsent>>

FirstEnd_Undrained == finish = "flush" /\ SendEnd
FirstEnd == finish = "flush" /\ drain = "resolved" /\ SendEnd

EndRepeats == ~Due /\ finish = "spacing" /\ SendEnd

\* cancel clears the interval and aborts the sender; the timer of finish stays.
Cancel ==
  /\ ~Due /\ finish # "unset" /\ ~cancelled
  /\ cancelled' = TRUE /\ ticking' = FALSE
  /\ Abort
  /\ UNCHANGED <<frameId, busy, encoding, finish, ends, unsent>>

-----------------------------------------------------------------------------

Continuation == FinishFlushes \/ FirstEnd
SenderTimer  == ~Due /\ Tick /\ UNCHANGED captureVars
Waiting      == ~Due /\ TimePasses /\ UNCHANGED captureVars
Drains       == ~Due /\ ChannelDrains /\ UNCHANGED captureVars
Dies         == ~Due /\ ChannelDies /\ UNCHANGED captureVars
EncoderDone  == (\E size \in 1 .. MaxChunks : EncodeAnswers(size)) \/ EncodeYieldsNothing

CNext ==
  \/ RunCapture \/ CaptureTick \/ EncoderDone
  \/ FinishFires \/ Continuation \/ EndRepeats \/ Cancel
  \/ SenderTimer \/ Waiting \/ Drains \/ Dies

CSpec == CInit /\ [][CNext]_allVars

\* Timers fire, continuations run, an open channel transmits what it buffers and
\* an encoder that gave a promise settles it.
CFairSpec ==
  /\ CSpec
  /\ WF_allVars(EncoderDone) /\ WF_allVars(FinishFires) /\ WF_allVars(Continuation)
  /\ WF_allVars(EndRepeats)
  /\ WF_allVars(SenderTimer) /\ WF_allVars(Waiting) /\ WF_allVars(Drains)

-----------------------------------------------------------------------------
(* Properties                                                               *)

\* Every identifier the capture gave out became a frame in the sender's books,
\* was given up by the encoder, or is being encoded: no frame reaches a sender
\* that has stopped, and two encodes are never in flight.
FramesAccounted ==
  frameId = framesEnqueued + unsent + (IF encoding THEN 1 ELSE 0)

\* From the identifier to the outcome: every frame framesSent claims is being
\* encoded, was given up, is queued, was sent to its last chunk, was evicted and
\* counted as dropped, or was thrown away by abort.
NothingUnaccounted == FramesAccounted /\ FramesConserved

\* An END closes the books: when one has been sent the queue is empty, nothing
\* is being encoded, and every END made the claim that still holds.
EndIsFinal ==
  ends # <<>> =>
    /\ queue = <<>> /\ timer = NoTimer /\ ~encoding /\ ~ticking
    /\ \A i \in DOMAIN ends : ends[i] = [framesSent |-> frameId, chunksSent |-> chunksSent]

\* A cancelled capture puts no further chunk on the channel, although the timer
\* of finish still flushes the sender.
CancelIsSilent == [][cancelled => chunksSent' = chunksSent]_allVars

\* The capture ends while its channel lives, through eviction, congestion,
\* encodes that fail and a cancel during the flush.
FinishEnds == finish = "timer" ~> (finish = "resolved" \/ ~open)

\* "canal caído: client-stats por HTTP actúa de señal de fin": with the channel
\* down the capture still resolves, after which App posts client-stats.
FinishEndsOnDeadChannel == finish = "timer" ~> finish = "resolved"
=============================================================================
