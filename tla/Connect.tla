------------------------------ MODULE Connect ------------------------------
(***************************************************************************)
(* How a capture gets its channel: connectTransport on the client           *)
(* (frontend/src/transport/connect.ts, webrtc.ts, websocket.ts) and the two *)
(* adapters on the server (backend/internal/transport) with what they do to *)
(* the session.  A WebRTC attempt races its budget; when it loses the       *)
(* client takes a WebSocket and the attempt lives on by itself.  Of a chunk *)
(* only its arrival is kept, for the idle timeout it restarts: a capture    *)
(* takes time, ends with an END and closes its channel.                     *)
(***************************************************************************)
EXTENDS Integers

CONSTANTS
  Budget,         \* WEBRTC_BUDGET_MS
  WSTimeout,      \* WS_CONNECT_TIMEOUT_MS
  CaptureTime,    \* countdown, capture and flush
  EndGrace,       \* Config.EndGrace
  IdleTimeout     \* Config.IdleTimeout

ASSUME ConnectAssumption ==
  {Budget, WSTimeout, CaptureTime, EndGrace, IdleTimeout} \subseteq Nat \ {0}

VARIABLES
  phase,        \* the client: see Phases
  timer,        \* time left of the client's timer
  attempt,      \* connectWebRTC on the client
  opened,       \* the attempt's data channel has opened
  ws,           \* the client's WebSocket
  chosen,       \* kind of the transport connectTransport returned
  pc,           \* the server's peer connection
  wsLoop,       \* the server's read loop
  transport,    \* Session.transport
  closed,       \* Reassembler.closedAt is set
  endMarked,    \* Reassembler.endMarked
  grace,        \* time left until ShouldFinalize, from the first of the two
  idle,         \* time left until ShouldFinalize, from the last chunk
  done          \* the session is consolidated

client == <<phase, timer, attempt, opened, ws, chosen>>
server == <<pc, wsLoop, transport, closed, endMarked, grace, idle, done>>
vars   == <<client, server>>

Phases   == {"rtc", "ws", "capturing", "ended", "closed", "failed", "gone"}
Over     == {"closed", "failed", "gone"}
Never    == -1

Init ==
  /\ \/ phase = "rtc" /\ timer = Budget /\ attempt = "gathering" /\ ws = "none"
     \/ phase = "ws" /\ timer = WSTimeout /\ attempt = "none" /\ ws = "connecting"
  /\ opened = FALSE /\ chosen = "none"
  /\ pc = "none" /\ wsLoop = "none" /\ transport = ""
  /\ closed = FALSE /\ endMarked = FALSE /\ grace = Never /\ idle = Never /\ done = FALSE

StartGrace == grace' = IF grace = Never THEN EndGrace ELSE grace

NoteTransportClosed ==
  /\ closed' = TRUE
  /\ StartGrace
  /\ UNCHANGED <<endMarked, idle, done>>

NoNews == UNCHANGED <<closed, endMarked, grace, idle, done>>

-----------------------------------------------------------------------------
(* The WebRTC attempt                                                       *)

\* connectTransport falls back; the attempt is not stopped.
FallBack == phase' = "ws" /\ timer' = WSTimeout /\ ws' = "connecting"

\* The gathering ends, by itself or by its timeout, and the offer is posted.
PostSignal ==
  /\ attempt = "gathering" /\ phase # "gone"
  /\ attempt' = "signalling"
  /\ UNCHANGED <<phase, timer, opened, ws, chosen, server>>

CreateAnswer_BindsTransport ==
  /\ attempt = "signalling" /\ pc = "none"
  /\ pc' = "answered" /\ transport' = "webrtc"
  /\ NoNews /\ UNCHANGED <<client, wsLoop>>

\* POST /signal: CreateAnswer leaves a peer connection wired to the session.
CreateAnswer ==
  /\ attempt = "signalling" /\ pc = "none"
  /\ pc' = "answered"
  /\ NoNews /\ UNCHANGED <<client, wsLoop, transport>>

\* It fails with the callbacks installed: pc.Close reports a closed state.
CreateAnswerFails ==
  /\ attempt = "signalling" /\ pc = "none"
  /\ pc' = "closed"
  /\ NoteTransportClosed
  /\ UNCHANGED <<client, wsLoop, transport>>

AnswerArrives ==
  /\ attempt = "signalling" /\ pc = "answered"
  /\ attempt' = "negotiating"
  /\ UNCHANGED <<phase, timer, opened, ws, chosen, server>>

\* The data channel opens in time: it is the capture's.
OpensInTime ==
  /\ phase = "rtc" /\ attempt = "negotiating" /\ pc = "answered"
  /\ attempt' = "open" /\ opened' = TRUE
  /\ chosen' = "webrtc" /\ phase' = "capturing" /\ timer' = CaptureTime
  /\ UNCHANGED <<ws, server>>

\* It opens after the fallback, which closes it there and then.
OpensLate ==
  /\ phase \notin {"rtc", "gone"} /\ attempt = "negotiating" /\ pc = "answered"
  /\ attempt' = "closed" /\ opened' = TRUE
  /\ UNCHANGED <<phase, timer, ws, chosen, server>>

\* Signalling or the channel fails on the client: catch closes its connection.
AttemptFails ==
  /\ attempt \in {"gathering", "signalling", "negotiating"} /\ phase # "gone"
  /\ attempt' = "closed"
  /\ IF phase = "rtc" THEN FallBack ELSE UNCHANGED <<phase, timer, ws>>
  /\ UNCHANGED <<opened, chosen, server>>

BudgetFires ==
  /\ phase = "rtc" /\ timer = 0
  /\ FallBack
  /\ UNCHANGED <<attempt, opened, chosen, server>>

\* OnOpen.
DataChannelOpens ==
  /\ pc = "answered" /\ opened
  /\ pc' = "open" /\ transport' = "webrtc"
  /\ NoNews /\ UNCHANGED <<client, wsLoop>>

\* OnClose, or the state closed or disconnected: pion hears the client's close,
\* of a channel that opened or of an attempt that had not yet, or loses its peer.
PeerClosed ==
  /\ pc \in {"answered", "open"}
  /\ attempt = "closed" \/ phase = "gone"
  /\ pc' = "closed"
  /\ NoteTransportClosed /\ UNCHANGED <<client, wsLoop, transport>>

\* The state failed: ICE gives up a connection that never came up, whatever the
\* client does meanwhile.
IceFails ==
  /\ pc = "answered" /\ ~opened
  /\ pc' = "closed"
  /\ NoteTransportClosed /\ UNCHANGED <<client, wsLoop, transport>>

-----------------------------------------------------------------------------
(* The WebSocket                                                            *)

WSAccepts_NotesClose ==
  /\ ws = "connecting" /\ wsLoop = "none"
  /\ wsLoop' = "reading" /\ transport' = "websocket"
  /\ NoteTransportClosed /\ UNCHANGED <<client, pc>>

\* WSHandler: Accept, SetTransport and then the read loop.
WSAccepts ==
  /\ ws = "connecting" /\ wsLoop = "none"
  /\ wsLoop' = "reading" /\ transport' = "websocket"
  /\ NoNews /\ UNCHANGED <<client, pc>>

WSOpens ==
  /\ phase = "ws" /\ ws = "connecting" /\ wsLoop = "reading"
  /\ ws' = "open" /\ chosen' = "websocket"
  /\ phase' = "capturing" /\ timer' = CaptureTime
  /\ UNCHANGED <<attempt, opened, server>>

WSFails_OnlyByError ==
  /\ phase = "ws" /\ ws = "connecting" /\ wsLoop = "ended"
  /\ ws' = "closed" /\ phase' = "failed" /\ timer' = 0
  /\ UNCHANGED <<attempt, opened, chosen, server>>

\* An error, or the timeout; App reports it and goes back to idle.
WSFails ==
  /\ phase = "ws" /\ ws = "connecting"
  /\ timer = 0 \/ wsLoop # "reading"
  /\ ws' = "closed" /\ phase' = "failed" /\ timer' = 0
  /\ UNCHANGED <<attempt, opened, chosen, server>>

ReadFails_Silent ==
  /\ wsLoop = "reading" /\ (ws = "closed" \/ phase = "gone")
  /\ wsLoop' = "ended"
  /\ NoNews /\ UNCHANGED <<client, pc, transport>>

\* The read loop ends when its connection does.
ReadFails ==
  /\ wsLoop = "reading" /\ (ws = "closed" \/ phase = "gone")
  /\ wsLoop' = "ended"
  /\ NoteTransportClosed /\ UNCHANGED <<client, pc, transport>>

-----------------------------------------------------------------------------
(* The capture and the session                                              *)

\* Ingest of a chunk, over the open channel of the capture, also of one that was
\* on its way when the client went; a consolidated session counts it as late.
ChunkArrives ==
  /\ \/ chosen = "webrtc" /\ pc = "open"
     \/ chosen = "websocket" /\ wsLoop = "reading"
  /\ ~done
  /\ idle' = IdleTimeout
  /\ UNCHANGED <<client, pc, wsLoop, transport, closed, endMarked, grace, done>>

CaptureEnds ==
  /\ phase = "capturing" /\ timer = 0
  /\ phase' = "ended"
  /\ UNCHANGED <<timer, attempt, opened, ws, chosen, server>>

\* END over the channel, or client-stats; all of them may be lost.
MarkEnd ==
  /\ phase = "ended" /\ ~endMarked
  /\ endMarked' = TRUE
  /\ StartGrace
  /\ UNCHANGED <<client, pc, wsLoop, transport, closed, idle, done>>

\* transport.close(), after client-stats.
ClosesTransport ==
  /\ phase = "ended"
  /\ phase' = "closed"
  /\ IF chosen = "webrtc" THEN attempt' = "closed" /\ ws' = ws
     ELSE ws' = "closed" /\ attempt' = attempt
  /\ UNCHANGED <<timer, opened, chosen, server>>

\* The network takes the channel of a running capture.
ChannelDies ==
  /\ phase = "capturing"
  /\ IF chosen = "webrtc" THEN attempt' = "closed" /\ ws' = ws
     ELSE ws' = "closed" /\ attempt' = attempt
  /\ UNCHANGED <<phase, timer, opened, chosen, server>>

\* The page is closed or the network is gone.
ClientDies ==
  /\ phase \notin Over
  /\ phase' = "gone" /\ timer' = 0
  /\ UNCHANGED <<attempt, opened, ws, chosen, server>>

\* sweepLoop: ShouldFinalize's END or close, or its idle timeout.
Finalize ==
  /\ grace = 0 \/ idle = 0
  /\ ~done /\ done' = TRUE
  /\ UNCHANGED <<client, pc, wsLoop, transport, closed, endMarked, grace, idle>>

Tick(t) == IF t > 0 THEN t - 1 ELSE t

TimePasses ==
  /\ timer > 0 \/ grace > 0 \/ idle > 0
  /\ timer' = Tick(timer) /\ grace' = Tick(grace) /\ idle' = Tick(idle)
  /\ UNCHANGED <<phase, attempt, opened, ws, chosen, pc, wsLoop, transport, closed, endMarked, done>>

ClientTimers == BudgetFires \/ WSFails \/ ClosesTransport
Notices      == PeerClosed \/ IceFails \/ ReadFails

Next ==
  \/ PostSignal \/ CreateAnswer \/ CreateAnswerFails \/ AnswerArrives
  \/ OpensInTime \/ OpensLate \/ AttemptFails
  \/ DataChannelOpens \/ WSAccepts \/ WSOpens
  \/ ChunkArrives \/ CaptureEnds \/ MarkEnd \/ ChannelDies \/ ClientDies
  \/ ClientTimers \/ Notices \/ Finalize \/ TimePasses

Spec == Init /\ [][Next]_vars

\* Timers fire and the server learns of a connection that ended.  No attempt
\* has to open, no END has to arrive, and a capture on a dead channel need not
\* end.
FairSpec ==
  /\ Spec
  /\ WF_vars(TimePasses) /\ WF_vars(ClientTimers) /\ WF_vars(Finalize)
  /\ WF_vars(PeerClosed) /\ WF_vars(IceFails) /\ WF_vars(ReadFails)

-----------------------------------------------------------------------------
(* Properties                                                               *)

\* Every variable keeps its type, and the client waits for one timer at a time.
TypeOK ==
  /\ phase \in Phases /\ chosen \in {"none", "webrtc", "websocket"}
  /\ timer \in Nat /\ \E d \in {Budget, WSTimeout, CaptureTime} : timer <= d
  /\ grace \in Never .. EndGrace /\ idle \in Never .. IdleTimeout
  /\ attempt \in {"none", "gathering", "signalling", "negotiating", "open", "closed"}
  /\ pc \in {"none", "answered", "open", "closed"}
  /\ ws \in {"none", "connecting", "open", "closed"} /\ wsLoop \in {"none", "reading", "ended"}
  /\ transport \in {"", "webrtc", "websocket"}
  /\ {opened, closed, endMarked, done} \subseteq BOOLEAN

\* The channel the capture was given has closed on the server.
ChosenClosed ==
  \/ chosen = "webrtc" /\ pc = "closed"
  \/ chosen = "websocket" /\ wsLoop = "ended"

\* A session is consolidated before its capture's END for one of three reasons:
\* the capture's own channel closed, its chunks stopped for the idle timeout, or
\* a peer connection its client had given up closed on the server, be it one that
\* opened late, one that never came up, or one whose answer failed.  The way from
\* budget to fallback to capture ends no session by itself.
OnlyStrayEndsCapture ==
  done /\ phase = "capturing" =>
    ChosenClosed \/ idle = 0 \/ (chosen = "websocket" /\ pc = "closed")

\* The report names the channel of the capture, unless the attempt it gave up
\* opened: whichever adapter's callback runs last.
ReportNamesChannel ==
  done /\ chosen # "none" => transport \in {"", chosen} \/ (chosen = "websocket" /\ opened)

\* connectTransport returns or fails, whatever the attempt and the server do.
ConnectEnds == phase \in {"rtc", "ws"} ~> phase \notin {"rtc", "ws"}

\* A session whose channel ends is consolidated, whatever became of the client,
\* and a client that dies or finishes leaves no peer connection and no read loop
\* on the server.
ServerLetsGo ==
  /\ (phase = "capturing" /\ "closed" = IF chosen = "webrtc" THEN attempt ELSE ws) ~> done
  /\ (phase \in Over /\ (wsLoop # "none" \/ pc # "none"))
       ~> (done /\ wsLoop # "reading" /\ pc \notin {"answered", "open"})

\* "Si la negociación llega a abrir después del timeout, cerrarla: ya elegimos
\* WS": the attempt that opened late does not end the capture on the WebSocket.
OrphanLeavesCaptureAlone ==
  done /\ phase = "capturing" /\ opened => ChosenClosed \/ idle = 0
=============================================================================
