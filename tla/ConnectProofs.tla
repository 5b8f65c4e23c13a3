--------------------------- MODULE ConnectProofs ---------------------------
(***************************************************************************)
(* Theorems of Connect, for every budget, timeout, capture time and grace:  *)
(* what may end a capture before its END and which channel its report       *)
(* names, whatever the abandoned WebRTC attempt does.                       *)
(***************************************************************************)
EXTENDS Connect, TLAPS

-----------------------------------------------------------------------------
(* Type correctness                                                         *)

\* The timer is set to one of the three durations, each a natural number.
LEMMA Durations ==
  /\ Budget \in Nat \ {0} /\ WSTimeout \in Nat \ {0}
  /\ CaptureTime \in Nat \ {0} /\ EndGrace \in Nat \ {0} /\ IdleTimeout \in Nat \ {0}
  BY ConnectAssumption

\* What the timer may hold.
TimerOK(t) == t \in Nat /\ \E d \in {Budget, WSTimeout, CaptureTime} : t <= d

LEMMA TimerSet == TimerOK(Budget) /\ TimerOK(WSTimeout) /\ TimerOK(CaptureTime) /\ TimerOK(0)
<1>1. Budget <= Budget /\ WSTimeout <= WSTimeout /\ CaptureTime <= CaptureTime /\ 0 <= Budget
  BY Durations
<1>. QED  BY <1>1, Durations DEF TimerOK

LEMMA TimerRuns ==
  ASSUME NEW t, TimerOK(t), t > 0
  PROVE  TimerOK(t - 1)
<1>1. t \in Nat /\ t - 1 \in Nat
  BY DEF TimerOK
<1>2. PICK d \in {Budget, WSTimeout, CaptureTime} : t <= d
  BY DEF TimerOK
<1>3. t - 1 <= d
  BY <1>1, <1>2, Durations
<1>. QED  BY <1>1, <1>3 DEF TimerOK

\* TypeOK, with the timer's part named.
LEMMA TypeOKParts ==
  TypeOK <=>
    /\ phase \in Phases /\ chosen \in {"none", "webrtc", "websocket"}
    /\ TimerOK(timer)
    /\ grace \in Never .. EndGrace /\ idle \in Never .. IdleTimeout
    /\ attempt \in {"none", "gathering", "signalling", "negotiating", "open", "closed"}
    /\ pc \in {"none", "answered", "open", "closed"}
    /\ ws \in {"none", "connecting", "open", "closed"} /\ wsLoop \in {"none", "reading", "ended"}
    /\ transport \in {"", "webrtc", "websocket"}
    /\ {opened, closed, endMarked, done} \subseteq BOOLEAN
  BY DEF TypeOK, TimerOK

LEMMA TypeInit == Init => TypeOK
<1>. SUFFICES ASSUME Init  PROVE TypeOK
  OBVIOUS
<1>1. timer \in {Budget, WSTimeout} /\ grace = Never /\ idle = Never
  BY DEF Init
<1>2. TimerOK(timer) /\ grace \in Never .. EndGrace /\ idle \in Never .. IdleTimeout
  BY <1>1, TimerSet, Durations DEF Never
<1>3. {opened, closed, endMarked, done} \subseteq BOOLEAN
  BY Zenon DEF Init
<1>4. phase \in Phases /\ chosen = "none"
  BY DEF Init, Phases
<1>. QED  BY <1>1, <1>2, <1>3, <1>4, TypeOKParts DEF Init

\* Starting the grace period keeps its type, also when it has started before.
LEMMA StartGraceType ==
  ASSUME grace \in Never .. EndGrace, StartGrace
  PROVE  grace' \in Never .. EndGrace
  BY Durations DEF StartGrace, Never

\* A step of the server alone keeps what the client's variables say.
LEMMA ServerStepType ==
  ASSUME TypeOK, UNCHANGED client,
         pc' \in {"none", "answered", "open", "closed"},
         wsLoop' \in {"none", "reading", "ended"},
         transport' \in {"", "webrtc", "websocket"},
         NoteTransportClosed \/ NoNews
  PROVE  TypeOK'
  BY StartGraceType DEF TypeOK, client, NoteTransportClosed, NoNews

LEMMA TypeNext == TypeOK /\ [Next]_vars => TypeOK'
<1>. SUFFICES ASSUME TypeOK, [Next]_vars  PROVE TypeOK'
  OBVIOUS
<1>1. CASE PostSignal \/ AnswerArrives \/ OpensLate \/ CaptureEnds \/ ChannelDies
  BY <1>1 DEF PostSignal, AnswerArrives, OpensLate, CaptureEnds, ChannelDies, TypeOK, Phases, server
<1>2. CASE OpensInTime \/ WSOpens
  <2>1. timer' = CaptureTime /\ TimerOK(timer')
    BY <1>2, TimerSet DEF OpensInTime, WSOpens
  <2>. QED  BY <1>2, <2>1 DEF OpensInTime, WSOpens, TypeOK, TimerOK, Phases, server
<1>3. CASE AttemptFails \/ BudgetFires
  <2>1. timer' \in {timer, WSTimeout} /\ TimerOK(timer')
    BY <1>3, TimerSet, TypeOKParts DEF AttemptFails, BudgetFires, FallBack
  <2>. QED  BY <1>3, <2>1 DEF AttemptFails, BudgetFires, FallBack, TypeOK, TimerOK, Phases, server
<1>4. CASE WSFails \/ ClosesTransport \/ ClientDies
  <2>1. timer' \in {timer, 0} /\ TimerOK(timer')
    BY <1>4, TimerSet, TypeOKParts DEF WSFails, ClosesTransport, ClientDies
  <2>2. CASE WSFails \/ ClosesTransport
    BY <2>1, <2>2 DEF WSFails, ClosesTransport, TypeOK, TimerOK, Phases, server
  <2>3. CASE ClientDies
    BY <2>1, <2>3 DEF ClientDies, TypeOK, TimerOK, Phases, server
  <2>. QED  BY <1>4, <2>2, <2>3
<1>5. CASE CreateAnswer
  BY <1>5, ServerStepType DEF CreateAnswer, NoNews, TypeOK
<1>6. CASE CreateAnswerFails \/ PeerClosed \/ IceFails
  BY <1>6, ServerStepType DEF CreateAnswerFails, PeerClosed, IceFails, TypeOK
<1>7. CASE DataChannelOpens \/ WSAccepts \/ ReadFails
  BY <1>7, ServerStepType DEF DataChannelOpens, WSAccepts, ReadFails, TypeOK
<1>8. CASE MarkEnd
  BY <1>8, StartGraceType DEF MarkEnd, TypeOK, client
<1>9. CASE Finalize
  BY <1>9 DEF Finalize, TypeOK, client
<1>10. CASE TimePasses
  <2>1. TimerOK(timer')
    BY <1>10, TimerRuns, TypeOKParts DEF TimePasses, Tick
  <2>2. grace' \in Never .. EndGrace /\ idle' \in Never .. IdleTimeout
    <3>1. grace \in Never .. EndGrace /\ idle \in Never .. IdleTimeout
      BY DEF TypeOK
    <3>2. grace' = Tick(grace) /\ idle' = Tick(idle)
      BY <1>10 DEF TimePasses
    <3>. QED  BY <3>1, <3>2, Durations DEF Never, Tick
  <2>. QED  BY <1>10, <2>1, <2>2 DEF TimePasses, TypeOK, TimerOK
<1>11. CASE UNCHANGED vars
  BY <1>11 DEF vars, client, server, TypeOK
<1>12. CASE ChunkArrives
  <2>1. idle' \in Never .. IdleTimeout
    BY <1>12, Durations DEF ChunkArrives, Never
  <2>. QED  BY <1>12, <2>1 DEF ChunkArrives, TypeOK, client
<1>. QED
  BY <1>1, <1>2, <1>3, <1>4, <1>5, <1>6, <1>7, <1>8, <1>9, <1>10, <1>11, <1>12
     DEF Next, ClientTimers, Notices

\* Every variable keeps its type, and the client never waits longer than for
\* one of its timers at a time.
THEOREM ConnectTypeCorrect == Spec => []TypeOK
  BY TypeInit, TypeNext, PTL DEF Spec

-----------------------------------------------------------------------------
(* The inductive invariant                                                  *)

\* The capture's channel is chosen once: a client that still tries, or failed,
\* has none, and one that took the data channel never makes a WebSocket, so that
\* the server has no read loop of it.
OneChannel ==
  /\ phase = "rtc" => ws = "none"
  /\ phase \in {"rtc", "ws", "failed"} => chosen = "none"
  /\ phase \in {"capturing", "ended", "closed"} => chosen # "none"
  /\ chosen = "webrtc" => ws = "none"
  /\ ws = "none" => wsLoop = "none"

\* The session ends for a reason: its chunks stopped for the idle timeout, or its
\* grace period is over, which began with the close of a channel that the server
\* saw, or with an END of a capture that was over.
EndHasCause ==
  /\ done => grace = 0 \/ idle = 0
  /\ grace # Never => closed \/ endMarked
  /\ closed => pc = "closed" \/ wsLoop = "ended"
  /\ endMarked => phase \in {"ended", "closed", "gone"}

\* An adapter names its transport only after its own channel came up.
NamedByAdapter ==
  /\ transport = "webrtc" => opened
  /\ transport = "websocket" => wsLoop # "none"

ConnectInv == TypeOK /\ OneChannel /\ EndHasCause /\ NamedByAdapter

LEMMA ConnectInit == Init => ConnectInv
<1>1. Init => OneChannel /\ EndHasCause /\ NamedByAdapter
  BY DEF Init, OneChannel, EndHasCause, NamedByAdapter, Never
<1>. QED  BY <1>1, TypeInit DEF ConnectInv

\* The choice of the channel is the client's alone; the server only follows it.
LEMMA OneChannelNext == TypeOK /\ OneChannel /\ [Next]_vars => OneChannel'
<1>. SUFFICES ASSUME TypeOK, OneChannel, [Next]_vars  PROVE OneChannel'
  OBVIOUS
<1>1. CASE PostSignal \/ AnswerArrives \/ OpensLate
  BY <1>1 DEF PostSignal, AnswerArrives, OpensLate, OneChannel, server
<1>2. CASE CaptureEnds \/ ChannelDies \/ ClientDies
  BY <1>2 DEF CaptureEnds, ChannelDies, ClientDies, OneChannel, server
<1>3. CASE OpensInTime \/ WSOpens
  BY <1>3 DEF OpensInTime, WSOpens, OneChannel, server
<1>4. CASE WSFails \/ ClosesTransport
  BY <1>4 DEF WSFails, ClosesTransport, OneChannel, server
<1>5. CASE AttemptFails \/ BudgetFires
  BY <1>5 DEF AttemptFails, BudgetFires, FallBack, OneChannel, server
<1>6. CASE TimePasses
  BY <1>6 DEF TimePasses, OneChannel
<1>7. CASE UNCHANGED <<client, wsLoop>>
  BY <1>7 DEF OneChannel, client
<1>8. CASE CreateAnswer \/ CreateAnswerFails \/ DataChannelOpens \/ PeerClosed \/ IceFails
             \/ MarkEnd \/ ChunkArrives \/ Finalize \/ UNCHANGED vars
  BY <1>7, <1>8 DEF CreateAnswer, CreateAnswerFails, DataChannelOpens, PeerClosed, IceFails,
     MarkEnd, ChunkArrives, Finalize, vars, server
<1>9. CASE WSAccepts \/ ReadFails
  BY <1>9 DEF WSAccepts, ReadFails, OneChannel, client
<1>. QED  BY <1>1, <1>2, <1>3, <1>4, <1>5, <1>6, <1>8, <1>9 DEF Next, ClientTimers, Notices

\* A capture that has not ended is ended by no END, and a session nobody closed
\* by no close.
LEMMA EndHasCauseNext == TypeOK /\ OneChannel /\ EndHasCause /\ [Next]_vars => EndHasCause'
<1>. SUFFICES ASSUME TypeOK, OneChannel, EndHasCause, [Next]_vars  PROVE EndHasCause'
  OBVIOUS
<1>1. grace \in Int /\ idle \in Int /\ EndGrace # Never /\ 0 # Never
  <2>1. grace \in Never .. EndGrace /\ idle \in Never .. IdleTimeout
    BY DEF TypeOK
  <2>. QED  BY <2>1, Durations DEF Never
<1>2. CASE PostSignal \/ AnswerArrives \/ OpensInTime \/ OpensLate \/ WSOpens
  BY <1>2 DEF PostSignal, AnswerArrives, OpensInTime, OpensLate, WSOpens, EndHasCause, server
<1>3. CASE CaptureEnds \/ ChannelDies \/ ClientDies \/ ClosesTransport
  BY <1>3 DEF CaptureEnds, ChannelDies, ClientDies, ClosesTransport, EndHasCause, server
<1>4. CASE WSFails \/ AttemptFails \/ BudgetFires
  BY <1>4 DEF WSFails, AttemptFails, BudgetFires, FallBack, EndHasCause, server
<1>5. CASE CreateAnswer \/ DataChannelOpens \/ WSAccepts
  BY <1>5 DEF CreateAnswer, DataChannelOpens, WSAccepts, NoNews, EndHasCause, client
<1>6. CASE CreateAnswerFails \/ PeerClosed \/ IceFails \/ ReadFails
  BY <1>1, <1>6 DEF CreateAnswerFails, PeerClosed, IceFails, ReadFails, NoteTransportClosed,
     StartGrace, EndHasCause, client
<1>7. CASE MarkEnd
  BY <1>1, <1>7 DEF MarkEnd, StartGrace, EndHasCause, client
<1>8. CASE Finalize
  BY <1>8 DEF Finalize, EndHasCause, client
<1>9. CASE TimePasses
  BY <1>1, <1>9 DEF TimePasses, Tick, EndHasCause, Never
<1>10. CASE UNCHANGED vars
  BY <1>10 DEF vars, client, server, EndHasCause
<1>11. CASE ChunkArrives
  BY <1>11 DEF ChunkArrives, EndHasCause, client
<1>. QED  BY <1>2, <1>3, <1>4, <1>5, <1>6, <1>7, <1>8, <1>9, <1>10, <1>11 DEF Next, ClientTimers, Notices

LEMMA NamedByAdapterNext == NamedByAdapter /\ [Next]_vars => NamedByAdapter'
<1>. SUFFICES ASSUME NamedByAdapter, [Next]_vars  PROVE NamedByAdapter'
  OBVIOUS
<1>1. CASE UNCHANGED <<opened, wsLoop, transport>>
  BY <1>1 DEF NamedByAdapter
<1>2. CASE OpensInTime \/ OpensLate
  BY <1>2 DEF OpensInTime, OpensLate, NamedByAdapter, server
<1>3. CASE DataChannelOpens \/ WSAccepts \/ ReadFails
  BY <1>3 DEF DataChannelOpens, WSAccepts, ReadFails, NamedByAdapter, client
<1>. QED  BY <1>1, <1>2, <1>3 DEF Next, ClientTimers, Notices, PostSignal, AnswerArrives,
     AttemptFails, BudgetFires, FallBack, CreateAnswer, CreateAnswerFails, PeerClosed, IceFails,
     WSOpens, WSFails, ChunkArrives, CaptureEnds, MarkEnd, ClosesTransport, ChannelDies, ClientDies, Finalize,
     TimePasses, NoNews, vars, client, server

LEMMA ConnectInvariant == Spec => []ConnectInv
<1>1. ConnectInv /\ [Next]_vars => ConnectInv'
  BY TypeNext, OneChannelNext, EndHasCauseNext, NamedByAdapterNext DEF ConnectInv
<1>. QED  BY <1>1, ConnectInit, PTL DEF Spec

-----------------------------------------------------------------------------
(* What follows                                                             *)

\* A session that is consolidated before its capture's END had its channel closed
\* on the server, got no chunk for the idle timeout, or lost the peer connection
\* of the attempt its client had given up for a WebSocket: neither the client's
\* budget and timeouts nor any other event ends a capture.
THEOREM OnlyStrayEnds == Spec => []OnlyStrayEndsCapture
<1>1. ConnectInv => OnlyStrayEndsCapture
  <2>. SUFFICES ASSUME ConnectInv, done, phase = "capturing"
                PROVE  ChosenClosed \/ idle = 0 \/ (chosen = "websocket" /\ pc = "closed")
    BY DEF OnlyStrayEndsCapture
  <2>0. grace = 0 => grace # Never
    BY DEF Never
  <2>1. idle = 0 \/ (closed /\ (pc = "closed" \/ wsLoop = "ended"))
    BY <2>0 DEF ConnectInv, EndHasCause
  <2>2. chosen = "websocket" \/ (chosen = "webrtc" /\ wsLoop = "none")
    BY DEF ConnectInv, OneChannel, TypeOK
  <2>. QED  BY <2>1, <2>2 DEF ChosenClosed
<1>. QED  BY <1>1, ConnectInvariant, PTL

\* The report names the capture's own channel or none, unless the attempt its
\* client gave up came up on the server as well.
THEOREM ReportNames == Spec => []ReportNamesChannel
<1>1. ConnectInv => ReportNamesChannel
  <2>. SUFFICES ASSUME ConnectInv, chosen # "none", transport \notin {"", chosen}
                PROVE  chosen = "websocket" /\ opened
    BY DEF ReportNamesChannel
  <2>1. chosen = "webrtc" => transport # "websocket"
    BY DEF ConnectInv, OneChannel, NamedByAdapter
  <2>2. chosen = "websocket" /\ transport = "webrtc"
    BY <2>1 DEF ConnectInv, TypeOK
  <2>. QED  BY <2>2 DEF ConnectInv, NamedByAdapter
<1>. QED  BY <1>1, ConnectInvariant, PTL
=============================================================================
