------------------------------ MODULE Manager ------------------------------
(***************************************************************************)
(* backend/internal/session/manager.go: the table of live sessions.  HTTP   *)
(* handlers create and resolve sessions, evictLoop forgets old ones, and a  *)
(* connection keeps the *Session it resolved, so it may go on using one     *)
(* that the table no longer has.  m.mu is held through the search for a     *)
(* number and through a whole round of evictLoop; a session's state has a   *)
(* mutex of its own, taken inside that round once per session.              *)
(***************************************************************************)
EXTENDS Integers

CONSTANTS
  Creators,      \* goroutines handling POST /sessions
  Conns,         \* requests and channels: each resolves one session, once
  MaxSessions,   \* bound: sessions created in a behaviour
  SeqRange,      \* 2^16 in the code: numbers are in 0 .. SeqRange - 1
  TTL,
  MaxClock       \* bound on time

ASSUME ManagerAssumption ==
  /\ {MaxSessions, TTL, MaxClock} \subseteq Nat
  /\ SeqRange \in Nat /\ SeqRange > 1
  /\ {"none", "evictor"} \intersect Creators = {}

\* Sessions are named in the order of Create: an id is random and never repeats.
Sessions  == 1 .. MaxSessions
NoSession == 0
Numbers   == 1 .. SeqRange - 1

VARIABLES
  clock,
  mu,                     \* m.mu's writer, NoOne when it is free
  byID, bySeq, nextSeq,
  created,                \* sessions whose struct exists
  createdAt, seq,         \* fields of each session
  state,
  ingested, told,         \* its reassembler: a chunk reached it; an END or a close did
  loop,                   \* the sweep loop: "none", "running", "closing", "ended"
  conn,                   \* where each connection is, and the session it resolved
  creator,                \* where each creator is, and its session
  evictor                 \* evictLoop: its place, clock reading and session

table    == <<mu, byID, bySeq, nextSeq>>
fields   == <<created, createdAt, seq>>
sessions == <<state, ingested, told, loop, conn>>
vars     == <<clock, table, fields, sessions, creator, evictor>>

NoOne == "none"
Evictor == "evictor"

\* evictLoop between two rounds, and between two sessions of a round.
Resting == [pc |-> "idle", now |-> 0, todo |-> {}, silent |-> {},
            session |-> NoSession, st |-> "open"]
NextOne == [evictor EXCEPT !.pc = "scan", !.session = NoSession, !.st = "open"]

Init ==
  /\ clock = 0
  /\ mu = NoOne /\ byID = {} /\ bySeq = [n \in Numbers |-> NoSession] /\ nextSeq = 0
  /\ created = 0
  /\ createdAt = [s \in Sessions |-> 0] /\ seq = [s \in Sessions |-> 0]
  /\ state = [s \in Sessions |-> "open"]
  /\ ingested = [s \in Sessions |-> FALSE] /\ told = [s \in Sessions |-> FALSE]
  /\ loop = [s \in Sessions |-> "none"]
  /\ conn = [k \in Conns |-> [pc |-> "none", session |-> NoSession]]
  /\ creator = [c \in Creators |-> [pc |-> "idle", session |-> NoSession]]
  /\ evictor = Resting

-----------------------------------------------------------------------------
(* Create                                                                   *)

\* The struct is built, and CreatedAt read, before the lock.
NewSession(c) ==
  /\ creator[c].pc = "idle"
  /\ created < MaxSessions
  /\ created' = created + 1
  /\ createdAt' = [createdAt EXCEPT ![created + 1] = clock]
  /\ creator' = [creator EXCEPT ![c] = [pc |-> "lock", session |-> created + 1]]
  /\ UNCHANGED <<clock, table, seq, sessions, evictor>>

LockForCreate(c) ==
  /\ creator[c].pc = "lock"
  /\ mu = NoOne /\ mu' = c
  /\ creator' = [creator EXCEPT ![c].pc = "search"]
  /\ UNCHANGED <<clock, byID, bySeq, nextSeq, fields, sessions, evictor>>

Successor_Sticks(n) == IF n = SeqRange - 1 THEN n ELSE n + 1

\* nextSeq++ on a uint16; 0 is never given out.
Successor(n) == IF (n + 1) % SeqRange = 0 THEN 1 ELSE n + 1

\* One turn of the search; with a free number the session enters both maps.
TryNumber(c) ==
  /\ creator[c].pc = "search"
  /\ nextSeq' = Successor(nextSeq)
  /\ LET s == creator[c].session IN
       IF bySeq[nextSeq'] # NoSession
       THEN UNCHANGED <<seq, bySeq, byID, mu, creator>>
       ELSE /\ seq' = [seq EXCEPT ![s] = nextSeq']
            /\ bySeq' = [bySeq EXCEPT ![nextSeq'] = s]
            /\ byID' = byID \union {s}
            /\ mu' = NoOne
            /\ creator' = [creator EXCEPT ![c].pc = "start"]
  /\ UNCHANGED <<clock, created, createdAt, sessions, evictor>>

\* The loop is started after the lock; the handler answers with the id.
StartLoop(c) ==
  /\ creator[c].pc = "start"
  /\ loop' = [loop EXCEPT ![creator[c].session] = "running"]
  /\ creator' = [creator EXCEPT ![c] = [pc |-> "idle", session |-> NoSession]]
  /\ UNCHANGED <<clock, table, fields, state, ingested, told, conn, evictor>>

-----------------------------------------------------------------------------
(* Connections: each call a handler makes on its session takes a mutex of   *)
(* that session or of its reassembler, and is a step of its own.            *)

\* The step changes nothing but fields of sessions and connections.
OnlySessions == UNCHANGED <<clock, table, fields, creator, evictor>>

At(k, here, there) == conn[k].pc = here /\ conn' = [conn EXCEPT ![k].pc = there]

\* ByID, for a handler that keeps the pointer; the client has the id.
Resolve(k, s) ==
  /\ conn[k].pc = "none"
  /\ mu = NoOne
  /\ s \in byID /\ loop[s] # "none"
  /\ conn' = [conn EXCEPT ![k] = [pc |-> "free", session |-> s]]
  /\ OnlySessions /\ UNCHANGED <<state, ingested, told, loop>>

\* HandleDatagram: MarkCapturing, then Ingest.
MarkCapturing(k) ==
  /\ At(k, "free", "chunk")
  /\ state' = [state EXCEPT ![conn[k].session] = IF @ = "open" THEN "capturing" ELSE @]
  /\ OnlySessions /\ UNCHANGED <<ingested, told, loop>>

Ingest(k) ==
  /\ At(k, "chunk", "free")
  /\ ingested' = [ingested EXCEPT ![conn[k].session] = TRUE]
  /\ OnlySessions /\ UNCHANGED <<state, told, loop>>

\* HandleControl: MarkEnd, then MarkEnding.
MarkEnd(k) ==
  /\ At(k, "free", "end")
  /\ told' = [told EXCEPT ![conn[k].session] = TRUE]
  /\ OnlySessions /\ UNCHANGED <<state, ingested, loop>>

MarkEnding(k) ==
  /\ At(k, "end", "free")
  /\ state' = [state EXCEPT ![conn[k].session] =
                 IF @ \in {"open", "capturing"} THEN "ending" ELSE @]
  /\ OnlySessions /\ UNCHANGED <<ingested, told, loop>>

\* The last call of a handler: NoteTransportClosed when the channel closed, or
\* the MarkEnd of SetClientStats.  Neither touches the session's state.
Leave(k) ==
  /\ At(k, "free", "over")
  /\ told' = [told EXCEPT ![conn[k].session] = TRUE]
  /\ OnlySessions /\ UNCHANGED <<state, ingested, loop>>

-----------------------------------------------------------------------------
(* A session's sweep loop                                                   *)

Heard(s) == ingested[s] \/ told[s]

\* False for ever when nothing was heard; the graces and the idle timeout, which
\* Session counts, have passed at some tick after that.
ShouldFinalize(s) ==
  /\ loop[s] = "running" /\ Heard(s)
  /\ loop' = [loop EXCEPT ![s] = "closing"]
  /\ OnlySessions /\ UNCHANGED <<state, ingested, told, conn>>

FinalizeOnce(s) ==
  /\ loop[s] = "closing" /\ state[s] # "done"
  /\ state' = [state EXCEPT ![s] = "done"]
  /\ OnlySessions /\ UNCHANGED <<ingested, told, loop, conn>>

LoopReturns(s) ==
  /\ loop[s] = "closing" /\ state[s] = "done"
  /\ loop' = [loop EXCEPT ![s] = "ended"]
  /\ OnlySessions /\ UNCHANGED <<state, ingested, told, conn>>

-----------------------------------------------------------------------------
(* evictLoop                                                                *)

EvictTick ==
  /\ evictor.pc = "idle"
  /\ evictor' = [evictor EXCEPT !.pc = "lock", !.now = clock]
  /\ UNCHANGED <<clock, table, fields, sessions, creator>>

\* silent is history: the sessions no chunk had reached by now.
LockForEvict ==
  /\ evictor.pc = "lock"
  /\ mu = NoOne /\ mu' = Evictor
  /\ evictor' = [evictor EXCEPT !.pc = "scan", !.todo = byID,
                                !.silent = {s \in byID : ~ingested[s]}]
  /\ UNCHANGED <<clock, byID, bySeq, nextSeq, fields, sessions, creator>>

\* s.State(), under the session's mutex; a map is visited in any order.
ReadState(s) ==
  /\ evictor.pc = "scan" /\ s \in evictor.todo
  /\ evictor' = [evictor EXCEPT !.pc = "judge", !.session = s, !.st = state[s],
                                !.todo = @ \ {s}]
  /\ UNCHANGED <<clock, table, fields, sessions, creator>>

Evictable_OnlyAbandoned(st, age) == st = "open" /\ age > TTL

\* The judgement of a state already read.
Evictable(st, age) == st \in {"done", "open"} /\ age > TTL

Judge_KeepsNumber ==
  /\ evictor.pc = "judge"
  /\ LET s == evictor.session IN
       byID' = IF Evictable(evictor.st, evictor.now - createdAt[s]) THEN byID \ {s} ELSE byID
  /\ evictor' = NextOne
  /\ UNCHANGED <<clock, mu, bySeq, nextSeq, fields, sessions, creator>>

Judge ==
  /\ evictor.pc = "judge"
  /\ LET s == evictor.session IN
       IF Evictable(evictor.st, evictor.now - createdAt[s])
       THEN byID' = byID \ {s} /\ bySeq' = [bySeq EXCEPT ![seq[s]] = NoSession]
       ELSE UNCHANGED <<byID, bySeq>>
  /\ evictor' = NextOne
  /\ UNCHANGED <<clock, mu, nextSeq, fields, sessions, creator>>

UnlockEvict ==
  /\ evictor.pc = "scan" /\ evictor.todo = {}
  /\ mu' = NoOne
  /\ evictor' = Resting
  /\ UNCHANGED <<clock, byID, bySeq, nextSeq, fields, sessions, creator>>

-----------------------------------------------------------------------------

TimePasses ==
  /\ clock < MaxClock
  /\ clock' = clock + 1
  /\ UNCHANGED <<table, fields, sessions, creator, evictor>>

CreateProceeds(c) == LockForCreate(c) \/ TryNumber(c) \/ StartLoop(c)

HandleDatagram_IngestsFirst(k) ==
  /\ OnlySessions /\ UNCHANGED <<told, loop>>
  /\ \/ /\ At(k, "free", "chunk")
        /\ ingested' = [ingested EXCEPT ![conn[k].session] = TRUE]
        /\ UNCHANGED state
     \/ /\ At(k, "chunk", "free")
        /\ state' = [state EXCEPT ![conn[k].session] = IF @ = "open" THEN "capturing" ELSE @]
        /\ UNCHANGED ingested

HandleDatagram(k) == MarkCapturing(k) \/ Ingest(k)

HandleControl_MarksFirst(k) ==
  /\ OnlySessions /\ UNCHANGED <<ingested, loop>>
  /\ \/ /\ At(k, "free", "end")
        /\ state' = [state EXCEPT ![conn[k].session] = IF @ = "done" THEN @ ELSE "ending"]
        /\ UNCHANGED told
     \/ /\ At(k, "end", "free")
        /\ told' = [told EXCEPT ![conn[k].session] = TRUE]
        /\ UNCHANGED state

HandleControl(k) == MarkEnd(k) \/ MarkEnding(k)

Connection(k) ==
  (\E s \in Sessions : Resolve(k, s)) \/ HandleDatagram(k) \/ HandleControl(k) \/ Leave(k)

SweepLoop(s) == ShouldFinalize(s) \/ FinalizeOnce(s) \/ LoopReturns(s)

EvictLoop ==
  EvictTick \/ LockForEvict \/ (\E s \in Sessions : ReadState(s)) \/ Judge \/ UnlockEvict

Next ==
  \/ \E c \in Creators : NewSession(c) \/ CreateProceeds(c)
  \/ \E k \in Conns : Connection(k)
  \/ \E s \in Sessions : SweepLoop(s)
  \/ EvictLoop
  \/ TimePasses

Spec == Init /\ [][Next]_vars

\* Goroutines are scheduled and time passes; a mutex that is freed again and
\* again is obtained (Go's mutexes do not starve a waiter).  Nobody has to
\* create, resolve or send anything.
FairSpec ==
  /\ Spec
  /\ WF_vars(TimePasses) /\ SF_vars(LockForEvict)
  /\ WF_vars(EvictTick \/ (\E s \in Sessions : ReadState(s)) \/ Judge \/ UnlockEvict)
  /\ \A c \in Creators : SF_vars(LockForCreate(c)) /\ WF_vars(TryNumber(c) \/ StartLoop(c))
  /\ \A s \in Sessions : WF_vars(SweepLoop(s))

-----------------------------------------------------------------------------
(* Properties                                                               *)

\* Every variable keeps its type, and the mutex is held by the goroutine that is
\* in its critical section.
TypeOK ==
  /\ clock \in 0 .. MaxClock /\ created \in 0 .. MaxSessions
  /\ mu \in Creators \union {NoOne, Evictor}
  /\ byID \subseteq Sessions
  /\ bySeq \in [Numbers -> Sessions \union {NoSession}]
  /\ nextSeq \in Numbers \union {0}
  /\ createdAt \in [Sessions -> 0 .. MaxClock] /\ seq \in [Sessions -> Numbers \union {0}]
  /\ state \in [Sessions -> {"open", "capturing", "ending", "done"}]
  /\ ingested \in [Sessions -> BOOLEAN] /\ told \in [Sessions -> BOOLEAN]
  /\ loop \in [Sessions -> {"none", "running", "closing", "ended"}]
  /\ conn \in [Conns -> [pc : {"none", "free", "chunk", "end", "over"},
                         session : Sessions \union {NoSession}]]
  /\ creator \in [Creators -> [pc : {"idle", "lock", "search", "start"},
                               session : Sessions \union {NoSession}]]
  /\ evictor \in [pc : {"idle", "lock", "scan", "judge"}, now : 0 .. MaxClock,
                  todo : SUBSET Sessions, silent : SUBSET Sessions,
                  session : Sessions \union {NoSession},
                  st : {"open", "capturing", "ending", "done"}]
  /\ mu = Evictor <=> evictor.pc \in {"scan", "judge"}
  /\ \A c \in Creators : mu = c <=> creator[c].pc = "search"

\* The two maps hold the same sessions, each under a number of its own that is
\* not 0, however numbers wrap and whatever was evicted: a datagram's number
\* names one live session at most.
NumbersAgree ==
  /\ \A s \in byID : seq[s] \in Numbers /\ bySeq[seq[s]] = s
  /\ \A n \in Numbers : bySeq[n] # NoSession => bySeq[n] \in byID /\ seq[bySeq[n]] = n

\* A session is evicted only past its TTL, and only if it is done or no chunk had
\* reached it when the round began: one that is capturing stays, though its
\* state is read under another mutex than the one its chunks are taken in under,
\* and may be stale when the session is judged.  What does not keep a session is
\* an END not yet followed by its MarkEnding, a close, or client stats.
EvictedOldAndQuiet ==
  [][\A s \in byID \ byID' :
       /\ clock - createdAt[s] > TTL
       /\ state[s] = "done" \/ s \in evictor.silent]_vars

\* POST /sessions ends whenever some number is free: the search reaches it
\* across the wrap and over the numbers taken.
SearchEnds ==
  \A c \in Creators :
    (creator[c].pc = "search" /\ \E n \in Numbers : bySeq[n] = NoSession)
      ~> creator[c].pc # "search"

\* A search over a full table holds m.mu for ever.
TableFull ==
  /\ \E c \in Creators : creator[c].pc = "search"
  /\ \A n \in Numbers : bySeq[n] # NoSession

\* evictLoop forgets every consolidated session, however often creators and
\* connections take the mutex before it, unless a search never gives it back.
DoneForgotten ==
  \A s \in Sessions :
    (s \in byID /\ state[s] = "done" /\ clock < MaxClock - TTL) ~> (s \notin byID \/ TableFull)

Lifecycle(s) == INSTANCE SessionLifecycle
  WITH state <- state[s], heard <- Heard(s), running <- loop[s] # "ended"

\* Evicted or not, and whatever connections do between two calls, every session
\* goes through the life cycle of a single session: it is ending only once its
\* reassembler knows of an END, it is consolidated once, by its loop, and only
\* if a chunk, an END or a close reached it.
LifecyclesImplemented ==
  /\ \A s \in Sessions : Lifecycle(s)!LInit
  /\ [][\A s \in Sessions :
          Lifecycle(s)!LNext \/ UNCHANGED Lifecycle(s)!lvars]_vars

\* "evictLoop libera sesiones done (o abandonadas sin tráfico) pasado el TTL
\* ... solo se libera la memoria": the goroutine of a session that was evicted
\* ends, since it holds that memory.
EvictedLoopEnds ==
  \A s \in Sessions : (loop[s] # "none" /\ s \notin byID) ~> loop[s] = "ended"
=============================================================================
