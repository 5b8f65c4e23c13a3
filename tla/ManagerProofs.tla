--------------------------- MODULE ManagerProofs ---------------------------
(***************************************************************************)
(* What holds of the manager's table for any number of creators, sessions    *)
(* and numbers, any TTL and any interleaving.                                *)
(***************************************************************************)
EXTENDS Manager, TLAPS

\* A session under construction is in no map, has no loop and belongs to one
\* creator.
CreatorsApart ==
  /\ byID \subseteq 1 .. created
  /\ \A c \in Creators : creator[c].pc # "idle" => creator[c].session \in 1 .. created
  /\ \A c \in Creators : creator[c].pc \in {"lock", "search"} => creator[c].session \notin byID
  /\ \A c, d \in Creators :
       c # d /\ creator[c].pc # "idle" /\ creator[d].pc # "idle"
         => creator[c].session # creator[d].session
  /\ \A c \in Creators : creator[c].pc # "idle" => loop[creator[c].session] = "none"
  /\ \A s \in Sessions : s > created => loop[s] = "none"

\* What a round of evictLoop knows of the sessions is stale in one way only: a
\* session it read as open may have gone on.
RoundFresh ==
  /\ evictor.now <= clock
  /\ evictor.todo \subseteq byID
  /\ \A s \in evictor.todo : state[s] = "open" => s \in evictor.silent
  /\ evictor.pc = "judge" =>
       /\ evictor.session \in byID \ evictor.todo
       /\ evictor.st = "done" => state[evictor.session] = "done"
       /\ evictor.st = "open" => evictor.session \in evictor.silent

\* What a connection has already done to its session when it goes on to the next
\* call: no chunk is taken in before its session is marked, and none is ending
\* before its reassembler knows of the END.
CallsInOrder ==
  /\ \A k \in Conns : conn[k].pc # "none" => conn[k].session \in Sessions
  /\ \A k \in Conns : conn[k].pc = "chunk" => state[conn[k].session] # "open"
  /\ \A k \in Conns : conn[k].pc = "end" => told[conn[k].session]
  /\ \A s \in Sessions : ingested[s] => state[s] # "open"
  /\ \A s \in Sessions : loop[s] = "closing" => Heard(s)

IInv == TypeOK /\ NumbersAgree /\ CreatorsApart /\ CallsInOrder /\ RoundFresh

-----------------------------------------------------------------------------
(* Type correctness                                                         *)

\* The successor of a number is a number: 0 is stepped over.
LEMMA SuccessorType == ASSUME NEW n \in Numbers \union {0} PROVE Successor(n) \in Numbers
<1>1. n \in Nat /\ n + 1 <= SeqRange /\ SeqRange > 1 /\ SeqRange \in Nat
  BY ManagerAssumption DEF Numbers
<1>2. CASE n + 1 = SeqRange
  <2>1. SeqRange % SeqRange = 0
    BY <1>1
  <2> QED
    BY <1>1, <1>2, <2>1 DEF Successor, Numbers
<1>3. CASE n + 1 # SeqRange
  BY <1>1, <1>3 DEF Successor, Numbers
<1> QED
  BY <1>2, <1>3

Places == [pc : {"none", "free", "chunk", "end", "over"}, session : Sessions \union {NoSession}]

\* A call moves its connection on, and leaves it its session.
LEMMA AtType ==
  ASSUME NEW k \in Conns, NEW here, NEW there \in {"free", "chunk", "end", "over"},
         conn \in [Conns -> Places], At(k, here, there)
  PROVE  conn' \in [Conns -> Places]
BY DEF At, Places

\* Every step keeps the types, and the mutex with the goroutine inside it.
LEMMA TypeStep == TypeOK /\ CreatorsApart /\ RoundFresh /\ [Next]_vars => TypeOK'
<1> SUFFICES ASSUME TypeOK /\ CreatorsApart /\ RoundFresh, [Next]_vars PROVE TypeOK'
  OBVIOUS
<1> USE ManagerAssumption DEF table, fields, sessions, OnlySessions, Sessions, NoSession, Numbers, NoOne, Evictor, Resting, NextOne, TypeOK, CreatorsApart, RoundFresh
<1>1. ASSUME NEW c \in Creators, NewSession(c) PROVE TypeOK'
  <2>1. created + 1 \in Sessions /\ created' \in 0 .. MaxSessions
    BY <1>1 DEF NewSession
  <2>2. creator' \in [Creators -> [pc : {"idle", "lock", "search", "start"},
                                  session : Sessions \union {NoSession}]]
    BY <1>1, <2>1 DEF NewSession
  <2>3. createdAt' \in [Sessions -> 0 .. MaxClock]
    BY <1>1, <2>1 DEF NewSession
  <2>4. \A d \in Creators : creator'[d].pc = "search" <=> creator[d].pc = "search"
    BY <1>1 DEF NewSession
  <2> QED
    BY <1>1, <2>1, <2>2, <2>3, <2>4 DEF NewSession
<1>2. ASSUME NEW c \in Creators, LockForCreate(c) PROVE TypeOK'
  <2>1. creator' \in [Creators -> [pc : {"idle", "lock", "search", "start"},
                                  session : Sessions \union {NoSession}]]
    BY <1>2 DEF LockForCreate
  <2>2. \A d \in Creators : creator'[d].pc = "search" <=> (d = c \/ creator[d].pc = "search")
    BY <1>2 DEF LockForCreate
  <2>3. \A d \in Creators : mu' = d <=> creator'[d].pc = "search"
    BY <1>2, <2>2 DEF LockForCreate
  <2>4. mu' = Evictor <=> evictor'.pc \in {"scan", "judge"}
    BY <1>2 DEF LockForCreate
  <2> QED
    BY <1>2, <2>1, <2>3, <2>4 DEF LockForCreate
<1>3. ASSUME NEW c \in Creators, TryNumber(c) PROVE TypeOK'
  <2>1. nextSeq' \in Numbers
    BY <1>3, SuccessorType DEF TryNumber
  <2>2. creator[c].session \in Sessions
    BY <1>3 DEF TryNumber
  <2>3. CASE bySeq[nextSeq'] # NoSession
    <3>1. UNCHANGED <<clock, mu, byID, bySeq, created, createdAt, seq, state, ingested, told, loop,
                      conn, creator, evictor>>
      BY <1>3, <2>3 DEF TryNumber
    <3> QED
      BY <2>1, <3>1
  <2>4. CASE bySeq[nextSeq'] = NoSession
    <3>1. /\ seq' = [seq EXCEPT ![creator[c].session] = nextSeq']
          /\ bySeq' = [bySeq EXCEPT ![nextSeq'] = creator[c].session]
          /\ byID' = byID \union {creator[c].session}
          /\ mu' = NoOne
          /\ creator' = [creator EXCEPT ![c].pc = "start"]
      BY <1>3, <2>4 DEF TryNumber
    <3>2. creator' \in [Creators -> [pc : {"idle", "lock", "search", "start"},
                                    session : Sessions \union {NoSession}]]
      BY <3>1
    <3>3. \A d \in Creators : creator'[d].pc # "search"
      BY <1>3, <3>1 DEF TryNumber
    <3>4. mu' = Evictor <=> evictor'.pc \in {"scan", "judge"}
      BY <1>3, <3>1 DEF TryNumber
    <3>5. \A d \in Creators : mu' = d <=> creator'[d].pc = "search"
      BY <3>1, <3>3
    <3>6. seq' \in [Sessions -> Numbers \union {0}] /\ bySeq' \in [Numbers -> Sessions \union {NoSession}]
      BY <2>1, <2>2, <3>1
    <3>7. UNCHANGED <<clock, created, createdAt, sessions, evictor>>
      BY <1>3 DEF TryNumber
    <3>8. mu' \in Creators \union {NoOne, Evictor} /\ byID' \subseteq Sessions
      BY <2>2, <3>1
    <3> QED
      BY <2>1, <3>2, <3>4, <3>5, <3>6, <3>7, <3>8
  <2> QED
    BY <2>3, <2>4
<1>4. ASSUME NEW c \in Creators, StartLoop(c) PROVE TypeOK'
  BY <1>4 DEF StartLoop
<1>5. ASSUME NEW k \in Conns, NEW s \in Sessions, Resolve(k, s) PROVE TypeOK'
  <2>1. conn' \in [Conns -> Places]
    BY <1>5 DEF Resolve, Places
  <2> QED
    BY <1>5, <2>1 DEF Resolve, Places
<1>6. ASSUME NEW k \in Conns, MarkCapturing(k) PROVE TypeOK'
  <2>1. conn' \in [Conns -> Places]
    BY <1>6, AtType DEF MarkCapturing, Places
  <2>2. state' \in [Sessions -> {"open", "capturing", "ending", "done"}]
    BY <1>6 DEF MarkCapturing
  <2> QED
    BY <1>6, <2>1, <2>2 DEF MarkCapturing, Places
<1>7. ASSUME NEW k \in Conns, Ingest(k) PROVE TypeOK'
  <2>1. conn' \in [Conns -> Places]
    BY <1>7, AtType DEF Ingest, Places
  <2>2. ingested' \in [Sessions -> BOOLEAN]
    BY <1>7 DEF Ingest
  <2> QED
    BY <1>7, <2>1, <2>2 DEF Ingest, Places
<1>8. ASSUME NEW k \in Conns, MarkEnd(k) PROVE TypeOK'
  <2>1. conn' \in [Conns -> Places]
    BY <1>8, AtType DEF MarkEnd, Places
  <2>2. told' \in [Sessions -> BOOLEAN]
    BY <1>8 DEF MarkEnd
  <2> QED
    BY <1>8, <2>1, <2>2 DEF MarkEnd, Places
<1>9. ASSUME NEW k \in Conns, MarkEnding(k) PROVE TypeOK'
  <2>1. conn' \in [Conns -> Places]
    BY <1>9, AtType DEF MarkEnding, Places
  <2>2. state' \in [Sessions -> {"open", "capturing", "ending", "done"}]
    BY <1>9 DEF MarkEnding
  <2> QED
    BY <1>9, <2>1, <2>2 DEF MarkEnding, Places
<1>10. ASSUME NEW k \in Conns, Leave(k) PROVE TypeOK'
  <2>1. conn' \in [Conns -> Places]
    BY <1>10, AtType DEF Leave, Places
  <2>2. told' \in [Sessions -> BOOLEAN]
    BY <1>10 DEF Leave
  <2> QED
    BY <1>10, <2>1, <2>2 DEF Leave, Places
<1>11. ASSUME NEW s \in Sessions, ShouldFinalize(s) PROVE TypeOK'
  BY <1>11 DEF ShouldFinalize
<1>12. ASSUME NEW s \in Sessions, FinalizeOnce(s) PROVE TypeOK'
  BY <1>12 DEF FinalizeOnce
<1>13. ASSUME NEW s \in Sessions, LoopReturns(s) PROVE TypeOK'
  BY <1>13 DEF LoopReturns
<1>14. CASE EvictTick
  BY <1>14 DEF EvictTick
<1>15. CASE LockForEvict
  BY <1>15 DEF LockForEvict
<1>16. ASSUME NEW s \in Sessions, ReadState(s) PROVE TypeOK'
  BY <1>16 DEF ReadState
<1>17. CASE Judge
  BY <1>17 DEF Judge
<1>18. CASE UnlockEvict
  BY <1>18 DEF UnlockEvict
<1>19. CASE TimePasses
  <2>1. clock' \in 0 .. MaxClock
    BY <1>19 DEF TimePasses
  <2> QED
    BY <1>19, <2>1 DEF TimePasses
<1>20. CASE UNCHANGED vars
  BY <1>20 DEF vars, table, fields, sessions
<1> QED
  BY <1>1, <1>2, <1>3, <1>4, <1>5, <1>6, <1>7, <1>8, <1>9, <1>10, <1>11, <1>12, <1>13, <1>14, <1>15, <1>16, <1>17, <1>18, <1>19, <1>20 DEF Next, CreateProceeds, Connection, HandleDatagram, HandleControl, SweepLoop, EvictLoop

\* No step lets the two maps disagree.
LEMMA NumbersStep == IInv /\ [Next]_vars => NumbersAgree'
<1> SUFFICES ASSUME IInv, [Next]_vars PROVE NumbersAgree'
  OBVIOUS
<1> USE ManagerAssumption DEF table, fields, sessions, OnlySessions, Sessions, NoSession, Numbers, NoOne, Evictor, Resting, NextOne, IInv, TypeOK, NumbersAgree, CreatorsApart, RoundFresh
<1>1. ASSUME NEW c \in Creators, NewSession(c) PROVE NumbersAgree'
  BY <1>1 DEF NewSession
<1>2. ASSUME NEW c \in Creators, LockForCreate(c) PROVE NumbersAgree'
  BY <1>2 DEF LockForCreate
<1>3. ASSUME NEW c \in Creators, TryNumber(c) PROVE NumbersAgree'
  <2> DEFINE t == creator[c].session
  <2>1. nextSeq' \in Numbers
    BY <1>3, SuccessorType DEF TryNumber
  <2>2. t \in Sessions /\ t \notin byID
    BY <1>3 DEF TryNumber
  <2>3. CASE bySeq[nextSeq'] # NoSession
    BY <1>3, <2>3 DEF TryNumber
  <2>4. CASE bySeq[nextSeq'] = NoSession
    <3>1. /\ seq' = [seq EXCEPT ![t] = nextSeq']
          /\ bySeq' = [bySeq EXCEPT ![nextSeq'] = t]
          /\ byID' = byID \union {t}
      BY <1>3, <2>4 DEF TryNumber
    <3>2. ASSUME NEW s \in byID' PROVE seq'[s] \in Numbers /\ bySeq'[seq'[s]] = s
      BY <2>1, <2>2, <2>4, <3>1, <3>2
    <3>3. ASSUME NEW n \in Numbers, bySeq'[n] # NoSession
          PROVE bySeq'[n] \in byID' /\ seq'[bySeq'[n]] = n
      BY <2>1, <2>2, <3>1, <3>3
    <3> QED
      BY <3>2, <3>3
  <2> QED
    BY <2>3, <2>4
<1>4. ASSUME NEW c \in Creators, StartLoop(c) PROVE NumbersAgree'
  BY <1>4 DEF StartLoop
<1>5. ASSUME NEW k \in Conns, NEW s \in Sessions, Resolve(k, s) PROVE NumbersAgree'
  BY <1>5 DEF Resolve
<1>6. ASSUME NEW k \in Conns, MarkCapturing(k) PROVE NumbersAgree'
  BY <1>6 DEF MarkCapturing, At
<1>7. ASSUME NEW k \in Conns, Ingest(k) PROVE NumbersAgree'
  BY <1>7 DEF Ingest, At
<1>8. ASSUME NEW k \in Conns, MarkEnd(k) PROVE NumbersAgree'
  BY <1>8 DEF MarkEnd, At
<1>9. ASSUME NEW k \in Conns, MarkEnding(k) PROVE NumbersAgree'
  BY <1>9 DEF MarkEnding, At
<1>10. ASSUME NEW k \in Conns, Leave(k) PROVE NumbersAgree'
  BY <1>10 DEF Leave, At
<1>11. ASSUME NEW s \in Sessions, ShouldFinalize(s) PROVE NumbersAgree'
  BY <1>11 DEF ShouldFinalize
<1>12. ASSUME NEW s \in Sessions, FinalizeOnce(s) PROVE NumbersAgree'
  BY <1>12 DEF FinalizeOnce
<1>13. ASSUME NEW s \in Sessions, LoopReturns(s) PROVE NumbersAgree'
  BY <1>13 DEF LoopReturns
<1>14. CASE EvictTick
  BY <1>14 DEF EvictTick
<1>15. CASE LockForEvict
  BY <1>15 DEF LockForEvict
<1>16. ASSUME NEW s \in Sessions, ReadState(s) PROVE NumbersAgree'
  BY <1>16 DEF ReadState
<1>17. CASE Judge
  <2> DEFINE t == evictor.session
  <2>1. t \in byID /\ t \in Sessions
    BY <1>17 DEF Judge
  <2>2. CASE ~Evictable(evictor.st, evictor.now - createdAt[t])
    BY <1>17, <2>2 DEF Judge
  <2>3. CASE Evictable(evictor.st, evictor.now - createdAt[t])
    <3>1. byID' = byID \ {t} /\ bySeq' = [bySeq EXCEPT ![seq[t]] = NoSession] /\ seq' = seq
      BY <1>17, <2>3 DEF Judge
    <3>2. ASSUME NEW s \in byID' PROVE seq'[s] \in Numbers /\ bySeq'[seq'[s]] = s
      BY <2>1, <3>1, <3>2
    <3>3. ASSUME NEW n \in Numbers, bySeq'[n] # NoSession
          PROVE bySeq'[n] \in byID' /\ seq'[bySeq'[n]] = n
      BY <2>1, <3>1, <3>3
    <3> QED
      BY <3>2, <3>3
  <2> QED
    BY <2>2, <2>3
<1>18. CASE UnlockEvict
  BY <1>18 DEF UnlockEvict
<1>19. CASE TimePasses
  BY <1>19 DEF TimePasses
<1>20. CASE UNCHANGED vars
  BY <1>20 DEF vars, table, fields, sessions
<1> QED
  BY <1>1, <1>2, <1>3, <1>4, <1>5, <1>6, <1>7, <1>8, <1>9, <1>10, <1>11, <1>12, <1>13, <1>14, <1>15, <1>16, <1>17, <1>18, <1>19, <1>20 DEF Next, CreateProceeds, Connection, HandleDatagram, HandleControl, SweepLoop, EvictLoop

\* Creators stay apart.
LEMMA CreatorsStep == IInv /\ [Next]_vars => CreatorsApart'
<1> SUFFICES ASSUME IInv, [Next]_vars PROVE CreatorsApart'
  OBVIOUS
<1> USE ManagerAssumption DEF table, fields, sessions, OnlySessions, Sessions, NoSession, Numbers, NoOne, Evictor, Resting, NextOne, IInv, TypeOK, CreatorsApart
<1>1. ASSUME NEW c \in Creators, NewSession(c) PROVE CreatorsApart'
  BY <1>1 DEF NewSession
<1>2. ASSUME NEW c \in Creators, LockForCreate(c) PROVE CreatorsApart'
  BY <1>2 DEF LockForCreate
<1>3. ASSUME NEW c \in Creators, TryNumber(c) PROVE CreatorsApart'
  <2> DEFINE t == creator[c].session
  <2>1. t \in 1 .. created
    BY <1>3 DEF TryNumber
  <2>2. CASE bySeq[nextSeq'] # NoSession
    BY <1>3, <2>2 DEF TryNumber
  <2>3. CASE bySeq[nextSeq'] = NoSession
    <3>1. byID' = byID \union {t} /\ creator' = [creator EXCEPT ![c].pc = "start"] /\ created' = created
      BY <1>3, <2>3 DEF TryNumber
    <3>2. \A d \in Creators : creator'[d].session = creator[d].session
      BY <3>1
    <3>3. \A d \in Creators : creator'[d].pc = IF d = c THEN "start" ELSE creator[d].pc
      BY <3>1
    <3>4. creator[c].pc = "search"
      BY <1>3 DEF TryNumber
    <3>5. loop' = loop
      BY <1>3 DEF TryNumber
    <3>6. \A d \in Creators : creator'[d].pc # "idle" => creator[d].pc # "idle"
      BY <3>3, <3>4
    <3>7. /\ byID' \subseteq 1 .. created'
          /\ \A d \in Creators : creator'[d].pc # "idle" => creator'[d].session \in 1 .. created'
          /\ \A d \in Creators : creator'[d].pc # "idle" => loop'[creator'[d].session] = "none"
          /\ \A s \in Sessions : s > created' => loop'[s] = "none"
      BY <2>1, <3>1, <3>2, <3>5, <3>6
    <3>8. \A d, e \in Creators : d # e /\ creator'[d].pc # "idle" /\ creator'[e].pc # "idle"
            => creator'[d].session # creator'[e].session
      BY <3>2, <3>6
    <3>9. \A d \in Creators : creator'[d].pc \in {"lock", "search"} => creator'[d].session \notin byID'
      BY <3>1, <3>2, <3>3, <3>4
    <3> QED
      BY <3>7, <3>8, <3>9
  <2> QED
    BY <2>2, <2>3
<1>4. ASSUME NEW c \in Creators, StartLoop(c) PROVE CreatorsApart'
  <2> DEFINE t == creator[c].session
  <2>1. /\ creator' = [creator EXCEPT ![c] = [pc |-> "idle", session |-> NoSession]]
        /\ loop' = [loop EXCEPT ![t] = "running"]
        /\ UNCHANGED <<byID, created>>
        /\ creator[c].pc = "start"
    BY <1>4 DEF StartLoop
  <2>2. \A d \in Creators : creator'[d].pc # "idle" => d # c /\ creator'[d] = creator[d]
    BY <2>1
  <2>3. t \in 1 .. created
    BY <2>1
  <2>4. \A d \in Creators : creator'[d].pc # "idle" => loop'[creator'[d].session] = "none"
    BY <2>1, <2>2
  <2>5. \A s \in Sessions : s > created => loop'[s] = "none"
    BY <2>1, <2>3
  <2>6. \A d \in Creators : creator'[d].pc \in {"lock", "search"} => creator'[d].session \notin byID'
    <3>1. \A d \in Creators : creator'[d].pc \in {"lock", "search"} => creator'[d].pc # "idle"
      OBVIOUS
    <3> QED
      BY <2>1, <2>2, <3>1
  <2>7. \A d, e \in Creators : d # e /\ creator'[d].pc # "idle" /\ creator'[e].pc # "idle"
          => creator'[d].session # creator'[e].session
    BY <2>2
  <2>8. \A d \in Creators : creator'[d].pc # "idle" => creator'[d].session \in 1 .. created'
    BY <2>1, <2>2
  <2> QED
    BY <2>1, <2>4, <2>5, <2>6, <2>7, <2>8
<1>5. ASSUME NEW k \in Conns, NEW s \in Sessions, Resolve(k, s) PROVE CreatorsApart'
  BY <1>5 DEF Resolve
<1>6. ASSUME NEW k \in Conns, MarkCapturing(k) PROVE CreatorsApart'
  BY <1>6 DEF MarkCapturing, At
<1>7. ASSUME NEW k \in Conns, Ingest(k) PROVE CreatorsApart'
  BY <1>7 DEF Ingest, At
<1>8. ASSUME NEW k \in Conns, MarkEnd(k) PROVE CreatorsApart'
  BY <1>8 DEF MarkEnd, At
<1>9. ASSUME NEW k \in Conns, MarkEnding(k) PROVE CreatorsApart'
  BY <1>9 DEF MarkEnding, At
<1>10. ASSUME NEW k \in Conns, Leave(k) PROVE CreatorsApart'
  BY <1>10 DEF Leave, At
<1>11. ASSUME NEW s \in Sessions, ShouldFinalize(s) PROVE CreatorsApart'
  BY <1>11 DEF ShouldFinalize
<1>12. ASSUME NEW s \in Sessions, FinalizeOnce(s) PROVE CreatorsApart'
  BY <1>12 DEF FinalizeOnce
<1>13. ASSUME NEW s \in Sessions, LoopReturns(s) PROVE CreatorsApart'
  BY <1>13 DEF LoopReturns
<1>14. CASE EvictTick
  BY <1>14 DEF EvictTick
<1>15. CASE LockForEvict
  BY <1>15 DEF LockForEvict
<1>16. ASSUME NEW s \in Sessions, ReadState(s) PROVE CreatorsApart'
  BY <1>16 DEF ReadState
<1>17. CASE Judge
  BY <1>17 DEF Judge
<1>18. CASE UnlockEvict
  BY <1>18 DEF UnlockEvict
<1>19. CASE TimePasses
  BY <1>19 DEF TimePasses
<1>20. CASE UNCHANGED vars
  BY <1>20 DEF vars, table, fields, sessions
<1> QED
  BY <1>1, <1>2, <1>3, <1>4, <1>5, <1>6, <1>7, <1>8, <1>9, <1>10, <1>11, <1>12, <1>13, <1>14, <1>15, <1>16, <1>17, <1>18, <1>19, <1>20 DEF Next, CreateProceeds, Connection, HandleDatagram, HandleControl, SweepLoop, EvictLoop

\* The calls of every connection stay in order.
LEMMA CallsStep == IInv /\ [Next]_vars => CallsInOrder'
<1> SUFFICES ASSUME IInv, [Next]_vars PROVE CallsInOrder'
  OBVIOUS
<1> USE DEF table, fields, sessions, OnlySessions, Heard, IInv, TypeOK, CallsInOrder
<1>1. CASE \E c \in Creators : NewSession(c) \/ LockForCreate(c) \/ TryNumber(c)
  BY <1>1 DEF NewSession, LockForCreate, TryNumber
<1>2. ASSUME NEW c \in Creators, StartLoop(c) PROVE CallsInOrder'
  BY <1>2 DEF StartLoop
<1>3. ASSUME NEW k \in Conns, NEW s \in Sessions, Resolve(k, s) PROVE CallsInOrder'
  BY <1>3 DEF Resolve
<1>4. ASSUME NEW k \in Conns, MarkCapturing(k) PROVE CallsInOrder'
  BY <1>4 DEF MarkCapturing, At
<1>5. ASSUME NEW k \in Conns, Ingest(k) PROVE CallsInOrder'
  BY <1>5 DEF Ingest, At
<1>6. ASSUME NEW k \in Conns, MarkEnd(k) PROVE CallsInOrder'
  BY <1>6 DEF MarkEnd, At
<1>7. ASSUME NEW k \in Conns, MarkEnding(k) PROVE CallsInOrder'
  BY <1>7 DEF MarkEnding, At
<1>8. ASSUME NEW k \in Conns, Leave(k) PROVE CallsInOrder'
  BY <1>8 DEF Leave, At
<1>9. ASSUME NEW s \in Sessions, ShouldFinalize(s) PROVE CallsInOrder'
  BY <1>9 DEF ShouldFinalize
<1>10. ASSUME NEW s \in Sessions, FinalizeOnce(s) PROVE CallsInOrder'
  BY <1>10 DEF FinalizeOnce
<1>11. ASSUME NEW s \in Sessions, LoopReturns(s) PROVE CallsInOrder'
  BY <1>11 DEF LoopReturns
<1>12. CASE EvictLoop
  <2>1. UNCHANGED sessions
    BY <1>12 DEF EvictLoop, EvictTick, LockForEvict, ReadState, Judge, UnlockEvict
  <2> QED
    BY <2>1
<1>13. CASE TimePasses \/ UNCHANGED vars
  BY <1>13 DEF TimePasses, vars
<1> QED
  BY <1>1, <1>2, <1>3, <1>4, <1>5, <1>6, <1>7, <1>8, <1>9, <1>10, <1>11, <1>12, <1>13 DEF Next, CreateProceeds, Connection, HandleDatagram, HandleControl, SweepLoop

\* What evictLoop knows stays stale in one way only.
LEMMA RoundStep == IInv /\ [Next]_vars => RoundFresh'
<1> SUFFICES ASSUME IInv, [Next]_vars PROVE RoundFresh'
  OBVIOUS
<1> USE ManagerAssumption DEF table, fields, sessions, OnlySessions, Sessions, NoSession, Numbers, NoOne, Evictor, Resting, NextOne, IInv, TypeOK, RoundFresh, CreatorsApart, CallsInOrder
<1>1. ASSUME NEW c \in Creators, NewSession(c) PROVE RoundFresh'
  BY <1>1 DEF NewSession
<1>2. ASSUME NEW c \in Creators, LockForCreate(c) PROVE RoundFresh'
  BY <1>2 DEF LockForCreate
<1>3. ASSUME NEW c \in Creators, TryNumber(c) PROVE RoundFresh'
  BY <1>3 DEF TryNumber, Successor
<1>4. ASSUME NEW c \in Creators, StartLoop(c) PROVE RoundFresh'
  BY <1>4 DEF StartLoop
<1>5. ASSUME NEW k \in Conns, NEW s \in Sessions, Resolve(k, s) PROVE RoundFresh'
  BY <1>5 DEF Resolve
<1>6. ASSUME NEW k \in Conns, MarkCapturing(k) PROVE RoundFresh'
  BY <1>6 DEF MarkCapturing, At
<1>7. ASSUME NEW k \in Conns, Ingest(k) PROVE RoundFresh'
  BY <1>7 DEF Ingest, At
<1>8. ASSUME NEW k \in Conns, MarkEnd(k) PROVE RoundFresh'
  BY <1>8 DEF MarkEnd, At
<1>9. ASSUME NEW k \in Conns, MarkEnding(k) PROVE RoundFresh'
  BY <1>9 DEF MarkEnding, At
<1>10. ASSUME NEW k \in Conns, Leave(k) PROVE RoundFresh'
  BY <1>10 DEF Leave, At
<1>11. ASSUME NEW s \in Sessions, ShouldFinalize(s) PROVE RoundFresh'
  BY <1>11 DEF ShouldFinalize
<1>12. ASSUME NEW s \in Sessions, FinalizeOnce(s) PROVE RoundFresh'
  BY <1>12 DEF FinalizeOnce
<1>13. ASSUME NEW s \in Sessions, LoopReturns(s) PROVE RoundFresh'
  BY <1>13 DEF LoopReturns
<1>14. CASE EvictTick
  BY <1>14 DEF EvictTick
<1>15. CASE LockForEvict
  BY <1>15 DEF LockForEvict
<1>16. ASSUME NEW s \in Sessions, ReadState(s) PROVE RoundFresh'
  BY <1>16 DEF ReadState
<1>17. CASE Judge
  BY <1>17 DEF Judge
<1>18. CASE UnlockEvict
  BY <1>18 DEF UnlockEvict
<1>19. CASE TimePasses
  BY <1>19 DEF TimePasses
<1>20. CASE UNCHANGED vars
  BY <1>20 DEF vars, table, fields, sessions
<1> QED
  BY <1>1, <1>2, <1>3, <1>4, <1>5, <1>6, <1>7, <1>8, <1>9, <1>10, <1>11, <1>12, <1>13, <1>14, <1>15, <1>16, <1>17, <1>18, <1>19, <1>20 DEF Next, CreateProceeds, Connection, HandleDatagram, HandleControl, SweepLoop, EvictLoop

-----------------------------------------------------------------------------
(* The theorems                                                             *)

LEMMA InitInv == Init => IInv
<1> SUFFICES ASSUME Init PROVE IInv
  OBVIOUS
<1> USE ManagerAssumption DEF Init, Sessions, NoSession, Numbers, NoOne, Evictor, Resting
<1>1. TypeOK
  BY DEF TypeOK
<1>2. NumbersAgree /\ CreatorsApart /\ RoundFresh
  BY DEF NumbersAgree, CreatorsApart, RoundFresh
<1>3. CallsInOrder
  BY DEF CallsInOrder
<1> QED
  BY <1>1, <1>2, <1>3 DEF IInv

LEMMA StepInv == IInv /\ [Next]_vars => IInv'
BY TypeStep, NumbersStep, CreatorsStep, CallsStep, RoundStep DEF IInv

LEMMA Invariance == Spec => []IInv
BY InitInv, StepInv, PTL DEF Spec

\* Every variable keeps its type, and whoever holds m.mu is in its critical
\* section, for any number of creators.
THEOREM ManagerTypes == Spec => []TypeOK
BY Invariance, PTL DEF IInv

\* byID and bySeq hold the same sessions, each under a number of its own, over
\* any number of wraps of nextSeq and whatever evictLoop removes meanwhile.
THEOREM NumbersNameOneSession == Spec => []NumbersAgree
BY Invariance, PTL DEF IInv

\* evictLoop removes a session only past its TTL, and only a consolidated one or
\* one that no chunk had reached when the round began: a chunk is taken in only
\* after its session was marked (CallsInOrder), so a session read as open cannot
\* have had one by then (RoundFresh).
THEOREM EvictionSpares == Spec => EvictedOldAndQuiet
<1> DEFINE Spares == \A s \in byID \ byID' :
                       /\ clock - createdAt[s] > TTL
                       /\ state[s] = "done" \/ s \in evictor.silent
<1>1. IInv /\ [Next]_vars => [Spares]_vars
  <2> SUFFICES ASSUME IInv, [Next]_vars, NEW s \in byID \ byID'
               PROVE clock - createdAt[s] > TTL /\ (state[s] = "done" \/ s \in evictor.silent)
    OBVIOUS
  <2> USE DEF table, fields, sessions, OnlySessions
  <2>1. Judge
    <3>1. CASE \E c \in Creators : NewSession(c) \/ CreateProceeds(c)
      BY <3>1 DEF NewSession, CreateProceeds, LockForCreate, TryNumber, StartLoop
    <3>2. CASE \E k \in Conns : Connection(k)
      BY <3>2 DEF Connection, HandleDatagram, HandleControl, Resolve, MarkCapturing, Ingest, MarkEnd, MarkEnding, Leave
    <3>3. CASE \E t \in Sessions : SweepLoop(t)
      BY <3>3 DEF SweepLoop, ShouldFinalize, FinalizeOnce, LoopReturns
    <3>4. CASE EvictLoop
      BY <3>4 DEF EvictLoop, EvictTick, LockForEvict, ReadState, UnlockEvict
    <3>5. CASE TimePasses \/ UNCHANGED vars
      BY <3>5 DEF TimePasses, vars
    <3> QED
      BY <3>1, <3>2, <3>3, <3>4, <3>5 DEF Next
  <2>2. s = evictor.session /\ Evictable(evictor.st, evictor.now - createdAt[s])
    BY <2>1 DEF Judge
  <2>3. /\ s \in Sessions /\ createdAt[s] \in Nat /\ clock \in Nat /\ evictor.now \in Nat /\ TTL \in Nat
    BY ManagerAssumption DEF IInv, TypeOK
  <2>4. clock - createdAt[s] > TTL
    BY <2>2, <2>3 DEF Evictable, IInv, RoundFresh
  <2>5. state[s] = "done" \/ s \in evictor.silent
    BY <2>1, <2>2 DEF Evictable, IInv, RoundFresh, Judge
  <2> QED
    BY <2>4, <2>5
<1> QED
  BY <1>1, Invariance, PTL DEF Spec, EvictedOldAndQuiet

\* The calls of any number of connections and the loops of any number of
\* sessions, evicted or not, implement the life cycle of SessionLifecycle (its
\* safety part) session by session: from CallsInOrder, an END is known before the
\* session is ending, and a loop that goes on to consolidate has heard something.
THEOREM EveryLifecycle == Spec => LifecyclesImplemented
<1> USE DEF table, fields, sessions, OnlySessions
<1> DEFINE Cycles == \A s \in Sessions : Lifecycle(s)!LNext \/ UNCHANGED Lifecycle(s)!lvars
<1>1. Init => \A s \in Sessions : Lifecycle(s)!LInit
  BY DEF Init, Heard, Lifecycle!LInit
<1>2. IInv /\ [Next]_vars => [Cycles]_vars
  <2> SUFFICES ASSUME IInv, [Next]_vars, NEW s \in Sessions
               PROVE Lifecycle(s)!LNext \/ UNCHANGED Lifecycle(s)!lvars
    BY DEF Cycles
  <2> USE DEF Lifecycle!LNext, Lifecycle!lvars
  <2>1. CASE \E c \in Creators : NewSession(c) \/ LockForCreate(c) \/ TryNumber(c)
    BY <2>1 DEF NewSession, LockForCreate, TryNumber, Heard
  <2>2. ASSUME NEW c \in Creators, StartLoop(c) PROVE UNCHANGED Lifecycle(s)!lvars
    <3>1. loop[creator[c].session] = "none" /\ loop \in [Sessions -> {"none", "running", "closing", "ended"}]
      BY <2>2 DEF StartLoop, IInv, CreatorsApart, TypeOK
    <3> QED
      BY <2>2, <3>1 DEF StartLoop, Heard
  <2>3. ASSUME NEW k \in Conns, Connection(k)
        PROVE Lifecycle(s)!LNext \/ UNCHANGED Lifecycle(s)!lvars
    <3> USE DEF IInv, TypeOK, CallsInOrder, Heard
    <3>1. CASE \E t \in Sessions : Resolve(k, t)
      BY <3>1 DEF Resolve
    <3>2. CASE MarkCapturing(k)
      BY <3>2 DEF MarkCapturing, At, Lifecycle!FirstChunk
    <3>3. CASE Ingest(k)
      BY <3>3 DEF Ingest, At, Lifecycle!Hear
    <3>4. CASE MarkEnd(k)
      BY <3>4 DEF MarkEnd, At, Lifecycle!Hear
    <3>5. CASE MarkEnding(k)
      BY <3>5 DEF MarkEnding, At, Lifecycle!EndReceived
    <3>6. CASE Leave(k)
      BY <3>6 DEF Leave, At, Lifecycle!Hear
    <3> QED
      BY <2>3, <3>1, <3>2, <3>3, <3>4, <3>5, <3>6 DEF Connection, HandleDatagram, HandleControl
  <2>4. ASSUME NEW t \in Sessions, SweepLoop(t)
        PROVE Lifecycle(s)!LNext \/ UNCHANGED Lifecycle(s)!lvars
    <3> USE DEF IInv, TypeOK, CallsInOrder, Heard
    <3>1. CASE ShouldFinalize(t)
      BY <3>1 DEF ShouldFinalize
    <3>2. CASE FinalizeOnce(t)
      BY <3>2 DEF FinalizeOnce, Lifecycle!Consolidate
    <3>3. CASE LoopReturns(t)
      BY <3>3 DEF LoopReturns, Lifecycle!LoopReturns
    <3> QED
      BY <2>4, <3>1, <3>2, <3>3 DEF SweepLoop
  <2>5. CASE EvictLoop
    BY <2>5 DEF EvictLoop, EvictTick, LockForEvict, ReadState, Judge, UnlockEvict, Heard
  <2>6. CASE TimePasses \/ UNCHANGED vars
    BY <2>6 DEF TimePasses, vars, Heard
  <2> QED
    BY <2>1, <2>2, <2>3, <2>4, <2>5, <2>6 DEF Next, CreateProceeds
<1> QED
  BY <1>1, <1>2, Invariance, PTL DEF Spec, LifecyclesImplemented
=============================================================================
