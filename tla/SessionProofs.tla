--------------------------- MODULE SessionProofs ---------------------------
(***************************************************************************)
(* What holds of a session for every set of read loops, HTTP handlers,      *)
(* frames and timeouts: it uses its reassembler only through its methods,   *)
(* so that what is proved of the reassembler holds of it, and what its      *)
(* state says is backed by the reassembler and by the report.               *)
(***************************************************************************)
EXTENDS Session, ReassemblerProofs

Goroutines == Callers \union {Loop}
Writing    == {"snapshot", "marshal", "truncate", "fill"}
Pcs        == {"free", "control", "attach", "markDone", "composite", "fuse", "over"} \union Writing
Threads    == [pc : Pcs, stats : Stats \union {NoStats}, composite : SUBSET FrameIDs]

USE DEF history

-----------------------------------------------------------------------------
(* A session's step is a step of its reassembler                            *)

LEMMA LoopsAndPosters ==
  /\ ReadLoops \subseteq Callers /\ Posters \subseteq Callers
  /\ Loop \notin Callers /\ Loop \in Goroutines
  BY SessionAssumption DEF Goroutines

\* Whatever a session does, its reassembler takes a step of its own or none.
LEMMA SessionStep == [SNext]_allVars => [Next]_vars
<1>. SUFFICES ASSUME [SNext]_allVars  PROVE [Next]_vars
  OBVIOUS
<1>1. CASE TimePasses
  BY <1>1 DEF TimePasses, Next
<1>2. CASE Requests
  <2>1. ASSUME NEW c \in ReadLoops, NEW h \in Headers, HandleDatagram(c, h)
        PROVE  [Next]_vars
    BY <2>1, LoopsAndPosters DEF HandleDatagram, Next, CallBegins
  <2>2. ASSUME NEW c \in ReadLoops, NEW n \in Claims, HandleControl(c, n)
        PROVE  [Next]_vars
    BY <2>2, LoopsAndPosters DEF HandleControl, Next, CallBegins
  <2>3. ASSUME NEW c \in ReadLoops, RejectDatagram(c) \/ TransportCloses(c)
        PROVE  [Next]_vars
    BY <2>3, LoopsAndPosters DEF RejectDatagram, TransportCloses, Next, CallBegins
  <2>4. ASSUME NEW c \in Posters, NEW s \in Stats, NEW n \in Claims, PostClientStats(c, s, n)
        PROVE  [Next]_vars
    BY <2>4, LoopsAndPosters DEF PostClientStats, Next, CallBegins
  <2>. QED  BY <1>2, <2>1, <2>2, <2>3, <2>4 DEF Requests
<1>3. ASSUME NEW w, Persist(w)  PROVE [Next]_vars
  BY <1>3 DEF Persist, PersistReport, MarshalReport, TruncateFile, OpenFails, FillFile, WriteFails, Written
<1>4. ASSUME NEW c \in Callers, ThreadProceeds(c)  PROVE [Next]_vars
  <2>1. CASE ReassemblerProceeds(c)
    BY <2>1 DEF ReassemblerProceeds, Next, CallProceeds
  <2>2. ASSUME NEW failed \in BOOLEAN, OnFrameComplete(c, failed)  PROVE [Next]_vars
    BY <2>2 DEF OnFrameComplete, Next, CallProceeds
  <2>3. CASE MarkEnding(c) \/ AttachStats(c)
    BY <2>3 DEF MarkEnding, MarkEndingStep, AttachStats
  <2>. QED  BY <1>3, <1>4, <2>1, <2>2, <2>3 DEF ThreadProceeds
<1>5. CASE SessionLoop
  BY <1>3, <1>5 DEF SessionLoop, SweepLoopProceeds, FinalizeOnce, MarkDone, LoadDecodedFrames,
     MakeComposite, Next, SweepLoop
<1>6. CASE UNCHANGED allVars
  BY <1>6 DEF allVars
<1>. QED  BY <1>1, <1>2, <1>4, <1>5, <1>6 DEF SNext

\* What is proved of every behaviour of a reassembler holds of a session's.
THEOREM SessionUsesReassembler == SSpec => Spec
  BY SessionStep, PTL DEF SSpec, SInit, Spec

-----------------------------------------------------------------------------
(* The inductive invariant                                                  *)

Files == [kind : {"missing", "empty", "written", "garbled"},
          stats : Stats \union {NoStats}, composite : SUBSET FrameIDs]

SessionType ==
  /\ state \in States /\ clientStats \in Stats \union {NoStats}
  /\ {reported, statsInTime, statsLate, writeFailed} \subseteq BOOLEAN
  /\ saved \in SUBSET FrameIDs /\ composite \in SUBSET FrameIDs
  /\ unposted \in SUBSET Stats
  /\ file \in Files
  /\ thread \in [Goroutines -> Threads]

\* The composite holds saved frames, and whoever names its frames, the file
\* included, learnt of them after it was set, which happens once.
CompositeKnown ==
  /\ composite \subseteq saved
  /\ file.composite \subseteq composite
  /\ \A w \in Goroutines :
       thread[w].pc \in {"truncate", "fill"} => thread[w].composite \subseteq composite
  /\ thread[Loop].pc = "fuse" => thread[Loop].composite \subseteq saved
  /\ thread[Loop].pc \in {"free", "markDone", "composite", "fuse"} => composite = {}

\* A caller between MarkEnd and MarkEnding has its END recorded or is about to
\* record it; only a finalized session is marked done; only a done one writes;
\* the sweep loop is in finalizeOnce after its last sweep.
Positions ==
  /\ \A c \in Callers : thread[c].pc = "control" => call[c].op = "markEnd" \/ endMarked
  /\ \A c \in Callers : thread[c].pc \in Writing => state = "done"
  /\ thread[Loop].pc = "markDone" => finalized
  /\ thread[Loop].pc \in {"composite", "fuse", "over"} \union Writing => state = "done"
  /\ sweeper.pc # "stopped" => thread[Loop].pc = "free"

StateBacked == DoneHasReport /\ EndingHasEnd /\ FileOnlyWhenDone /\ Positions

SessionInv == SessionType /\ CompositeKnown /\ StateBacked

-----------------------------------------------------------------------------
(* Positions of goroutines                                                  *)

\* A position is a record of its program counter and what the method carries.
LEMMA ThreadRecord ==
  ASSUME NEW pc \in Pcs, NEW s \in Stats \union {NoStats}, NEW S \in SUBSET FrameIDs
  PROVE  /\ Free \in Threads /\ Free.pc = "free"
         /\ At(pc) \in Threads /\ At(pc).pc = pc
         /\ [At(pc) EXCEPT !.stats = s] \in Threads
         /\ [At(pc) EXCEPT !.stats = s].pc = pc
         /\ [At(pc) EXCEPT !.composite = S] \in Threads
         /\ [At(pc) EXCEPT !.composite = S].pc = pc
         /\ [At(pc) EXCEPT !.composite = S].composite = S
  BY DEF Free, At, Threads, Pcs, Writing

\* A goroutine that moves on leaves the others where they are.
LEMMA GotoMoves ==
  ASSUME thread \in [Goroutines -> Threads], NEW w \in Goroutines, NEW t \in Threads, Goto(w, t)
  PROVE  /\ thread' \in [Goroutines -> Threads]
         /\ thread'[w] = t
         /\ \A v \in Goroutines : v # w => thread'[v] = thread[v]
  BY DEF Goto

\* What a session heard it does not forget.
LEMMA NothingForgotten ==
  ASSUME [Next]_vars
  PROVE  /\ endMarked => endMarked'
         /\ finalized => finalized'
         /\ sweeper.pc = "stopped" => sweeper'.pc = "stopped"
<1>1. ASSUME NEW c \in Callers, CallBegins(c)
      PROVE  UNCHANGED <<endMarked, finalized, sweeper>>
  BY <1>1 DEF CallBegins, Enter, IngestCall, MarkEndCall, ClosedCall, NoteWrongSession,
     NoteProtocolError, NoteRejected, endVars, finalVars
<1>2. ASSUME NEW c \in Callers, CallProceeds(c)
      PROVE  (endMarked => endMarked') /\ UNCHANGED <<finalized, sweeper>>
  BY <1>2 DEF CallProceeds, Ingest, IngestAfterFinalize, IngestLate, IngestMismatch,
     IngestDuplicate, IngestPart, IngestLastPart, SinkReturns, MarkEnd, NoteTransportClosed,
     endVars, finalVars
<1>3. CASE SweepLoop
  BY <1>3 DEF SweepLoop, SweepTick, Sweep, CheckFinalize, Finalize, endVars, finalVars
<1>. QED  BY <1>1, <1>2, <1>3 DEF Next, Tick, vars, endVars, finalVars

LEMMA SessionInit == SInit => SessionInv
<1>. SUFFICES ASSUME SInit  PROVE SessionInv
  OBVIOUS
<1>1. Free \in Threads /\ Free.pc = "free"
  BY DEF Free, Threads, Pcs
<1>2. thread \in [Goroutines -> Threads] /\ \A w \in Goroutines : thread[w].pc = "free"
  BY <1>1 DEF SInit, Goroutines
<1>3. SessionType
  BY <1>2 DEF SInit, SessionType, States, NoFile, Files
<1>4. CompositeKnown
  BY <1>2 DEF SInit, CompositeKnown, NoFile
<1>5. StateBacked
  BY <1>2 DEF SInit, StateBacked, DoneHasReport, EndingHasEnd, FileOnlyWhenDone, Positions,
     NoFile, Writing, Goroutines
<1>. QED  BY <1>3, <1>4, <1>5 DEF SessionInv

\* A caller in MarkEnd stays there until the END is recorded.
LEMMA ControlSettles ==
  ASSUME TypeOK, [Next]_vars, NEW c \in Callers, call[c].op = "markEnd" \/ endMarked
  PROVE  call'[c].op = "markEnd" \/ endMarked'
<1>1. CASE endMarked
  BY <1>1, NothingForgotten
<1>2. CASE call[c].op = "markEnd" /\ call'[c] = call[c]
  BY <1>2
<1>3. CASE call[c].op = "markEnd" /\ call'[c] # call[c]
  <2>1. DOMAIN call = Callers
    BY DEF TypeOK
  <2>2. call[c] # Idle
    BY <1>3 DEF Idle
  <2>3. ASSUME NEW d \in Callers, CallBegins(d)  PROVE FALSE
    BY <1>3, <2>1, <2>2, <2>3 DEF CallBegins, IngestCall, MarkEndCall, ClosedCall, Enter, CanCall,
       NoteWrongSession, NoteProtocolError, NoteRejected
  <2>4. ASSUME NEW d \in Callers, CallProceeds(d)  PROVE MarkEnd(c)
    <3>1. d = c
      BY <1>3, <2>1, <2>4 DEF CallProceeds, Ingest, IngestAfterFinalize, IngestLate, IngestMismatch,
         IngestDuplicate, IngestPart, IngestLastPart, SinkReturns, MarkEnd, NoteTransportClosed, Return
    <3>. QED
      BY <1>3, <2>4, <3>1 DEF CallProceeds, Ingest, IngestAfterFinalize, IngestLate, IngestMismatch,
         IngestDuplicate, IngestPart, IngestLastPart, Arrived, SinkReturns, NoteTransportClosed
  <2>5. MarkEnd(c)
    BY <1>3, <2>3, <2>4 DEF Next, Tick, SweepLoop, SweepTick, Sweep, CheckFinalize, Finalize, vars
  <2>. QED  BY <2>5 DEF MarkEnd
<1>. QED  BY <1>1, <1>2, <1>3

\* What every step of the reassembler leaves true, as long as no goroutine moves
\* and the state is not moved to one that has to be backed.
LEMMA StayStep ==
  ASSUME TypeOK, SessionInv, [Next]_vars,
         thread' = thread, file' = file, reported' = reported,
         state' \in States, state' = "done" <=> state = "done", state' = "ending" => state = "ending"
  PROVE  StateBacked'
<1>1. /\ endMarked => endMarked'
      /\ finalized => finalized'
      /\ sweeper.pc = "stopped" => sweeper'.pc = "stopped"
  BY NothingForgotten
<1>2. DoneHasReport' /\ EndingHasEnd' /\ FileOnlyWhenDone'
  BY <1>1 DEF SessionInv, StateBacked, DoneHasReport, EndingHasEnd, FileOnlyWhenDone
<1>3. \A c \in Callers : thread[c].pc = "control" => call'[c].op = "markEnd" \/ endMarked'
  BY ControlSettles DEF SessionInv, StateBacked, Positions
<1>4. Positions'
  BY <1>1, <1>3 DEF SessionInv, StateBacked, Positions
<1>. QED  BY <1>2, <1>4 DEF StateBacked

\* The same when one goroutine moves to t, which must be a position it may be in.
LEMMA MoveStep ==
  ASSUME TypeOK, SessionInv, [Next]_vars,
         NEW w \in Goroutines, NEW t \in Threads, Goto(w, t),
         state' = state, reported' = reported, file' = file,
         w \in Callers /\ t.pc = "control" => call'[w].op = "markEnd" \/ endMarked',
         t.pc \in {"composite", "fuse", "over"} \union Writing => state = "done",
         t.pc = "markDone" => finalized',
         w = Loop => sweeper'.pc = "stopped"
  PROVE  StateBacked'
<1>1. /\ endMarked => endMarked'
      /\ finalized => finalized'
      /\ sweeper.pc = "stopped" => sweeper'.pc = "stopped"
  BY NothingForgotten
<1>2. DoneHasReport' /\ EndingHasEnd' /\ FileOnlyWhenDone'
  BY <1>1 DEF SessionInv, StateBacked, DoneHasReport, EndingHasEnd, FileOnlyWhenDone
<1>3. /\ thread'[w] = t
      /\ \A v \in Goroutines : v # w => thread'[v] = thread[v]
  BY GotoMoves DEF SessionInv, SessionType
<1>4. \A c \in Callers : thread'[c].pc = "control" => call'[c].op = "markEnd" \/ endMarked'
  BY <1>3, ControlSettles DEF SessionInv, StateBacked, Positions, Goroutines
<1>5. Positions'
  BY <1>1, <1>3, <1>4 DEF SessionInv, StateBacked, Positions, Goroutines
<1>. QED  BY <1>2, <1>5 DEF StateBacked

-----------------------------------------------------------------------------
(* One lemma for each group of operations                                   *)

LEMMA RequestStep ==
  ASSUME TypeOK, SessionInv, [Next]_vars, Requests
  PROVE  SessionInv'
<1>1. ASSUME NEW c \in ReadLoops, NEW h \in Headers, HandleDatagram(c, h)
      PROVE  SessionInv'
  <2>1. /\ thread' = thread /\ file' = file /\ reported' = reported
        /\ state' \in States /\ (state' = "done" <=> state = "done")
        /\ (state' = "ending" => state = "ending")
    BY <1>1 DEF HandleDatagram, SessionInv, SessionType, States
  <2>2. SessionType' /\ CompositeKnown'
    BY <1>1, <2>1 DEF HandleDatagram, SessionInv, SessionType, CompositeKnown
  <2>. QED  BY <2>1, <2>2, StayStep DEF SessionInv
<1>2. ASSUME NEW c \in ReadLoops, RejectDatagram(c) \/ TransportCloses(c)
      PROVE  SessionInv'
  <2>1. UNCHANGED sessionVars
    BY <1>2 DEF RejectDatagram, TransportCloses
  <2>2. SessionType' /\ CompositeKnown'
    BY <2>1 DEF sessionVars, SessionInv, SessionType, CompositeKnown
  <2>3. StateBacked'
    BY <2>1, StayStep DEF sessionVars, SessionInv, SessionType
  <2>. QED  BY <2>2, <2>3 DEF SessionInv
<1>3. ASSUME NEW c \in ReadLoops, NEW n \in Claims, HandleControl(c, n)
      PROVE  SessionInv'
  <2>1. c \in Callers /\ c \in Goroutines /\ c # Loop
    BY LoopsAndPosters DEF Goroutines
  <2>2. At("control") \in Threads /\ At("control").pc = "control" /\ Goto(c, At("control"))
    BY <1>3, ThreadRecord DEF HandleControl, Pcs
  <2>3. call'[c].op = "markEnd"
    BY <1>3, <2>1 DEF HandleControl, MarkEndCall, Enter, TypeOK
  <2>4. StateBacked'
    BY <1>3, <2>1, <2>2, <2>3, MoveStep DEF HandleControl, Writing
  <2>5. SessionType' /\ CompositeKnown'
    BY <1>3, <2>1, <2>2, GotoMoves, LoopsAndPosters DEF HandleControl, SessionInv, SessionType, CompositeKnown
  <2>. QED  BY <2>4, <2>5 DEF SessionInv
<1>4. ASSUME NEW c \in Posters, NEW s \in Stats, NEW n \in Claims, PostClientStats(c, s, n)
      PROVE  SessionInv'
  <2>1. c \in Callers /\ c \in Goroutines /\ c # Loop
    BY LoopsAndPosters DEF Goroutines
  <2>2. PICK t \in Threads : t.pc = "attach" /\ Goto(c, t)
    BY <1>4, ThreadRecord DEF PostClientStats, Pcs
  <2>3. StateBacked'
    BY <1>4, <2>1, <2>2, MoveStep DEF PostClientStats, Writing
  <2>4. SessionType' /\ CompositeKnown'
    BY <1>4, <2>1, <2>2, GotoMoves, LoopsAndPosters DEF PostClientStats, SessionInv, SessionType, CompositeKnown
  <2>. QED  BY <2>3, <2>4 DEF SessionInv
<1>. QED  BY <1>1, <1>2, <1>3, <1>4 DEF Requests

\* persistReport, by the sweep loop or by an HTTP handler of a done session.
LEMMA PersistStep ==
  ASSUME TypeOK, SessionInv, [Next]_vars, NEW w \in Goroutines, Persist(w)
  PROVE  SessionInv'
<1>1. /\ thread[w].pc \in Writing /\ state = "done" /\ reported
      /\ w = Loop => sweeper'.pc = "stopped"
  BY NothingForgotten DEF Persist, PersistReport, MarshalReport, TruncateFile, OpenFails, FillFile, WriteFails, Written, Writing, Goroutines,
     SessionInv, StateBacked, Positions, DoneHasReport
<1>2. thread[w] \in Threads
  BY DEF SessionInv, SessionType
<1>3. CASE PersistReport(w)
  <2>1. PICK t \in Threads : t.pc = "marshal" /\ Goto(w, t)
    BY <1>3, ThreadRecord DEF PersistReport, Pcs, Writing, SessionInv, SessionType
  <2>2. StateBacked'
    BY <1>1, <1>3, <2>1, MoveStep DEF PersistReport
  <2>3. SessionType' /\ CompositeKnown'
    BY <1>3, <2>1, GotoMoves, LoopsAndPosters DEF PersistReport, SessionInv, SessionType, CompositeKnown
  <2>. QED  BY <2>2, <2>3 DEF SessionInv
<1>4. CASE MarshalReport(w)
  <2>1. PICK t \in Threads : t.pc = "truncate" /\ t.composite = composite /\ Goto(w, t)
    BY <1>2, <1>4 DEF MarshalReport, Threads, Pcs, Writing, SessionInv, SessionType
  <2>2. StateBacked'
    BY <1>1, <1>4, <2>1, MoveStep DEF MarshalReport
  <2>3. SessionType' /\ CompositeKnown'
    BY <1>4, <2>1, GotoMoves, LoopsAndPosters DEF MarshalReport, SessionInv, SessionType, CompositeKnown
  <2>. QED  BY <2>2, <2>3 DEF SessionInv
<1>5. CASE TruncateFile(w)
  <2>1. PICK t \in Threads : t.pc = "fill" /\ t.composite = thread[w].composite /\ Goto(w, t)
    BY <1>2, <1>5 DEF TruncateFile, Threads, Pcs, Writing
  <2>2. thread[w].pc = "truncate" /\ file' \in Files /\ file'.composite = {}
    BY <1>5 DEF TruncateFile, NoFile, Files
  <2>3. /\ thread' \in [Goroutines -> Threads] /\ thread'[w] = t
        /\ \A v \in Goroutines : v # w => thread'[v] = thread[v]
    BY <2>1, GotoMoves DEF SessionInv, SessionType
  <2>4. SessionType' /\ CompositeKnown'
    BY <1>5, <2>1, <2>2, <2>3, LoopsAndPosters DEF TruncateFile, SessionInv, SessionType, CompositeKnown
  <2>5. StateBacked'
    BY <1>1, <1>5, <2>1, <2>3, ControlSettles, NothingForgotten DEF TruncateFile, SessionInv,
       StateBacked, DoneHasReport, EndingHasEnd, FileOnlyWhenDone, Positions, Writing, Goroutines
  <2>. QED  BY <2>4, <2>5 DEF SessionInv
<1>6. CASE FillFile(w) \/ WriteFails(w) \/ OpenFails(w)
  <2>1. PICK t \in Threads, failed \in BOOLEAN :
          /\ t.pc \in {"over", "free"} /\ Goto(w, t) /\ (w = Loop => t.pc = "over")
          /\ Written(w, failed)
    BY <1>6, ThreadRecord DEF FillFile, WriteFails, OpenFails, Written, Pcs
  <2>2. /\ thread[w].pc \in {"truncate", "fill"} /\ file' \in Files
        /\ file'.composite \in {file.composite, thread[w].composite}
        /\ file'.kind = "missing" => file.kind = "missing"
    <3>1. file \in Files
      BY DEF SessionInv, SessionType
    <3>2. \A kind \in {"written", "garbled"} :
            /\ Document(w, kind) \in Files /\ Document(w, kind).kind = kind
            /\ Document(w, kind).composite = thread[w].composite
      BY <1>2 DEF Document, Files, Threads
    <3>3. CASE OpenFails(w)
      BY <3>1, <3>3 DEF OpenFails
    <3>4. CASE FillFile(w)
      BY <3>2, <3>4 DEF FillFile, Overwritten
    <3>5. CASE WriteFails(w)
      BY <3>1, <3>2, <3>5 DEF WriteFails
    <3>. QED  BY <1>6, <3>3, <3>4, <3>5
  <2>3. /\ thread' \in [Goroutines -> Threads] /\ thread'[w] = t
        /\ \A v \in Goroutines : v # w => thread'[v] = thread[v]
    BY <2>1, GotoMoves DEF SessionInv, SessionType
  <2>4. SessionType'
    BY <2>1, <2>2, <2>3 DEF Written, SessionInv, SessionType
  <2>5. CompositeKnown'
    BY <2>1, <2>2, <2>3, LoopsAndPosters DEF Written, SessionInv, CompositeKnown
  <2>6. StateBacked'
    BY <1>1, <2>1, <2>3, ControlSettles, NothingForgotten DEF Written, SessionInv,
       StateBacked, DoneHasReport, EndingHasEnd, FileOnlyWhenDone, Positions, Writing, Goroutines
  <2>. QED  BY <2>4, <2>5, <2>6 DEF SessionInv
<1>. QED  BY <1>3, <1>4, <1>5, <1>6 DEF Persist

LEMMA CallerStep ==
  ASSUME TypeOK, SessionInv, [Next]_vars, NEW c \in Callers, ThreadProceeds(c)
  PROVE  SessionInv'
<1>1. c \in Goroutines /\ c # Loop
  BY LoopsAndPosters DEF Goroutines
<1>2. CASE ReassemblerProceeds(c)
  <2>1. UNCHANGED sessionVars
    BY <1>2 DEF ReassemblerProceeds
  <2>2. SessionType' /\ CompositeKnown'
    BY <2>1 DEF sessionVars, SessionInv, SessionType, CompositeKnown
  <2>3. StateBacked'
    BY <2>1, StayStep DEF sessionVars, SessionInv, SessionType
  <2>. QED  BY <2>2, <2>3 DEF SessionInv
<1>3. ASSUME NEW failed \in BOOLEAN, OnFrameComplete(c, failed)  PROVE SessionInv'
  <2>1. call[c].frame.frameID \in FrameIDs
    BY <1>3, CallFields DEF OnFrameComplete, SinkReturns, CompleteFrames, TypeOK
  <2>2. saved \subseteq saved' /\ saved' \in SUBSET FrameIDs
    BY <1>3, <2>1 DEF OnFrameComplete, SessionInv, SessionType
  <2>3. SessionType' /\ CompositeKnown'
    BY <1>3, <2>2 DEF OnFrameComplete, SessionInv, SessionType, CompositeKnown
  <2>4. StateBacked'
    BY <1>3, StayStep DEF OnFrameComplete, SessionInv, SessionType
  <2>. QED  BY <2>3, <2>4 DEF SessionInv
<1>4. CASE MarkEnding(c)
  <2>1. Free \in Threads /\ Free.pc = "free" /\ Goto(c, Free)
    BY <1>4 DEF MarkEnding, MarkEndingStep, Free, Threads, Pcs
  <2>2. /\ thread' \in [Goroutines -> Threads] /\ thread'[c] = Free
        /\ \A v \in Goroutines : v # c => thread'[v] = thread[v]
    BY <1>1, <2>1, GotoMoves DEF SessionInv, SessionType
  <2>3. state' \in States /\ (state = "done" <=> state' = "done")
    BY <1>4 DEF MarkEnding, MarkEndingStep, SessionInv, SessionType, States
  <2>4. endMarked
    BY <1>4 DEF MarkEnding, MarkEndingStep, Idle, SessionInv, StateBacked, Positions
  <2>5. call' = call /\ endMarked' = endMarked /\ finalized' = finalized
        /\ reported' = reported /\ file' = file /\ sweeper' = sweeper
    BY <1>4 DEF MarkEnding, MarkEndingStep, vars, endVars, finalVars
  <2>6. SessionType' /\ CompositeKnown'
    BY <1>1, <1>4, <2>1, <2>2, <2>3, LoopsAndPosters DEF MarkEnding, MarkEndingStep, SessionInv,
       SessionType, CompositeKnown
  <2>7. StateBacked'
    BY <1>1, <2>1, <2>2, <2>3, <2>4, <2>5, LoopsAndPosters DEF SessionInv, StateBacked,
       DoneHasReport, EndingHasEnd, FileOnlyWhenDone, Positions, Writing, Goroutines
  <2>. QED  BY <2>6, <2>7 DEF SessionInv
<1>5. CASE AttachStats(c)
  <2>1. PICK t \in Threads : /\ Goto(c, t) /\ t.pc \in {"snapshot", "free"}
                             /\ t.pc = "snapshot" => state = "done"
    BY <1>5, ThreadRecord DEF AttachStats, Pcs, Writing
  <2>2. StateBacked'
    BY <1>1, <1>5, <2>1, MoveStep DEF AttachStats, Writing
  <2>3. clientStats' \in Stats \union {NoStats}
    BY <1>1, <1>5 DEF AttachStats, SessionInv, SessionType, Threads
  <2>4. {statsInTime', statsLate'} \subseteq BOOLEAN
    BY <1>5 DEF AttachStats, SessionInv, SessionType
  <2>5. SessionType' /\ CompositeKnown'
    BY <1>1, <1>5, <2>1, <2>3, <2>4, GotoMoves, LoopsAndPosters DEF AttachStats, SessionInv,
       SessionType, CompositeKnown
  <2>. QED  BY <2>2, <2>5 DEF SessionInv
<1>. QED  BY <1>1, <1>2, <1>3, <1>4, <1>5, PersistStep DEF ThreadProceeds

LEMMA LoopStep ==
  ASSUME TypeOK, SessionInv, [Next]_vars, SessionLoop
  PROVE  SessionInv'
<1>1. Loop \in Goroutines /\ Loop \notin Callers
  BY LoopsAndPosters
<1>2. CASE SweepLoopProceeds
  <2>1. UNCHANGED sessionVars
    BY <1>2 DEF SweepLoopProceeds
  <2>2. SessionType' /\ CompositeKnown'
    BY <2>1 DEF sessionVars, SessionInv, SessionType, CompositeKnown
  <2>3. StateBacked'
    BY <2>1, StayStep DEF sessionVars, SessionInv, SessionType
  <2>. QED  BY <2>2, <2>3 DEF SessionInv
<1>3. CASE FinalizeOnce
  <2>1. At("markDone") \in Threads /\ At("markDone").pc = "markDone" /\ Goto(Loop, At("markDone"))
    BY <1>3, ThreadRecord DEF FinalizeOnce, Pcs
  <2>2. sweeper.pc = "finalize" /\ finalized' /\ sweeper'.pc = "stopped"
    BY <1>3 DEF FinalizeOnce, Finalize, TypeOK
  <2>3. composite = {}
    BY <2>2 DEF SessionInv, StateBacked, Positions, CompositeKnown
  <2>4. StateBacked'
    BY <1>1, <1>3, <2>1, <2>2, MoveStep DEF FinalizeOnce, Writing
  <2>5. SessionType' /\ CompositeKnown'
    BY <1>1, <1>3, <2>1, <2>3, GotoMoves DEF FinalizeOnce, SessionInv, SessionType, CompositeKnown
  <2>. QED  BY <2>4, <2>5 DEF SessionInv
<1>4. CASE MarkDone
  <2>1. PICK t \in Threads : t.pc \in {"composite", "snapshot"} /\ Goto(Loop, t)
    BY <1>4, ThreadRecord DEF MarkDone, Pcs, Writing
  <2>2. /\ thread' \in [Goroutines -> Threads] /\ thread'[Loop] = t
        /\ \A v \in Goroutines : v # Loop => thread'[v] = thread[v]
    BY <1>1, <2>1, GotoMoves DEF SessionInv, SessionType
  <2>3. /\ state' = "done" /\ reported' = TRUE /\ file' = file
        /\ call' = call /\ endMarked' = endMarked /\ finalized' = finalized /\ sweeper' = sweeper
    BY <1>4 DEF MarkDone, vars, endVars, finalVars
  <2>4. finalized /\ composite = {} /\ sweeper.pc = "stopped"
    BY <1>4 DEF MarkDone, SessionInv, StateBacked, Positions, CompositeKnown
  <2>5. SessionType' /\ CompositeKnown'
    BY <1>1, <1>4, <2>1, <2>2, <2>4 DEF MarkDone, SessionInv, SessionType, CompositeKnown, States
  <2>6. StateBacked'
    BY <1>1, <2>1, <2>2, <2>3, <2>4 DEF SessionInv, StateBacked, DoneHasReport, EndingHasEnd,
       FileOnlyWhenDone, Positions, Writing, Goroutines
  <2>. QED  BY <2>5, <2>6 DEF SessionInv
<1>5. CASE LoadDecodedFrames
  <2>1. PICK t \in Threads : t.pc = "fuse" /\ t.composite = saved /\ Goto(Loop, t)
    <3>1. "fuse" \in Pcs /\ saved \in SUBSET FrameIDs /\ NoStats \in Stats \union {NoStats}
      BY DEF Pcs, SessionInv, SessionType
    <3>2. LET loaded == [At("fuse") EXCEPT !.composite = saved]
          IN  loaded \in Threads /\ loaded.pc = "fuse" /\ loaded.composite = saved
      BY <3>1, ThreadRecord
    <3>. QED  BY <1>5, <3>2 DEF LoadDecodedFrames
  <2>2. state = "done" /\ composite = {} /\ sweeper'.pc = "stopped"
    BY <1>5, NothingForgotten DEF LoadDecodedFrames, SessionInv, StateBacked, Positions, CompositeKnown
  <2>3. StateBacked'
    BY <1>1, <1>5, <2>1, <2>2, MoveStep DEF LoadDecodedFrames
  <2>4. SessionType' /\ CompositeKnown'
    BY <1>1, <1>5, <2>1, <2>2, GotoMoves DEF LoadDecodedFrames, SessionInv, SessionType, CompositeKnown
  <2>. QED  BY <2>3, <2>4 DEF SessionInv
<1>6. CASE MakeComposite
  <2>1. At("snapshot") \in Threads /\ At("snapshot").pc = "snapshot" /\ Goto(Loop, At("snapshot"))
    BY <1>6, ThreadRecord DEF MakeComposite, Pcs, Writing
  <2>2. state = "done" /\ composite = {} /\ sweeper'.pc = "stopped"
    BY <1>6, NothingForgotten DEF MakeComposite, SessionInv, StateBacked, Positions, CompositeKnown
  <2>3. StateBacked'
    BY <1>1, <1>6, <2>1, <2>2, MoveStep DEF MakeComposite
  <2>4. composite' \subseteq saved /\ saved' = saved
    BY <1>6 DEF MakeComposite, SessionInv, CompositeKnown
  <2>5. SessionType' /\ CompositeKnown'
    BY <1>1, <1>6, <2>1, <2>2, <2>4, GotoMoves DEF MakeComposite, SessionInv, SessionType, CompositeKnown
  <2>. QED  BY <2>3, <2>5 DEF SessionInv
<1>. QED  BY <1>1, <1>2, <1>3, <1>4, <1>5, <1>6, PersistStep DEF SessionLoop

LEMMA SessionNext == TypeOK /\ SessionInv /\ [SNext]_allVars => SessionInv'
<1>. SUFFICES ASSUME TypeOK, SessionInv, [SNext]_allVars  PROVE SessionInv'
  OBVIOUS
<1>1. [Next]_vars
  BY SessionStep
<1>2. CASE TimePasses \/ UNCHANGED allVars
  <2>1. UNCHANGED sessionVars
    BY <1>2 DEF TimePasses, allVars
  <2>2. SessionType' /\ CompositeKnown'
    BY <2>1 DEF sessionVars, SessionInv, SessionType, CompositeKnown
  <2>3. StateBacked'
    BY <1>1, <2>1, StayStep DEF sessionVars, SessionInv, SessionType
  <2>. QED  BY <2>2, <2>3 DEF SessionInv
<1>. QED  BY <1>1, <1>2, RequestStep, CallerStep, LoopStep DEF SNext

\* Only four steps write the state, and none of them takes it back.
LEMMA StateMoves ==
  ASSUME [SNext]_allVars
  PROVE  \/ state' = state
         \/ state = "open" /\ state' = "capturing"
         \/ state \in {"open", "capturing"} /\ state' = "ending"
         \/ state' = "done"
<1>. DEFINE Forward == \/ state' = state
                       \/ state = "open" /\ state' = "capturing"
                       \/ state \in {"open", "capturing"} /\ state' = "ending"
                       \/ state' = "done"
<1>1. CASE TimePasses \/ UNCHANGED allVars
  BY <1>1 DEF TimePasses, allVars, sessionVars
<1>2. CASE Requests
  BY <1>2 DEF Requests, HandleDatagram, HandleControl, RejectDatagram, TransportCloses,
     PostClientStats, sessionVars
<1>3. ASSUME NEW w \in Goroutines, Persist(w)  PROVE Forward
  BY <1>3 DEF Persist, PersistReport, MarshalReport, TruncateFile, OpenFails, FillFile, WriteFails, Written
<1>4. ASSUME NEW c \in Callers, ThreadProceeds(c)  PROVE Forward
  BY <1>3, <1>4 DEF ThreadProceeds, ReassemblerProceeds, OnFrameComplete, MarkEnding,
     MarkEndingStep, AttachStats, sessionVars, Goroutines
<1>5. CASE SessionLoop
  BY <1>3, <1>5 DEF SessionLoop, SweepLoopProceeds, FinalizeOnce, MarkDone, LoadDecodedFrames,
     MakeComposite, sessionVars, Goroutines
<1>. QED  BY <1>1, <1>2, <1>4, <1>5 DEF SNext

-----------------------------------------------------------------------------
(* Theorems                                                                 *)

LEMMA SessionInvariant == SSpec => []SessionInv
<1>1. Spec => []TypeOK
  BY TypeCorrect
<1>. QED  BY <1>1, SessionUsesReassembler, SessionInit, SessionNext, PTL DEF SSpec

\* The state of the session, its store and its goroutines keep their types, and
\* the composite holds saved frames only.
THEOREM SessionTypeCorrect == SSpec => []STypeOK
<1>1. SessionInv => STypeOK
  BY DEF SessionInv, SessionType, CompositeKnown, STypeOK, Threads, Files, Pcs, Writing, Goroutines
<1>. QED  BY <1>1, SessionInvariant, PTL

\* A session that says it is done has the report its reassembler fixed.
THEOREM SessionDoneHasReport == SSpec => []DoneHasReport
<1>1. SessionInv => DoneHasReport
  BY DEF SessionInv, StateBacked
<1>. QED  BY <1>1, SessionInvariant, PTL

\* A session that says it is ending has an END that will consolidate it.
THEOREM SessionEndingHasEnd == SSpec => []EndingHasEnd
<1>1. SessionInv => EndingHasEnd
  BY DEF SessionInv, StateBacked
<1>. QED  BY <1>1, SessionInvariant, PTL

\* report.json is never seen of a session that is still running.
THEOREM SessionFileOnlyWhenDone == SSpec => []FileOnlyWhenDone
<1>1. SessionInv => FileOnlyWhenDone
  BY DEF SessionInv, StateBacked
<1>. QED  BY <1>1, SessionInvariant, PTL

\* The state a session reports never goes back, whatever MarkCapturing,
\* MarkEnding and finalizeOnce race with.
THEOREM SessionStateMonotonic == SSpec => StateMonotonic
<1>1. SessionInv /\ [SNext]_allVars => [Rank(state') >= Rank(state)]_allVars
  <2>. SUFFICES ASSUME SessionInv, [SNext]_allVars  PROVE Rank(state') >= Rank(state)
    OBVIOUS
  <2>1. state \in States
    BY DEF SessionInv, SessionType
  <2>. QED  BY <2>1, StateMoves DEF States, Rank
<1>. QED  BY <1>1, SessionInvariant, PTL DEF SSpec, StateMonotonic

\* In a session, too, each complete frame is given to the store exactly once.
THEOREM SessionHandsOverOnce == SSpec => []HandedOverOnce
  BY SessionUsesReassembler, FramesHandedOverOnce, PTL

-----------------------------------------------------------------------------
(* A session implements the life cycle                                      *)

\* The sweep loop finalizes only what it heard of, and marks the session done
\* once, after its last sweep.
Asked ==
  /\ sweeper.pc \in {"finalize", "stopped"} => Heard
  /\ thread[Loop].pc = "markDone" => state # "done"
  /\ state = "done" => sweeper.pc = "stopped"

\* A clock reading is none: time starts at zero.
LEMMA HeardStays ==
  ASSUME TypeOK, [Next]_vars, Heard
  PROVE  Heard'
<1>1. endMarked => endMarked'
  BY NothingForgotten
<1>2. \A c \in Callers : call[c].op \in {"ingest", "closed"} => call[c].at # Never
  BY CallFields, ReassemblerAssumption DEF TypeOK, Never
<1>3. closedAt # Never => closedAt' # Never
  BY <1>2 DEF Next, vars, frameVars, endVars, finalVars, Tick, CallBegins, CallProceeds, SweepLoop,
     Enter, IngestCall, MarkEndCall, ClosedCall, NoteWrongSession, NoteProtocolError, NoteRejected,
     Ingest, IngestAfterFinalize, IngestLate, IngestMismatch, IngestDuplicate, IngestPart,
     IngestLastPart, SinkReturns, MarkEnd, NoteTransportClosed, SweepTick, Sweep, CheckFinalize,
     Finalize
<1>4. lastChunkAt # Never => lastChunkAt' # Never
  BY <1>2 DEF Next, vars, frameVars, endVars, finalVars, Tick, CallBegins, CallProceeds, SweepLoop,
     Enter, IngestCall, MarkEndCall, ClosedCall, NoteWrongSession, NoteProtocolError, NoteRejected,
     Ingest, IngestAfterFinalize, IngestLate, IngestMismatch, IngestDuplicate, IngestPart,
     IngestLastPart, Arrived, SinkReturns, MarkEnd, NoteTransportClosed, SweepTick, Sweep, CheckFinalize,
     Finalize
<1>. QED  BY <1>1, <1>3, <1>4 DEF Heard

\* The sweep loop leaves its rounds only through ShouldFinalize.
LEMMA SweeperAsks ==
  ASSUME TypeOK, [Next]_vars, sweeper.pc \in {"finalize", "stopped"} => Heard
  PROVE  sweeper'.pc \in {"finalize", "stopped"} => Heard'
<1>1. CASE sweeper'.pc = sweeper.pc
  BY <1>1, HeardStays
<1>2. CASE CheckFinalize
  BY <1>2, HeardStays DEF CheckFinalize, ShouldFinalize, Heard, Waiting, Sweepers, TypeOK
<1>3. CASE Finalize
  BY <1>3, HeardStays DEF Finalize
<1>4. CASE SweepTick \/ Sweep
  BY <1>4 DEF SweepTick, Sweep, Waiting, Sweepers, TypeOK
<1>5. CASE ~SweepLoop
  BY <1>1, <1>5 DEF Next, vars, frameVars, endVars, finalVars, Tick, CallBegins, CallProceeds,
     Enter, IngestCall, MarkEndCall, ClosedCall, NoteWrongSession, NoteProtocolError, NoteRejected,
     Ingest, IngestAfterFinalize, IngestLate, IngestMismatch, IngestDuplicate, IngestPart,
     IngestLastPart, SinkReturns, MarkEnd, NoteTransportClosed
<1>. QED  BY <1>2, <1>3, <1>4, <1>5 DEF SweepLoop

LEMMA AskedInit == SInit => Asked
  BY DEF SInit, Init, Waiting, Asked, Free

\* The ways a step can go about the state and the position of the sweep loop.
LoopStays == thread'[Loop] = thread[Loop]

Chunk ==
  LoopStays /\ state = "open" /\ state' = "capturing" /\ Heard' = Heard /\ sweeper' = sweeper
End ==
  /\ LoopStays /\ state \in {"open", "capturing"} /\ state' = "ending"
  /\ endMarked /\ UNCHANGED vars
Starts ==
  /\ sweeper.pc = "finalize" /\ sweeper'.pc = "stopped"
  /\ thread[Loop].pc = "free" /\ thread'[Loop].pc = "markDone" /\ state' = state
Marks ==
  /\ thread[Loop].pc = "markDone" /\ thread'[Loop].pc \in {"composite", "snapshot"}
  /\ state' = "done" /\ UNCHANGED vars
Writes ==
  /\ thread[Loop].pc \in {"composite", "fuse"} \union Writing
  /\ thread'[Loop].pc \in {"fuse"} \union Writing
  /\ state' = state /\ UNCHANGED vars
Ends ==
  /\ thread[Loop].pc \in {"truncate", "fill"} /\ thread'[Loop].pc = "over"
  /\ state' = state /\ UNCHANGED vars

LEMMA LoopMoves ==
  ASSUME TypeOK, SessionInv, [SNext]_allVars
  PROVE  (LoopStays /\ state' = state) \/ Chunk \/ End \/ Starts \/ Marks \/ Writes \/ Ends
<1>. DEFINE Moves == (LoopStays /\ state' = state) \/ Chunk \/ End \/ Starts \/ Marks \/ Writes \/ Ends
<1>1. Loop \in Goroutines /\ Loop \notin Callers /\ thread \in [Goroutines -> Threads]
  BY LoopsAndPosters DEF SessionInv, SessionType
<1>2. ASSUME NEW c \in Callers, NEW t, Goto(c, t)  PROVE LoopStays
  BY <1>1, <1>2 DEF Goto, LoopStays
<1>3. CASE TimePasses \/ UNCHANGED allVars
  BY <1>3 DEF TimePasses, allVars, sessionVars, LoopStays
<1>4. CASE Requests
  <2>1. ASSUME NEW c \in ReadLoops, NEW h \in Headers, HandleDatagram(c, h)  PROVE Moves
    BY <2>1 DEF HandleDatagram, IngestCall, Enter, frameVars, endVars, Heard, LoopStays, Chunk
  <2>2. ASSUME NEW c \in ReadLoops, NEW n \in Claims, HandleControl(c, n)  PROVE Moves
    BY <1>2, <2>2, LoopsAndPosters DEF HandleControl
  <2>3. ASSUME NEW c \in ReadLoops, RejectDatagram(c) \/ TransportCloses(c)  PROVE Moves
    BY <2>3 DEF RejectDatagram, TransportCloses, sessionVars, LoopStays
  <2>4. ASSUME NEW c \in Posters, NEW s \in Stats, NEW n \in Claims, PostClientStats(c, s, n)
        PROVE  Moves
    BY <1>2, <2>4, LoopsAndPosters DEF PostClientStats
  <2>. QED  BY <1>4, <2>1, <2>2, <2>3, <2>4 DEF Requests
<1>5. ASSUME NEW c \in Callers, ThreadProceeds(c)  PROVE Moves
  <2>1. CASE ReassemblerProceeds(c) \/ \E failed \in BOOLEAN : OnFrameComplete(c, failed)
    BY <2>1 DEF ReassemblerProceeds, OnFrameComplete, sessionVars, LoopStays
  <2>2. CASE MarkEnding(c)
    <3>1. endMarked
      BY <2>2 DEF MarkEnding, MarkEndingStep, Idle, SessionInv, StateBacked, Positions
    <3>. QED  BY <1>2, <2>2, <3>1 DEF MarkEnding, MarkEndingStep, End
  <2>3. CASE AttachStats(c)
    BY <1>2, <2>3 DEF AttachStats
  <2>4. CASE Persist(c)
    BY <1>2, <2>4 DEF Persist, PersistReport, MarshalReport, TruncateFile, OpenFails, FillFile, WriteFails, Written
  <2>. QED  BY <1>5, <2>1, <2>2, <2>3, <2>4 DEF ThreadProceeds
<1>6. CASE SessionLoop
  <2>1. thread[Loop] \in Threads
    BY <1>1
  <2>2. ASSUME NEW t, Goto(Loop, t)  PROVE thread'[Loop] = t
    BY <1>1, <2>2 DEF Goto
  <2>3. CASE SweepLoopProceeds
    BY <2>3 DEF SweepLoopProceeds, sessionVars, LoopStays
  <2>4. CASE FinalizeOnce
    BY <2>2, <2>4 DEF FinalizeOnce, Finalize, At, Free, TypeOK, Starts, SessionInv, StateBacked, Positions
  <2>5. CASE MarkDone
    BY <2>2, <2>5 DEF MarkDone, At, Free, Marks
  <2>6. CASE LoadDecodedFrames \/ MakeComposite
    BY <2>2, <2>6 DEF LoadDecodedFrames, MakeComposite, At, Free, Writes, Writing
  <2>7. CASE PersistReport(Loop) \/ MarshalReport(Loop) \/ TruncateFile(Loop)
    BY <2>1, <2>2, <2>7 DEF PersistReport, MarshalReport, TruncateFile, At, Free, Threads, Writes, Writing
  <2>8. CASE FillFile(Loop) \/ WriteFails(Loop) \/ OpenFails(Loop)
    BY <2>2, <2>8 DEF FillFile, WriteFails, OpenFails, Written, At, Free, Ends
  <2>. QED  BY <1>6, <2>3, <2>4, <2>5, <2>6, <2>7, <2>8 DEF SessionLoop, Persist
<1>. QED  BY <1>3, <1>4, <1>5, <1>6 DEF SNext

LEMMA AskedNext == TypeOK /\ SessionInv /\ Asked /\ [SNext]_allVars => Asked'
<1>. SUFFICES ASSUME TypeOK, SessionInv, Asked, [SNext]_allVars  PROVE Asked'
  OBVIOUS
<1>1. [Next]_vars
  BY SessionStep
<1>2. sweeper'.pc \in {"finalize", "stopped"} => Heard'
  BY <1>1, SweeperAsks DEF Asked
<1>3. sweeper.pc = "stopped" => sweeper'.pc = "stopped"
  BY <1>1, NothingForgotten
<1>4. /\ sweeper.pc # "stopped" => thread[Loop].pc = "free"
      /\ thread[Loop].pc \in {"composite", "fuse", "over"} \union Writing => state = "done"
  BY DEF SessionInv, StateBacked, Positions
<1>5. /\ thread'[Loop].pc = "markDone" => state' # "done"
      /\ state' = "done" => sweeper'.pc = "stopped"
  BY <1>3, <1>4, LoopMoves DEF Asked, LoopStays, Chunk, End, Starts, Marks, Writes, Ends, Writing
<1>. QED  BY <1>2, <1>5 DEF Asked

LEMMA AskedInvariant == SSpec => [](TypeOK /\ SessionInv /\ Asked)
<1>1. Spec => []TypeOK
  BY TypeCorrect
<1>. QED  BY <1>1, SessionUsesReassembler, SessionInvariant, AskedInit, AskedNext, PTL DEF SSpec

\* A step of the session is a step of the life cycle, or none of its business.
LEMMA LifecycleStep ==
  ASSUME TypeOK, SessionInv, Asked, [SNext]_allVars
  PROVE  [OneSession!LNext]_(OneSession!lvars)
<1>. USE DEF OneSession!LNext, OneSession!lvars
<1>1. Heard => Heard'
  BY SessionStep, HeardStays
<1>2. Heard \in BOOLEAN
  BY DEF Heard
<1>3. UNCHANGED vars => Heard' = Heard
  BY DEF vars, frameVars, endVars, Heard
<1>4. CASE LoopStays /\ state' = state /\ Heard' = Heard
  BY <1>4 DEF LoopStays
<1>5. CASE LoopStays /\ state' = state /\ Heard' # Heard
  <2>1. Heard' = TRUE
    BY <1>1, <1>2, <1>5 DEF Heard
  <2>. QED  BY <1>5, <2>1 DEF LoopStays, OneSession!Hear
<1>6. CASE Chunk
  BY <1>6 DEF Chunk, LoopStays, OneSession!FirstChunk
<1>7. CASE End
  <2>1. Heard
    BY <1>7 DEF End, Heard
  <2>. QED  BY <1>3, <1>7, <2>1 DEF End, LoopStays, OneSession!EndReceived
<1>8. CASE Starts
  <2>1. Heard /\ Heard'
    BY <1>1, <1>8 DEF Starts, Asked
  <2>2. Heard' = Heard
    BY <2>1 DEF Heard
  <2>. QED  BY <1>8, <2>2 DEF Starts
<1>9. CASE Marks
  <2>1. Heard /\ state # "done"
    BY <1>9 DEF Marks, Asked, SessionInv, StateBacked, Positions
  <2>. QED  BY <1>3, <1>9, <2>1 DEF Marks, OneSession!Consolidate
<1>10. CASE Writes
  BY <1>3, <1>10 DEF Writes, Writing
<1>11. CASE Ends
  <2>1. state = "done"
    BY <1>11 DEF Ends, Writing, SessionInv, StateBacked, Positions
  <2>. QED  BY <1>3, <1>11, <2>1 DEF Ends, OneSession!LoopReturns
<1>. QED  BY <1>4, <1>5, <1>6, <1>7, <1>8, <1>9, <1>10, <1>11, LoopMoves

\* All goroutines and both mutexes together keep the promise of a single session
\* (its safety part): it is consolidated once, by its loop, and only when
\* something was heard.
THEOREM SessionImplementsLifecycle == SSpec => OneSession!LSpec
<1>1. SInit => OneSession!LInit
  BY DEF SInit, Init, OneSession!LInit, Heard, Free
<1>. QED  BY <1>1, AskedInvariant, LifecycleStep, PTL DEF SSpec, OneSession!LSpec

-----------------------------------------------------------------------------
(* The file of a session that is done                                       *)

LEMMA FillsFile ==
  ASSUME NEW w \in Goroutines, FillFile(w)
  PROVE  file'.kind \in {"written", "garbled"}
<1>1. PICK kind \in Overwritten(file, thread[w]) : file' = Document(w, kind)
  BY DEF FillFile
<1>2. kind \in {"written", "garbled"}
  BY DEF Overwritten
<1>. QED  BY <1>1, <1>2 DEF Document

\* A file that is there stays; the sweep loop leaves its steps before the write
\* with a file opened, and finalizeOnce with one written or a write failed.
LEMMA LoopWrites ==
  ASSUME SessionInv, [SNext]_allVars
  PROVE  /\ file.kind # "missing" => file'.kind # "missing"
         /\ writeFailed => writeFailed'
         /\ thread'[Loop].pc = "fill" => thread[Loop].pc = "fill" \/ file'.kind # "missing"
         /\ thread'[Loop].pc = "over" =>
              thread[Loop].pc = "over" \/ file'.kind # "missing" \/ writeFailed'
<1>. DEFINE Kept == /\ file.kind # "missing" => file'.kind # "missing"
                    /\ writeFailed => writeFailed'
            Opened == thread'[Loop].pc = "fill" => thread[Loop].pc = "fill" \/ file'.kind # "missing"
            Closed == thread'[Loop].pc = "over" =>
                          thread[Loop].pc = "over" \/ file'.kind # "missing" \/ writeFailed'
<1>1. Loop \in Goroutines /\ Loop \notin Callers /\ thread \in [Goroutines -> Threads]
  BY LoopsAndPosters DEF SessionInv, SessionType
<1>2. ASSUME NEW w \in Goroutines, Persist(w)  PROVE Kept
  <2>1. CASE FillFile(w)
    BY <2>1, FillsFile DEF FillFile, Written
  <2>2. CASE WriteFails(w)
    <3>1. file' = file \/ file'.kind = "garbled"
      BY <2>2 DEF WriteFails, Document
    <3>2. writeFailed'
      BY <2>2 DEF WriteFails, Written
    <3>. QED  BY <3>1, <3>2
  <2>3. CASE TruncateFile(w)
    BY <2>3 DEF TruncateFile, NoFile
  <2>4. CASE PersistReport(w) \/ MarshalReport(w)
    BY <2>4 DEF PersistReport, MarshalReport
  <2>5. CASE OpenFails(w)
    <3>1. file' = file /\ writeFailed'
      BY <2>5 DEF OpenFails, Written
    <3>. QED  BY <3>1
  <2>. QED  BY <1>2, <2>1, <2>2, <2>3, <2>4, <2>5 DEF Persist
<1>3. ASSUME thread'[Loop] = thread[Loop], file' = file, writeFailed' = writeFailed
      PROVE  Kept /\ Opened /\ Closed
  BY <1>3
<1>4. CASE TimePasses \/ UNCHANGED allVars
  BY <1>3, <1>4 DEF TimePasses, allVars, sessionVars
<1>5. CASE Requests
  <2>1. thread'[Loop] = thread[Loop]
    BY <1>1, <1>5, LoopsAndPosters DEF Requests, HandleDatagram, HandleControl, RejectDatagram,
       TransportCloses, PostClientStats, Goto, sessionVars
  <2>2. file' = file /\ writeFailed' = writeFailed
    BY <1>5 DEF Requests, HandleDatagram, HandleControl, RejectDatagram, TransportCloses,
       PostClientStats, sessionVars
  <2>. QED  BY <1>3, <2>1, <2>2
<1>6. ASSUME NEW c \in Callers, ThreadProceeds(c)  PROVE Kept /\ thread'[Loop] = thread[Loop]
  <2>1. CASE Persist(c)
    <3>1. thread'[Loop] = thread[Loop]
      BY <1>1, <2>1 DEF Persist, PersistReport, MarshalReport, TruncateFile, OpenFails, FillFile,
         WriteFails, Written, Goto
    <3>. QED  BY <1>2, <2>1, <3>1 DEF Goroutines
  <2>2. CASE ~Persist(c)
    BY <1>1, <1>6, <2>2 DEF ThreadProceeds, ReassemblerProceeds, OnFrameComplete, MarkEnding,
       MarkEndingStep, AttachStats, Goto, sessionVars
  <2>. QED  BY <2>1, <2>2
<1>7. CASE SessionLoop
  <2>1. ASSUME NEW t, Goto(Loop, t)  PROVE thread'[Loop] = t
    BY <1>1, <2>1 DEF Goto
  <2>2. CASE SweepLoopProceeds
    BY <1>3, <2>2 DEF SweepLoopProceeds, sessionVars
  <2>3. CASE FinalizeOnce \/ MarkDone \/ LoadDecodedFrames \/ MakeComposite
    <3>1. thread'[Loop].pc \notin {"fill", "over"}
      BY <2>1, <2>3 DEF FinalizeOnce, MarkDone, LoadDecodedFrames, MakeComposite, At, Free
    <3>. QED  BY <2>3, <3>1 DEF FinalizeOnce, MarkDone, LoadDecodedFrames, MakeComposite
  <2>4. CASE PersistReport(Loop) \/ MarshalReport(Loop) \/ TruncateFile(Loop)
    <3>1. Opened /\ Closed
      BY <1>1, <2>1, <2>4 DEF PersistReport, MarshalReport, TruncateFile, At, Free, Threads, NoFile
    <3>. QED  BY <1>1, <1>2, <2>4, <3>1 DEF Persist
  <2>5. CASE FillFile(Loop) \/ WriteFails(Loop) \/ OpenFails(Loop)
    <3>1. thread'[Loop].pc = "over"
      BY <2>1, <2>5 DEF FillFile, WriteFails, OpenFails, Written, At, Free
    <3>2. file'.kind # "missing" \/ writeFailed'
      BY <1>1, <2>5, FillsFile DEF WriteFails, OpenFails, Written
    <3>. QED  BY <1>1, <1>2, <2>5, <3>1, <3>2 DEF Persist
  <2>. QED  BY <1>7, <2>2, <2>3, <2>4, <2>5 DEF SessionLoop, Persist
<1>. QED  BY <1>3, <1>4, <1>5, <1>6, <1>7 DEF SNext

LEMMA FileFollowsNext ==
  TypeOK /\ SessionInv /\ Asked /\ FileFollowsDone /\ [SNext]_allVars => FileFollowsDone'
<1>. SUFFICES ASSUME TypeOK, SessionInv, Asked, FileFollowsDone, [SNext]_allVars
              PROVE  FileFollowsDone'
  OBVIOUS
<1>1. CASE LoopStays /\ state' = state
  BY <1>1, LoopWrites DEF LoopStays, FileFollowsDone
<1>2. CASE Chunk \/ End \/ Starts
  BY <1>2 DEF Chunk, End, Starts, Asked, FileFollowsDone
<1>3. CASE Marks
  BY <1>3 DEF Marks, FileFollowsDone
<1>4. CASE Writes
  <2>1. state = "done"
    BY <1>4 DEF Writes, SessionInv, StateBacked, Positions
  <2>. QED  BY <1>4, <2>1, LoopWrites DEF Writes, Writing, FileFollowsDone
<1>5. CASE Ends
  BY <1>5, LoopWrites DEF Ends, FileFollowsDone
<1>. QED  BY <1>1, <1>2, <1>3, <1>4, <1>5, LoopMoves

\* Who sees a session done and no file sees finalizeOnce on its way to write it,
\* or one whose write failed.
THEOREM SessionFileFollowsDone == SSpec => []FileFollowsDone
<1>1. SInit => FileFollowsDone
  BY DEF SInit, FileFollowsDone
<1>. QED  BY <1>1, FileFollowsNext, AskedInvariant, PTL DEF SSpec

-----------------------------------------------------------------------------
(* Stats delivered in time reach report.json                                *)

\* The client posts its stats once.
OnePost == \A s, t \in Stats : s = t

\* The handler has stats to attach, or writes the report because of them.
Posting(c) == thread[c].pc \in {"attach"} \union Writing

\* One handler has the stats, and is done with them once they were in time.
OneHandler ==
  /\ \A c \in Callers : thread[c].pc = "attach" => thread[c].stats \in Stats
  /\ \A c \in Callers : Posting(c) => unposted = {}
  /\ \A c, d \in Callers : Posting(c) /\ Posting(d) => c = d
  /\ statsInTime => unposted = {} /\ \A c \in Callers : ~Posting(c)

\* From then on the sweep loop is the only writer, and it takes them along.
StatsTaken ==
  statsInTime =>
    /\ thread[Loop].pc \in {"marshal", "truncate", "fill"} => thread[Loop].stats = clientStats
    /\ thread[Loop].pc = "fill" => file = [NoFile EXCEPT !.kind = "empty"]
    /\ thread[Loop].pc = "over" => writeFailed \/ (file.kind = "written" /\ file.stats = clientStats)

StatsInv == OneHandler /\ StatsTaken

LEMMA StatsInit == SInit => StatsInv
<1>. SUFFICES ASSUME SInit  PROVE StatsInv
  OBVIOUS
<1>1. \A w \in Goroutines : thread[w].pc = "free"
  BY DEF SInit, Free, Goroutines
<1>. QED  BY <1>1 DEF SInit, StatsInv, OneHandler, StatsTaken, Posting, Writing, Goroutines

\* A step that touches neither the goroutines, nor the stats, nor the file.
LEMMA StatsStay ==
  ASSUME StatsInv, UNCHANGED <<thread, unposted, clientStats, statsInTime, writeFailed, file>>
  PROVE  StatsInv'
  BY DEF StatsInv, OneHandler, StatsTaken, Posting

\* A caller moves without getting hold of stats, and leaves everything else.
LEMMA StatsMove ==
  ASSUME SessionInv, StatsInv, NEW c \in Callers, NEW t \in Threads, Goto(c, t),
         t.pc \in {"free", "control"} \/ (t.pc \in Writing /\ Posting(c)),
         UNCHANGED <<unposted, clientStats, statsInTime>>,
         (file' = file /\ writeFailed' = writeFailed) \/ Posting(c)
  PROVE  StatsInv'
<1>1. /\ thread'[c] = t /\ thread'[Loop] = thread[Loop]
      /\ \A d \in Callers : d # c => thread'[d] = thread[d]
  BY GotoMoves, LoopsAndPosters DEF SessionInv, SessionType, Goroutines
<1>2. \A d \in Callers : Posting(d)' => Posting(d)
  BY <1>1 DEF Posting, Writing
<1>3. statsInTime => file' = file /\ writeFailed' = writeFailed
  BY DEF StatsInv, OneHandler
<1>4. OneHandler'
  BY <1>1, <1>2 DEF StatsInv, OneHandler, Writing
<1>5. StatsTaken'
  BY <1>1, <1>3 DEF StatsInv, StatsTaken
<1>. QED  BY <1>4, <1>5 DEF StatsInv

\* The positions of persistReport carry the stats copied at its start.
LEMMA WritersCarry ==
  ASSUME NEW w \in Goroutines, SessionInv, thread[w].pc \in Writing,
         PersistReport(w) \/ MarshalReport(w) \/ TruncateFile(w)
  PROVE  \E t \in Threads :
           /\ Goto(w, t)
           /\ t.pc \in Writing \ {"snapshot"}
           /\ t.pc = "fill" <=> thread[w].pc = "truncate"
           /\ t.stats = (IF thread[w].pc = "snapshot" THEN clientStats ELSE thread[w].stats)
<1>1. /\ thread[w] \in Threads /\ clientStats \in Stats \union {NoStats}
      /\ composite \in SUBSET FrameIDs
  BY DEF SessionInv, SessionType
<1>2. CASE PersistReport(w)
  <2>. DEFINE t == [At("marshal") EXCEPT !.stats = clientStats]
  <2>1. t \in Threads /\ t.pc = "marshal" /\ t.stats = clientStats
    BY <1>1 DEF At, Free, Threads, Pcs, Writing
  <2>. QED  BY <1>2, <2>1 DEF PersistReport, Writing
<1>3. CASE MarshalReport(w)
  <2>. DEFINE t == [thread[w] EXCEPT !.pc = "truncate", !.composite = composite]
  <2>1. t \in Threads /\ t.pc = "truncate" /\ t.stats = thread[w].stats
    BY <1>1 DEF Threads, Pcs, Writing
  <2>. QED  BY <1>3, <2>1 DEF MarshalReport, Writing
<1>4. CASE TruncateFile(w)
  <2>. DEFINE t == [thread[w] EXCEPT !.pc = "fill"]
  <2>1. t \in Threads /\ t.pc = "fill" /\ t.stats = thread[w].stats
    BY <1>1 DEF Threads, Pcs, Writing
  <2>. QED  BY <1>4, <2>1 DEF TruncateFile, Writing
<1>. QED  BY <1>2, <1>3, <1>4

LEMMA StatsRequest ==
  ASSUME OnePost, SessionInv, StatsInv, Requests
  PROVE  StatsInv'
<1>1. ASSUME NEW c \in ReadLoops, NEW h \in Headers, HandleDatagram(c, h)  PROVE StatsInv'
  BY <1>1, StatsStay DEF HandleDatagram
<1>2. ASSUME NEW c \in ReadLoops, RejectDatagram(c) \/ TransportCloses(c)  PROVE StatsInv'
  BY <1>2, StatsStay DEF RejectDatagram, TransportCloses, sessionVars
<1>3. ASSUME NEW c \in ReadLoops, NEW n \in Claims, HandleControl(c, n)  PROVE StatsInv'
  <2>1. At("control") \in Threads /\ At("control").pc = "control"
    BY ThreadRecord DEF Pcs
  <2>. QED  BY <1>3, <2>1, StatsMove, LoopsAndPosters DEF HandleControl
<1>4. ASSUME NEW c \in Posters, NEW s \in Stats, NEW n \in Claims, PostClientStats(c, s, n)
      PROVE  StatsInv'
  <2>1. c \in Callers /\ c \in Goroutines
    BY LoopsAndPosters DEF Goroutines
  <2>2. PICK t \in Threads : t.pc = "attach" /\ t.stats = s /\ Goto(c, t)
    <3>1. [At("attach") EXCEPT !.stats = s] \in Threads
      BY ThreadRecord DEF Pcs
    <3>. QED  BY <1>4, <3>1 DEF PostClientStats, At, Free
  <2>3. /\ thread'[c] = t /\ thread'[Loop] = thread[Loop]
        /\ \A d \in Callers : d # c => thread'[d] = thread[d]
    BY <2>1, <2>2, GotoMoves, LoopsAndPosters DEF SessionInv, SessionType, Goroutines
  <2>4. unposted' = {}
    BY <1>4 DEF PostClientStats, OnePost, SessionInv, SessionType
  <2>5. ~statsInTime /\ \A d \in Callers : ~Posting(d)
    BY <1>4 DEF PostClientStats, StatsInv, OneHandler
  <2>6. ~statsInTime'
    BY <1>4, <2>5 DEF PostClientStats
  <2>7. OneHandler'
    BY <2>2, <2>3, <2>4, <2>5, <2>6 DEF OneHandler, Posting
  <2>. QED  BY <2>6, <2>7 DEF StatsInv, StatsTaken
<1>. QED  BY <1>1, <1>2, <1>3, <1>4 DEF Requests

LEMMA StatsCaller ==
  ASSUME SessionInv, StatsInv, NEW c \in Callers, ThreadProceeds(c)
  PROVE  StatsInv'
<1>1. thread[c] \in Threads /\ c \in Goroutines /\ c # Loop
  BY LoopsAndPosters DEF SessionInv, SessionType, Goroutines
<1>2. Free \in Threads /\ Free.pc = "free"
  BY DEF Free, Threads, Pcs
<1>3. CASE ReassemblerProceeds(c) \/ \E failed \in BOOLEAN : OnFrameComplete(c, failed)
  BY <1>3, StatsStay DEF ReassemblerProceeds, OnFrameComplete, sessionVars
<1>4. CASE MarkEnding(c)
  BY <1>2, <1>4, StatsMove DEF MarkEnding, MarkEndingStep
<1>5. CASE AttachStats(c)
  <2>1. PICK t \in Threads : Goto(c, t) /\ t.pc = (IF state = "done" THEN "snapshot" ELSE "free")
    BY <1>5, ThreadRecord DEF AttachStats, Pcs, Writing
  <2>2. /\ thread'[c] = t /\ thread'[Loop] = thread[Loop]
        /\ \A d \in Callers : d # c => thread'[d] = thread[d]
    BY <1>1, <2>1, GotoMoves, LoopsAndPosters DEF SessionInv, SessionType, Goroutines
  <2>3. Posting(c) /\ unposted' = {} /\ ~statsInTime
    BY <1>5 DEF AttachStats, Posting, StatsInv, OneHandler
  <2>4. \A d \in Callers : Posting(d)' => d = c /\ state = "done"
    BY <2>1, <2>2, <2>3 DEF Posting, Writing, StatsInv, OneHandler
  <2>5. statsInTime' => state # "done"
    BY <1>5, <2>3 DEF AttachStats
  <2>6. statsInTime' => thread'[Loop].pc \notin {"over"} \union Writing
    BY <2>2, <2>5 DEF SessionInv, StateBacked, Positions
  <2>7. OneHandler'
    BY <2>1, <2>2, <2>3, <2>4, <2>5 DEF OneHandler, Posting, Writing
  <2>. QED  BY <2>6, <2>7 DEF StatsInv, StatsTaken, Writing
<1>6. CASE Persist(c)
  <2>1. Posting(c)
    BY <1>6 DEF Persist, PersistReport, MarshalReport, TruncateFile, OpenFails, FillFile, WriteFails, Written, Posting, Writing
  <2>2. PICK t \in Threads : Goto(c, t) /\ t.pc \in {"free"} \union Writing
    <3>1. CASE PersistReport(c) \/ MarshalReport(c) \/ TruncateFile(c)
      <4>1. thread[c].pc \in Writing
        BY <3>1 DEF PersistReport, MarshalReport, TruncateFile, Writing
      <4>. QED  BY <1>1, <3>1, <4>1, WritersCarry
    <3>2. CASE FillFile(c) \/ WriteFails(c) \/ OpenFails(c)
      BY <1>1, <1>2, <3>2 DEF FillFile, WriteFails, OpenFails, Written
    <3>. QED  BY <1>6, <3>1, <3>2 DEF Persist
  <2>. QED
    BY <1>6, <2>1, <2>2, StatsMove DEF Persist, PersistReport, MarshalReport, TruncateFile, OpenFails, FillFile, WriteFails, Written
<1>. QED  BY <1>3, <1>4, <1>5, <1>6 DEF ThreadProceeds

LEMMA StatsLoop ==
  ASSUME TypeOK, SessionInv, StatsInv, SessionLoop
  PROVE  StatsInv'
<1>1. thread[Loop] \in Threads /\ Loop \in Goroutines /\ Loop \notin Callers
  BY LoopsAndPosters DEF SessionInv, SessionType
<1>2. CASE SweepLoopProceeds
  BY <1>2, StatsStay DEF SweepLoopProceeds, sessionVars
<1>3. ASSUME NEW t \in Threads, Goto(Loop, t), UNCHANGED <<unposted, statsInTime, clientStats>>
      PROVE  thread'[Loop] = t /\ OneHandler'
  <2>1. thread'[Loop] = t /\ \A d \in Callers : thread'[d] = thread[d]
    BY <1>1, <1>3, GotoMoves DEF SessionInv, SessionType, Goroutines
  <2>. QED  BY <1>3, <2>1 DEF StatsInv, OneHandler, Posting
<1>4. CASE FinalizeOnce \/ MarkDone \/ LoadDecodedFrames \/ MakeComposite
  <2>1. PICK t \in Threads : Goto(Loop, t) /\ t.pc \in {"markDone", "composite", "fuse", "snapshot"}
    <3>1. /\ At("markDone") \in Threads /\ At("markDone").pc = "markDone"
          /\ At("composite") \in Threads /\ At("composite").pc = "composite"
          /\ At("snapshot") \in Threads /\ At("snapshot").pc = "snapshot"
      BY ThreadRecord DEF Pcs, Writing
    <3>2. LET loaded == [At("fuse") EXCEPT !.composite = saved]
          IN  loaded \in Threads /\ loaded.pc = "fuse"
      BY DEF At, Free, Threads, Pcs, SessionInv, SessionType
    <3>. QED  BY <1>4, <3>1, <3>2 DEF FinalizeOnce, MarkDone, LoadDecodedFrames, MakeComposite
  <2>2. UNCHANGED <<unposted, statsInTime, clientStats>>
    BY <1>4 DEF FinalizeOnce, MarkDone, LoadDecodedFrames, MakeComposite
  <2>. QED  BY <1>3, <2>1, <2>2 DEF StatsInv, StatsTaken
<1>5. CASE PersistReport(Loop) \/ MarshalReport(Loop) \/ TruncateFile(Loop)
  <2>1. thread[Loop].pc \in {"snapshot", "marshal", "truncate"}
    BY <1>5 DEF PersistReport, MarshalReport, TruncateFile
  <2>2. PICK t \in Threads :
          /\ Goto(Loop, t)
          /\ t.pc \in Writing \ {"snapshot"}
          /\ t.pc = "fill" <=> thread[Loop].pc = "truncate"
          /\ t.stats = (IF thread[Loop].pc = "snapshot" THEN clientStats ELSE thread[Loop].stats)
    BY <1>1, <1>5, <2>1, WritersCarry DEF Writing
  <2>3. UNCHANGED <<unposted, statsInTime, clientStats>>
    BY <1>5 DEF PersistReport, MarshalReport, TruncateFile
  <2>4. thread[Loop].pc = "truncate" => file' = [NoFile EXCEPT !.kind = "empty"]
    BY <1>5 DEF PersistReport, MarshalReport, TruncateFile
  <2>. QED  BY <1>3, <2>1, <2>2, <2>3, <2>4 DEF StatsInv, StatsTaken, Writing
<1>6. CASE FillFile(Loop)
  <2>1. PICK t \in Threads : Goto(Loop, t) /\ t.pc = "over"
    BY <1>6, ThreadRecord DEF FillFile, Written, Pcs
  <2>2. file = [NoFile EXCEPT !.kind = "empty"] => Overwritten(file, thread[Loop]) = {"written"}
    BY DEF NoFile, Overwritten, Outlasts
  <2>3. statsInTime => file'.kind = "written" /\ file'.stats = clientStats
    BY <1>6, <2>2 DEF FillFile, Document, StatsInv, StatsTaken
  <2>. QED  BY <1>3, <1>6, <2>1, <2>3 DEF FillFile, Written, StatsInv, StatsTaken
<1>7. CASE WriteFails(Loop) \/ OpenFails(Loop)
  <2>1. PICK t \in Threads : Goto(Loop, t) /\ t.pc = "over"
    BY <1>7, ThreadRecord DEF WriteFails, OpenFails, Written, Pcs
  <2>2. writeFailed' /\ UNCHANGED <<unposted, statsInTime, clientStats>>
    BY <1>7 DEF WriteFails, OpenFails, Written
  <2>. QED  BY <1>3, <2>1, <2>2 DEF StatsInv, StatsTaken
<1>. QED  BY <1>2, <1>4, <1>5, <1>6, <1>7 DEF SessionLoop, Persist

LEMMA StatsNext == OnePost /\ TypeOK /\ SessionInv /\ StatsInv /\ [SNext]_allVars => StatsInv'
<1>. SUFFICES ASSUME OnePost, TypeOK, SessionInv, StatsInv, [SNext]_allVars  PROVE StatsInv'
  OBVIOUS
<1>1. CASE TimePasses \/ UNCHANGED allVars
  BY <1>1, StatsStay DEF TimePasses, allVars, sessionVars
<1>. QED  BY <1>1, StatsRequest, StatsCaller, StatsLoop DEF SNext

\* Stats the client posted, once, while the session was not done are in a
\* readable report.json when all is written and no write failed, however its
\* handler, finalizeOnce and the writes of the file interleave.
THEOREM StatsReachReport ==
  ASSUME OnePost
  PROVE  SSpec => []StatsInTimeReported
<1>1. StatsInv => StatsInTimeReported
  BY DEF StatsInv, StatsTaken, StatsInTimeReported, AtRest
<1>. QED  BY <1>1, StatsInit, StatsNext, AskedInvariant, PTL DEF SSpec
====
