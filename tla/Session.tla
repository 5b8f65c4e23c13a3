------------------------------ MODULE Session ------------------------------
(***************************************************************************)
(* backend/internal/session: the life of one capture session around its     *)
(* reassembler.  HandleDatagram and HandleControl run on the read loops of  *)
(* its transports, SetClientStats on HTTP handlers, finalizeOnce on the     *)
(* session's sweep loop.  The session has a mutex of its own: a method that *)
(* takes first the reassembler's and then the session's is two steps, and   *)
(* report.json is written under neither.                                    *)
(***************************************************************************)
EXTENDS Reassembler

CONSTANTS
  ReadLoops,     \* goroutines reading a transport
  Posters,       \* HTTP handlers of POST client-stats
  Loop,          \* the goroutine of sweepLoop
  Stats,         \* client-stats bodies; each is posted at most once
  NoStats        \* clientStats is nil

ASSUME SessionAssumption ==
  /\ Callers = ReadLoops \union Posters
  /\ ReadLoops \intersect Posters = {}
  /\ Loop \notin Callers
  /\ NoStats \notin Stats

VARIABLES
  state, clientStats,
  reported,       \* s.report # nil
  saved,          \* store.saved: frames written to disk
  composite,      \* the frames fused into store.compositeFile, {} without one
  file,           \* report.json
  thread,         \* where each goroutine is inside a method of the session
  unposted,       \* stats the client has yet to post
  statsInTime,    \* history: stats were attached before the session was done
  statsLate,      \* history: stats were attached after it
  writeFailed     \* history: a write of report.json failed

history == <<statsInTime, statsLate, writeFailed>>
sessionVars == <<state, clientStats, reported, saved, composite, file, thread,
                 unposted, history>>
allVars == <<vars, sessionVars>>

States   == {"open", "capturing", "ending", "done"}
NoFile   == [kind |-> "missing", stats |-> NoStats, composite |-> {}]
Free     == [pc |-> "free", stats |-> NoStats, composite |-> {}]
At(pc)   == [Free EXCEPT !.pc = pc]

\* The goroutine is in no method of the session or the reassembler.
IsFree(c) == thread[c] = Free /\ call[c] = Idle

Goto(w, t) == thread' = [thread EXCEPT ![w] = t]

SInit ==
  /\ Init
  /\ state = "open" /\ clientStats = NoStats /\ reported = FALSE
  /\ saved = {} /\ composite = {} /\ file = NoFile
  /\ thread = [w \in Callers \union {Loop} |-> Free]
  /\ unposted = Stats
  /\ statsInTime = FALSE /\ statsLate = FALSE /\ writeFailed = FALSE

-----------------------------------------------------------------------------
(* The read loops                                                           *)

\* HandleDatagram, for a valid chunk of this session: MarkCapturing is one
\* critical section, and Ingest starts by reading the clock.
HandleDatagram(c, h) ==
  /\ IsFree(c)
  /\ state' = IF state = "open" THEN "capturing" ELSE state
  /\ IngestCall(c, h)
  /\ UNCHANGED <<clientStats, reported, saved, composite, file, thread, unposted, history>>

\* HandleDatagram, for a datagram that does not decode or is of another session.
RejectDatagram(c) ==
  /\ IsFree(c)
  /\ NoteProtocolError(c) \/ NoteWrongSession(c)
  /\ UNCHANGED sessionVars

\* HandleControl, end_of_capture: first MarkEnd, then MarkEnding.
HandleControl(c, framesSent) ==
  /\ IsFree(c)
  /\ MarkEndCall(c, framesSent)
  /\ Goto(c, At("control"))
  /\ UNCHANGED <<state, clientStats, reported, saved, composite, file, unposted, history>>

MarkEndingStep(c) ==
  /\ thread[c].pc = "control"
  /\ state' = IF state \in {"open", "capturing"} THEN "ending" ELSE state
  /\ Goto(c, Free)
  /\ UNCHANGED <<vars, clientStats, reported, saved, composite, file, unposted, history>>

MarkEnding_BeforeMarkEnd(c) == MarkEndingStep(c)

MarkEnding(c) ==
  /\ call[c] = Idle
  /\ MarkEndingStep(c)

TransportCloses(c) ==
  /\ IsFree(c)
  /\ ClosedCall(c)
  /\ UNCHANGED sessionVars

\* A method of the reassembler takes its next step.
ReassemblerProceeds(c) ==
  /\ Ingest(c) \/ MarkEnd(c) \/ NoteTransportClosed(c)
  /\ UNCHANGED sessionVars

\* store.OnFrameComplete: a frame that decodes is on disk and in store.saved.
OnFrameComplete(c, failed) ==
  /\ SinkReturns(c, failed)
  /\ saved' = IF failed THEN saved ELSE saved \union {call[c].frame.frameID}
  /\ UNCHANGED <<state, clientStats, reported, composite, file, thread, unposted, history>>

-----------------------------------------------------------------------------
(* POST client-stats                                                        *)

\* SetClientStats is also an END: it claims framesSent to the reassembler.
PostClientStats(c, s, framesSent) ==
  /\ IsFree(c)
  /\ s \in unposted
  /\ unposted' = unposted \ {s}
  /\ MarkEndCall(c, framesSent)
  /\ Goto(c, [At("attach") EXCEPT !.stats = s])
  /\ UNCHANGED <<state, clientStats, reported, saved, composite, file, history>>

AttachStats_AlwaysPersists(c) ==
  /\ thread[c].pc = "attach" /\ call[c] = Idle
  /\ clientStats' = thread[c].stats
  /\ statsInTime' = (statsInTime \/ state # "done")
  /\ Goto(c, At("snapshot"))
  /\ UNCHANGED <<vars, state, reported, saved, composite, file, unposted, statsLate, writeFailed>>

\* Under the session's mutex; a session already done has its report rewritten.
AttachStats(c) ==
  /\ thread[c].pc = "attach" /\ call[c] = Idle
  /\ clientStats' = thread[c].stats
  /\ statsInTime' = (statsInTime \/ state # "done")
  /\ statsLate' = (statsLate \/ state = "done")
  /\ Goto(c, IF state = "done" THEN At("snapshot") ELSE Free)
  /\ UNCHANGED <<vars, state, reported, saved, composite, file, unposted, writeFailed>>

-----------------------------------------------------------------------------
(* finalizeOnce, on the sweep loop                                          *)

SweepLoopProceeds ==
  /\ SweepTick \/ Sweep \/ CheckFinalize
  /\ UNCHANGED sessionVars

FinalizeOnce ==
  /\ Finalize
  /\ Goto(Loop, At("markDone"))
  /\ UNCHANGED <<state, clientStats, reported, saved, composite, file, unposted, history>>

\* The early return of a session already done is never taken: one goroutine calls
\* finalizeOnce, once.
MarkDone ==
  /\ thread[Loop].pc = "markDone"
  /\ state' = "done" /\ reported' = TRUE
  /\ Goto(Loop, At(IF finalReport.framesComplete > 0 THEN "composite" ELSE "snapshot"))
  /\ UNCHANGED <<vars, clientStats, saved, composite, file, unposted, history>>

\* Composite takes what the store holds by now.
LoadDecodedFrames ==
  /\ thread[Loop].pc = "composite"
  /\ Goto(Loop, [At("fuse") EXCEPT !.composite = saved])
  /\ UNCHANGED <<vars, state, clientStats, reported, saved, composite, file, unposted, history>>

MakeComposite_FailureAborts ==
  /\ thread[Loop].pc = "fuse"
  /\ \E fused \in {{}, thread[Loop].composite} :
       composite' = fused /\ Goto(Loop, At(IF fused = {} THEN "over" ELSE "snapshot"))
  /\ UNCHANGED <<vars, state, clientStats, reported, saved, file, unposted, history>>

\* It fuses them, or fails: finalizeOnce goes on without a composite.
MakeComposite ==
  /\ thread[Loop].pc = "fuse"
  /\ \E fused \in {{}, thread[Loop].composite} : composite' = fused
  /\ Goto(Loop, At("snapshot"))
  /\ UNCHANGED <<vars, state, clientStats, reported, saved, file, unposted, history>>

-----------------------------------------------------------------------------
(* persistReport and store.WriteReport, by any goroutine                    *)

PersistReport_ForgetsStats(w) ==
  /\ thread[w].pc = "snapshot"
  /\ Goto(w, At("marshal"))
  /\ UNCHANGED <<vars, state, clientStats, reported, saved, composite, file, unposted, history>>

\* The document's session part, copied under the session's mutex.
PersistReport(w) ==
  /\ thread[w].pc = "snapshot"
  /\ Goto(w, [At("marshal") EXCEPT !.stats = clientStats])
  /\ UNCHANGED <<vars, state, clientStats, reported, saved, composite, file, unposted, history>>

\* WriteReport adds what the store knows and marshals, which cannot fail: the
\* stats were checked to be JSON when they were posted.
MarshalReport(w) ==
  /\ thread[w].pc = "marshal"
  /\ Goto(w, [thread[w] EXCEPT !.pc = "truncate", !.composite = composite])
  /\ UNCHANGED <<vars, state, clientStats, reported, saved, composite, file, unposted, history>>

\* WriteReport returns; an error is logged and nothing else.
Written(w, failed) ==
  /\ Goto(w, IF w = Loop THEN At("over") ELSE Free)
  /\ writeFailed' = (writeFailed \/ failed)
  /\ UNCHANGED <<vars, state, clientStats, reported, saved, composite, unposted,
                 statsInTime, statsLate>>

\* os.WriteFile opens with O_TRUNC and then writes from the start of the file.
TruncateFile(w) ==
  /\ thread[w].pc = "truncate"
  /\ file' = [NoFile EXCEPT !.kind = "empty"]
  /\ Goto(w, [thread[w] EXCEPT !.pc = "fill"])
  /\ UNCHANGED <<vars, state, clientStats, reported, saved, composite, unposted, history>>

\* The file cannot be opened: it stays what it was, or missing.
OpenFails(w) ==
  /\ thread[w].pc = "truncate"
  /\ Written(w, TRUE)
  /\ UNCHANGED file

\* Does document d carry an optional field that e lacks, or other stats?
Outlasts(d, e) ==
  \/ d.stats # NoStats /\ d.stats # e.stats
  \/ d.composite # {} /\ e.composite = {}

\* Bytes another writer left beyond the end of a shorter document stay; how much
\* there is of a garbled file is not known.
Overwritten(old, doc) ==
  IF old.kind = "garbled" THEN {"written", "garbled"}
  ELSE IF ~Outlasts(old, doc) THEN {"written"}
  ELSE IF Outlasts(doc, old) THEN {"written", "garbled"} ELSE {"garbled"}

Document(w, kind) ==
  [kind |-> kind, stats |-> thread[w].stats, composite |-> thread[w].composite]

FillFile(w) ==
  /\ thread[w].pc = "fill"
  /\ \E kind \in Overwritten(file, thread[w]) : file' = Document(w, kind)
  /\ Written(w, FALSE)

\* The write fails before its first byte or after some.
WriteFails(w) ==
  /\ thread[w].pc = "fill"
  /\ file' \in {file, Document(w, "garbled")}
  /\ Written(w, TRUE)

Persist(w) ==
  \/ PersistReport(w) \/ MarshalReport(w)
  \/ TruncateFile(w) \/ OpenFails(w) \/ FillFile(w) \/ WriteFails(w)

-----------------------------------------------------------------------------

TimePasses == Tick /\ UNCHANGED sessionVars

Requests ==
  \/ \E c \in ReadLoops :
       \/ \E h \in Headers : HandleDatagram(c, h)
       \/ \E n \in Claims : HandleControl(c, n)
       \/ RejectDatagram(c) \/ TransportCloses(c)
  \/ \E c \in Posters, s \in Stats, n \in Claims : PostClientStats(c, s, n)

ThreadProceeds(c) ==
  \/ ReassemblerProceeds(c)
  \/ \E failed \in BOOLEAN : OnFrameComplete(c, failed)
  \/ MarkEnding(c) \/ AttachStats(c) \/ Persist(c)

SessionLoop ==
  \/ SweepLoopProceeds \/ FinalizeOnce \/ MarkDone
  \/ LoadDecodedFrames \/ MakeComposite \/ Persist(Loop)

SNext == TimePasses \/ Requests \/ (\E c \in Callers : ThreadProceeds(c)) \/ SessionLoop

SSpec == SInit /\ [][SNext]_allVars

\* Time passes, the goroutine of the sweep loop and the callers' threads are
\* scheduled; nothing obliges a client to send anything.
SFairSpec ==
  /\ SSpec
  /\ WF_allVars(TimePasses) /\ WF_allVars(SessionLoop)
  /\ \A c \in Callers : WF_allVars(ThreadProceeds(c))

-----------------------------------------------------------------------------
(* Properties                                                               *)

\* Every variable of the session keeps its type.
STypeOK ==
  /\ state \in States
  /\ clientStats \in Stats \union {NoStats}
  /\ {reported, statsInTime, statsLate, writeFailed} \subseteq BOOLEAN
  /\ saved \subseteq FrameIDs /\ composite \subseteq saved
  /\ unposted \subseteq Stats
  /\ file.kind \in {"missing", "empty", "written", "garbled"}
  /\ file.composite \subseteq composite
  /\ \A w \in Callers \union {Loop} :
       thread[w].pc \in {"free", "control", "attach", "markDone", "composite", "fuse",
                         "snapshot", "marshal", "truncate", "fill", "over"}

Rank(s) == CASE s = "open" -> 0 [] s = "capturing" -> 1 [] s = "ending" -> 2 [] s = "done" -> 3

\* The life cycle open, capturing, ending, done of the package comment only
\* moves forward, whichever goroutines race to move it, and done is the end.
StateMonotonic == [][Rank(state') >= Rank(state)]_allVars

\* The client polls until done and then reads the report: a session that says it
\* is done has a report, and it is the one the reassembler fixed.
DoneHasReport == state = "done" => reported /\ finalized

\* A session that says it is ending has an END that will consolidate it: the
\* state is under one mutex and what it stands for under another.
EndingHasEnd == state = "ending" => endMarked

\* report.json exists only for a consolidated session, so that no reader takes
\* the counters of a running capture for its results.
FileOnlyWhenDone == file.kind # "missing" => state = "done" /\ reported

\* finalizeOnce marks the session done before it makes the composite and writes
\* report.json, so that who sees it done may find no file yet.  The file is missing
\* only as long as finalizeOnce is on its way to it, whatever became of the composite
\* and whoever else writes, or because a write failed: nobody waits in vain.
FileFollowsDone ==
  state = "done" /\ file.kind = "missing" =>
    writeFailed \/ thread[Loop].pc \in {"composite", "fuse", "snapshot", "marshal", "truncate"}

AtRest ==
  /\ \A c \in Callers : IsFree(c)
  /\ thread[Loop].pc = "over"

\* Stats the client delivered while the session was not done are in report.json
\* once everything is written, and the document is readable, unless the disk
\* refused it.
StatsInTimeReported ==
  AtRest /\ statsInTime /\ ~writeFailed => file.kind = "written" /\ file.stats = clientStats

\* SetClientStats rewrites report.json when the session is already done "para
\* incluirlas": in the end the file has the client's stats.
StatsReported ==
  AtRest /\ clientStats # NoStats /\ ~writeFailed => file.kind = "written" /\ file.stats = clientStats

\* The reassembler has something that will consolidate the session.
Heard == endMarked \/ closedAt # Never \/ lastChunkAt # Never

OneSession == INSTANCE SessionLifecycle
  WITH state <- state, heard <- Heard, running <- thread[Loop].pc # "over"

\* All the goroutines and both mutexes together keep the promise of a single
\* session: consolidated once, by its loop, only when something was heard, and
\* then the loop returns.
LifecycleImplemented == OneSession!LFairSpec

\* A session that heard anything ends up done, and its report.json ends up whole
\* and stays so.  Only a write that failed or stats that came when it was done
\* already, and that have it written again, may leave it otherwise.
SessionSettles ==
  Heard ~> [](state = "done" /\ (file.kind = "written" \/ writeFailed \/ statsLate))

=============================================================================
