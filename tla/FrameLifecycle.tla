--------------------------- MODULE FrameLifecycle ---------------------------
(***************************************************************************)
(* What a session's reassembler promises of its frames, without chunks,     *)
(* clocks, counters or locks: every frame is decided once.  A frame that    *)
(* somebody heard of is assembling until it is complete or partial; a       *)
(* complete frame is handed to the store exactly once; closing the session  *)
(* makes every undecided frame partial, and from then on no frame changes.  *)
(***************************************************************************)

CONSTANT FrameIDs

VARIABLES
  phase,    \* what became of each frame
  handed,   \* the complete frames the store has received
  closed    \* the session's report is fixed

avars == <<phase, handed, closed>>

Phases == {"none", "assembling", "complete", "partial"}

ATypeOK ==
  /\ phase \in [FrameIDs -> Phases]
  /\ handed \subseteq FrameIDs
  /\ closed \in BOOLEAN

AInit ==
  /\ phase = [f \in FrameIDs |-> "none"]
  /\ handed = {}
  /\ closed = FALSE

\* The first chunk of f arrives; a frame of one chunk is complete at once.
Start(f) ==
  /\ ~closed
  /\ phase[f] = "none"
  /\ \E p \in {"assembling", "complete"} : phase' = [phase EXCEPT ![f] = p]
  /\ UNCHANGED <<handed, closed>>

\* The last missing chunk of f arrives.
Complete(f) ==
  /\ ~closed
  /\ phase[f] = "assembling"
  /\ phase' = [phase EXCEPT ![f] = "complete"]
  /\ UNCHANGED <<handed, closed>>

\* The frames of S waited too long.
Expire(S) ==
  /\ ~closed
  /\ \A f \in S : phase[f] = "assembling"
  /\ phase' = [f \in FrameIDs |-> IF f \in S THEN "partial" ELSE phase[f]]
  /\ UNCHANGED <<handed, closed>>

\* The store receives f, possibly after the session closed.
HandOver(f) ==
  /\ phase[f] = "complete"
  /\ f \notin handed
  /\ handed' = handed \union {f}
  /\ UNCHANGED <<phase, closed>>

Close ==
  /\ ~closed
  /\ closed' = TRUE
  /\ phase' = [f \in FrameIDs |->
                 IF phase[f] = "assembling" THEN "partial" ELSE phase[f]]
  /\ UNCHANGED handed

ANext ==
  \/ \E f \in FrameIDs : Start(f) \/ Complete(f) \/ HandOver(f)
  \/ \E S \in SUBSET FrameIDs : Expire(S)
  \/ Close

ASpec == AInit /\ [][ANext]_avars
=============================================================================
