-------------------------- MODULE SessionLifecycle --------------------------
(***************************************************************************)
(* What one session promises, without frames, locks or files: it is         *)
(* capturing after its first chunk and ending after its END, it is          *)
(* consolidated once, by its sweep loop, and only if something was heard of *)
(* it; the loop ends after that, and in no other way.  Session implements   *)
(* it with the real methods, Manager with many sessions at a time.          *)
(***************************************************************************)

VARIABLES
  state,     \* what GET /sessions/{id} says
  heard,     \* a chunk, an END or a close has reached the reassembler
  running    \* the sweep loop has not returned

lvars == <<state, heard, running>>

LInit == state = "open" /\ heard = FALSE /\ running = TRUE

FirstChunk ==
  /\ state = "open" /\ state' = "capturing"
  /\ UNCHANGED <<heard, running>>

Hear ==
  /\ heard' = TRUE
  /\ UNCHANGED <<state, running>>

EndReceived ==
  /\ heard
  /\ state \in {"open", "capturing"} /\ state' = "ending"
  /\ UNCHANGED <<heard, running>>

Consolidate ==
  /\ heard /\ running
  /\ state # "done" /\ state' = "done"
  /\ UNCHANGED <<heard, running>>

LoopReturns ==
  /\ state = "done"
  /\ running /\ running' = FALSE
  /\ UNCHANGED <<state, heard>>

LNext == FirstChunk \/ Hear \/ EndReceived \/ Consolidate \/ LoopReturns

LSpec == LInit /\ [][LNext]_lvars

\* The loop is a goroutine of its own.
LFairSpec == LSpec /\ WF_lvars(Consolidate) /\ WF_lvars(LoopReturns)
=============================================================================
