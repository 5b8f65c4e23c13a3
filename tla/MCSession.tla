----------------------------- MODULE MCSession -----------------------------
(***************************************************************************)
(* Instances of Session for TLC: one frame of one chunk is enough to have a *)
(* session with and without a composite, and one reading goroutine beside   *)
(* one HTTP handler to have every pair of goroutines race.                  *)
(***************************************************************************)
EXTENDS Session
=============================================================================
