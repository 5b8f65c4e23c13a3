----------------------------- MODULE MCConnect -----------------------------
(***************************************************************************)
(* Instances of Connect for TLC, in units of half a second: a budget of 4   *)
(* s, a WebSocket timeout of 5 s, a countdown and capture of 4 s, a grace   *)
(* of 2 s, an idle timeout of 5 s.                                          *)
(***************************************************************************)
EXTENDS Connect
=============================================================================
