----------------------------- MODULE MCManager -----------------------------
(***************************************************************************)
(* Instances of Manager for TLC: fewer numbers than sessions, so that the   *)
(* search wraps, passes over live numbers and takes one that eviction freed.*)
(***************************************************************************)
EXTENDS Manager
=============================================================================
