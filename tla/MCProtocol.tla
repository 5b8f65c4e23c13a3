----------------------------- MODULE MCProtocol -----------------------------
(***************************************************************************)
(* Instances of Protocol for TLC.  Bytes of 8 values: the largest payload,  *)
(* 9, needs both bytes of its length, the 7 chunks a byte can count hold at *)
(* most 63 bytes, and a codec above the largest fits in a byte.             *)
(***************************************************************************)
EXTENDS Protocol
=============================================================================
