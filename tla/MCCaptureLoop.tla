--------------------------- MODULE MCCaptureLoop ---------------------------
(***************************************************************************)
(* Instances of CaptureLoop for TLC: a queue of three, as in the code, and  *)
(* five frames of one or two chunks evict with the head started and not,    *)
(* and the queue runs empty and fills again.                                *)
(***************************************************************************)
EXTENDS CaptureLoop
=============================================================================
