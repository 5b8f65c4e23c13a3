--------------------------- MODULE MCReassembler ---------------------------
(***************************************************************************)
(* Instances of Reassembler for TLC.  The identifiers leave a gap (1 is     *)
(* never seen), so that the report's fallback for framesExpected finds      *)
(* frames of which no chunk ever arrived.  Codecs and callers are           *)
(* interchangeable: the code only compares codecs, and every thread may     *)
(* make every call.                                                         *)
(***************************************************************************)
EXTENDS Reassembler, TLC

MCFrameIDs   == {0, 2}
\* No usable claim (zero and negative ones are ignored alike), one below the
\* frames that may be seen and one above.
MCClaims     == {-1, 1, 3}
Alike        == Permutations(Codecs) \union Permutations(Callers)
=============================================================================
