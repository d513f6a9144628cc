--------------------------- MODULE MCEstatsChecksum ---------------------------
(* EstatsChecksum for TLC: bytes of one bit, words of two, a sum of four. *)
EXTENDS EstatsChecksum
=============================================================================
