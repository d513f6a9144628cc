---------------------------- MODULE MCEstatsValue ----------------------------
(* EstatsValue for TLC. *)
EXTENDS EstatsValue

CONSTANTS a4, a6

Four == {a4}
Six == {a6}
=============================================================================
