---------------------------- MODULE MCEstatsList ----------------------------
(* EstatsList for TLC. *)
EXTENDS EstatsList, TLC

CONSTANTS n1, n2, n3, n4
Nodes == {n1, n2, n3, n4}
NodeSymmetry == Permutations(Nodes)
=============================================================================
