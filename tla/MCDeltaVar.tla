----------------------------- MODULE MCDeltaVar -----------------------------
(* DeltaVar for TLC. *)
EXTENDS DeltaVar, TLC

CONSTANTS s1, s2, a, b

Both == {s1, s2}
Counts == <<3, 1>>
TwoConns == {a, b}
ConnSymmetry == Permutations(TwoConns)
=============================================================================
