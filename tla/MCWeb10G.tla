------------------------------- MODULE MCWeb10G -------------------------------
(* Web10G for TLC: the first attribute tells one connection apart, the second another. *)
EXTENDS Web10G, TLC

CONSTANTS c1, c2, a, b, d, o1, o2, o3, b1, b2

AskedBoth == <<1, 1>>
IsWhat == [k \in Conn |-> IF k = a THEN <<1, 1>> ELSE IF k = b THEN <<1, 2>> ELSE <<2, 1>>]
Symmetry == Permutations(Cid) \cup Permutations(Snap) \cup Permutations(Block)
NoCounts == <<0>>
=============================================================================
