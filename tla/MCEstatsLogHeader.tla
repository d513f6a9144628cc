------------------------- MODULE MCEstatsLogHeader -------------------------
(* EstatsLogHeader for TLC: two readers, one of a longer header. *)
EXTENDS EstatsLogHeader

CONSTANTS r1, r2

Lens == [r \in Reader |-> IF r = r1 THEN 2 ELSE 3]
=============================================================================
