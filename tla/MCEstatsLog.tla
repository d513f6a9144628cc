---------------------------- MODULE MCEstatsLog ----------------------------
(* EstatsLog for TLC. *)
EXTENDS EstatsLog

\* A layout with a gap: a variable that is not swapped, a unit that no variable has, and a number.
VarsSorted ==
    << [off |-> 0, len |-> 1, num |-> FALSE], [off |-> 2, len |-> 1, num |-> TRUE] >>
=============================================================================
