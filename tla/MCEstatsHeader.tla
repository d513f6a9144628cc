--------------------------- MODULE MCEstatsHeader ---------------------------
(* EstatsHeader for TLC: every header of a few lines from a small set. *)
EXTENDS EstatsHeader

CONSTANT MaxLines

G(g) == [kind |-> "group", group |-> g, var |-> NoVar]
V(n, d, o, l) ==
    [kind |-> "var", group |-> "none", var |-> [name |-> n, dep |-> d, off |-> o, len |-> l]]
L(k) == [kind |-> k, group |-> "none", var |-> NoVar]

Groups == {"spec", "read", "tune"}
Names == {"a", "b", "c"}
Lines == {G(g) : g \in Groups}
         \cup {V("a", FALSE, 0, 1), V("b", FALSE, 1, 2), V("c", TRUE, 0, 2)}
         \cup {L("blank"), L("bad")}

AllHeaders == {h \in UNION {[1..n -> Lines] : n \in 0..MaxLines} : HeaderOk(h)}
=============================================================================
