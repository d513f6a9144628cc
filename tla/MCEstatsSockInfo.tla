-------------------------- MODULE MCEstatsSockInfo --------------------------
(***************************************************************************)
(* EstatsSockInfo for TLC: connections a and b have the same addresses,    *)
(* one after the other; d is an IPv6 connection from an address without a  *)
(* zero byte.  One process has two descriptors, another one.               *)
(***************************************************************************)
EXTENDS EstatsSockInfo, TLC

CONSTANTS c1, a, b, d, f1, f2, f3

Addr4 == <<1, 0, 1>>
Same == [src |-> Addr4, dst |-> Addr4, sport |-> 1, dport |-> 1]
Full == [Same EXCEPT !.src = <<1, 1, 1>>, !.sport = 2]

TuplesBoth == [k \in Conn |-> IF k = d THEN Full ELSE Same]
FamBoth == [k \in Conn |-> IF k = d THEN "v6" ELSE "v4"]

\* a and b differ in nothing, nor do the two descriptors of p.
Symmetry == {p @@ q @@ (d :> d) @@ (f3 :> f3) : p \in Permutations({a, b}), q \in Permutations({f1, f2})}

Slots == {<<"p", f1>>, <<"p", f2>>, <<"q", f3>>}
=============================================================================
