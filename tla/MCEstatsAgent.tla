--------------------------- MODULE MCEstatsAgent ---------------------------
(***************************************************************************)
(* EstatsAgent for TLC.  Addresses have three bytes; an IPv4 one is its    *)
(* first, an IPv6 one its first two, and the last says which it is.        *)
(***************************************************************************)
EXTENDS EstatsAgent, TLC

CONSTANTS c1, c2, c3, b1, b2, b3, b4

Two == {c1, c2}
Three == {c1, c2, c3}
ThreeBlocks == {b1, b2, b3}
FourBlocks == {b1, b2, b3, b4}
BlockSymmetry == Permutations(Block)

Tuple(src, dst, port) == [src |-> src, dst |-> dst, sport |-> port, dport |-> 1]

\* Connections whose addresses are equal or differ before the first zero byte.
OddV6a == Tuple(<<1, 0, 1>>, <<1, 0, 1>>, 1)
OddV6b == Tuple(<<1, 0, 1>>, <<1, 0, 1>>, 2)
OddV4 == Tuple(<<1, 0, 1>>, <<1, 0, 1>>, 1)

\* Two IPv6 connections whose remote addresses differ after a zero byte.
ZeroV6a == Tuple(<<1, 0, 1>>, <<0, 0, 1>>, 1)
ZeroV6b == Tuple(<<1, 0, 1>>, <<0, 1, 1>>, 1)

OddSpecs == {OddV6a, OddV6b}
ZeroSpecs == {ZeroV6a, ZeroV6b}
V4Specs == {OddV4}
Fam6 == [s \in Specs |-> "v6"]
Fam4 == [s \in Specs |-> "v4"]
=============================================================================
