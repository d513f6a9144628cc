------------------------------ MODULE ConnSpec ------------------------------
(***************************************************************************)
(* struct estats_connection_spec (types.h) and the way two of them are     *)
(* compared (connection.c).  An address is a buffer of AddrLen bytes (17   *)
(* in the code), of which an IPv4 socket fills V4Len (4) and an IPv6 one   *)
(* V6Len (16); the kernel fills all of them.  The bytes are binary, but    *)
(* the comparison is strcmp.                                               *)
(***************************************************************************)
EXTENDS Naturals

CONSTANTS AddrLen, V4Len, V6Len, Byte, Port

ASSUME ConnSpecAssumption ==
    /\ AddrLen \in Nat /\ V4Len \in Nat /\ V6Len \in Nat
    /\ 0 < V4Len /\ V4Len < V6Len /\ V6Len < AddrLen
    /\ 0 \in Byte /\ Byte \subseteq Nat

Addr == [1..AddrLen -> Byte]

SpecType == [src: Addr, dst: Addr, sport: Port, dport: Port]

\* strcmp(a, b) == 0 on two buffers: they agree up to and including a zero byte.
\* If neither has one strcmp runs on into the bytes that follow; the users of
\* this module assume that a stored address has one.
StrEq(a, b) == \E n \in 1..AddrLen : a[n] = 0 /\ \A i \in 1..n : a[i] = b[i]

Terminated(s) ==
    /\ \E n \in 1..AddrLen : s.src[n] = 0
    /\ \E n \in 1..AddrLen : s.dst[n] = 0

\* Mutant: the local ports are not compared.
SpecCompareNoPort(s1, s2) ==
    /\ s1.dport = s2.dport
    /\ StrEq(s1.dst, s2.dst)
    /\ StrEq(s1.src, s2.src)

\* estats_connection_spec_compare: the result is 0.
SpecCompare(s1, s2) ==
    /\ s1.dport = s2.dport
    /\ StrEq(s1.dst, s2.dst)
    /\ s1.sport = s2.sport
    /\ StrEq(s1.src, s2.src)

\* memcpy of the first len bytes of an address over an uninitialised buffer g.
Overlay(addr, len, g) == [i \in 1..AddrLen |-> IF i <= len THEN addr[i] ELSE g[i]]

\* What is left on the stack in the two address buffers of the local `spec` of
\* find_connection_from_socket when they are not initialised.  The first len
\* bytes are overwritten, so they are given a fixed value.
StackBytes(len) == {g \in Addr : \A i \in 1..len : g[i] = 0}

\* The spec find_connection_from_socket builds for a socket whose two ends are
\* those of s, with gs and gd the previous contents of its address buffers.
SocketSpec(s, len, gs, gd) ==
    [s EXCEPT !.src = Overlay(s.src, len, gs), !.dst = Overlay(s.dst, len, gd)]

\* The number of address bytes the socket's family copies.
FamilyLen(fam) == IF fam = "v4" THEN V4Len ELSE V6Len
=============================================================================
