--------------------------- MODULE EstatsSnapshot ---------------------------
(***************************************************************************)
(* Snapshots of a connection's statistics (snapshot.c).  A snapshot keeps  *)
(* the cid and the spec of the connection it was made for, and each take   *)
(* reads the read group of whatever connection has that cid by then.  The  *)
(* counters are read modulo Modulus, 2^32 or 2^64 in the code.             *)
(*                                                                         *)
(* The group is shorter than a stdio buffer, so one read of the kernel     *)
(* gives all of it, and the clock does not go back.  A caller's take ends  *)
(* before its next operation begins: there is one pc.  This module has the *)
(* kernel and the operations; the programs that use them have the rest.    *)
(***************************************************************************)
EXTENDS Naturals

CONSTANTS
    Cid, Conn, NoConn,
    Vars,         \* the read group has variables 1..Vars, in that order
    Modulus,
    Snap, NoSnap, \* the estats_snapshot structs, and none
    CountMax,     \* bound on how far each variable counts
    ClockMax      \* bound on the time

ASSUME SnapshotAssumption ==
    /\ NoConn \notin Conn /\ Vars \in Nat \ {0} /\ Modulus \in Nat \ {0}
    /\ CountMax \in [1..Vars -> Nat] /\ ClockMax \in Nat

Var == 1..Vars

VARIABLES
    proc,      \* the kernel: the connection of each cid, or NoConn
    ended,     \* connections that are gone
    count,     \* how far each of a connection's variables has counted
    clock,
    snap,      \* the snapshots
    pc, cur    \* the take: "idle", "opened" or "read", and its snapshot

kernel == <<proc, ended, count, clock>>
takeVars == <<snap, pc, cur>>

Zero == [v \in Var |-> 0]

\* of and at, the connection whose values a take has read and how far they had
\* counted, and good, the data and the time are of one take, are read by properties only.
SnapType ==
    [cid : Cid, spec : Conn, data : [Var -> 0..(Modulus - 1)], tv : 0..ClockMax,
     good : BOOLEAN, of : Conn \cup {NoConn}, at : [Var -> Nat]]

ASSUME NoSnapAssumption == NoSnap \notin SnapType

SnapshotInit ==
    /\ proc = [c \in Cid |-> NoConn] /\ ended = {}
    /\ count = [k \in Conn |-> Zero] /\ clock = 0
    /\ snap = [s \in Snap |-> NoSnap] /\ pc = "idle" /\ cur \in Snap

-----------------------------------------------------------------------------
(* The kernel (external) *)

KernelOpen(c, k) ==
    /\ proc[c] = NoConn /\ k \notin ended /\ \A d \in Cid : proc[d] # k
    /\ proc' = [proc EXCEPT ![c] = k]
    /\ UNCHANGED <<ended, count, clock>>

KernelClose(c) ==
    /\ proc[c] # NoConn
    /\ proc' = [proc EXCEPT ![c] = NoConn]
    /\ ended' = ended \cup {proc[c]}
    /\ UNCHANGED <<count, clock>>

KernelCount(c, v) ==
    /\ proc[c] # NoConn /\ count[proc[c]][v] < CountMax[v]
    /\ count' = [count EXCEPT ![proc[c]][v] = @ + 1]
    /\ UNCHANGED <<proc, ended, clock>>

Tick == clock < ClockMax /\ clock' = clock + 1 /\ UNCHANGED <<proc, ended, count>>

Kernel ==
    /\ \/ \E c \in Cid, k \in Conn : KernelOpen(c, k)
       \/ \E c \in Cid : KernelClose(c)
       \/ \E c \in Cid, v \in Var : KernelCount(c, v)
       \/ Tick
    /\ UNCHANGED takeVars

-----------------------------------------------------------------------------
(* estats_snapshot_alloc, _free; the result of an alloc of connection k *)

\* Mutant: the snapshot is made for another cid.
AllocatedOtherCid(c, k, t) ==
    [cid |-> IF \E d \in Cid : d # c THEN CHOOSE d \in Cid : d # c ELSE c,
     spec |-> k, data |-> Zero, tv |-> t, good |-> FALSE, of |-> NoConn, at |-> Zero]

\* The time is that of the memory, t, until the first take.
Allocated(c, k, t) ==
    [cid |-> c, spec |-> k, data |-> Zero, tv |-> t, good |-> FALSE,
     of |-> NoConn, at |-> Zero]

FreeAll == snap' = [s \in Snap |-> NoSnap]

-----------------------------------------------------------------------------
(* estats_take_snapshot *)

\* fopen of the cid's read file
TakeOpen(s) ==
    /\ pc = "idle" /\ snap[s] # NoSnap /\ proc[snap[s].cid] # NoConn
    /\ pc' = "opened" /\ cur' = s
    /\ UNCHANGED snap

\* fopen fails: the snapshot is as it was.
TakeRefused(s) == pc = "idle" /\ snap[s] # NoSnap /\ UNCHANGED takeVars

\* What the kernel gives for connection k
Reading(k) == [v \in Var |-> count[k][v] % Modulus]

TakeRead ==
    /\ pc = "opened"
    /\ LET k == proc[snap[cur].cid]
       IN  /\ k # NoConn
           /\ snap' = [snap EXCEPT ![cur].data = Reading(k), ![cur].of = k,
                                   ![cur].at = count[k], ![cur].good = FALSE]
    /\ pc' = "read" /\ UNCHANGED cur

\* fread comes up short: the data begin with what there was, the time stays.
TakeShort ==
    /\ pc = "opened"
    /\ LET k == proc[snap[cur].cid]
       IN  \E n \in 0..(Vars - 1) :
              /\ n > 0 => k # NoConn
              /\ snap' = [snap EXCEPT
                     ![cur].data = [v \in Var |-> IF v <= n THEN Reading(k)[v] ELSE @[v]],
                     ![cur].good = @ /\ n = 0]
    /\ pc' = "idle" /\ UNCHANGED cur

\* Mutant: the time is not stored.
TakeStampForgets ==
    /\ pc = "read"
    /\ snap' = [snap EXCEPT ![cur].good = TRUE]
    /\ pc' = "idle" /\ UNCHANGED cur

\* gettimeofday, fclose
TakeStamp ==
    /\ pc = "read"
    /\ snap' = [snap EXCEPT ![cur].tv = clock, ![cur].good = TRUE]
    /\ pc' = "idle" /\ UNCHANGED cur

-----------------------------------------------------------------------------
(* estats_snapshot_delta *)

\* estats_value_difference at the width of the values
Delta(s1, s2, v) == (s1.data[v] + Modulus - s2.data[v]) % Modulus

-----------------------------------------------------------------------------
(* Properties *)

SnapshotTypeOK ==
    /\ proc \in [Cid -> Conn \cup {NoConn}] /\ ended \subseteq Conn
    /\ count \in [Conn -> [Var -> Nat]] /\ clock \in 0..ClockMax
    /\ snap \in [Snap -> SnapType \cup {NoSnap}]
    /\ pc \in {"idle", "opened", "read"} /\ cur \in Snap
    /\ pc # "idle" => snap[cur] # NoSnap

Taken == {s \in Snap : snap[s] # NoSnap /\ snap[s].good}

\* The values of a snapshot are of the connection it was made for, unless that one
\* has ended and its cid was given away: snapshots know connections by cid only.
OwnWhileAlive == \A s \in Taken : snap[s].of # snap[s].spec => snap[s].spec \in ended

\* Of two snapshots of a connection the one with the later time has the later values,
\* also after takes that failed (snapshot.c:92, "for rough chronology").
Chronology ==
    \A s, t \in Taken : snap[s].of = snap[t].of /\ snap[s].tv < snap[t].tv =>
        \A v \in Var : snap[s].at[v] <= snap[t].at[v]

=============================================================================
