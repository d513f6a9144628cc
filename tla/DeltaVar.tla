------------------------------ MODULE DeltaVar ------------------------------
(***************************************************************************)
(* The program deltavar (util/C/deltavar.c) over EstatsSnapshot: two       *)
(* snapshots of one connection are taken, the value of a variable in the   *)
(* first is shown, and then, round after round, the snapshots change       *)
(* places, the new one is taken, and the difference is printed.  Any       *)
(* failure ends the program.                                               *)
(***************************************************************************)
EXTENDS EstatsSnapshot

CONSTANTS
    MyCid, MyVar,  \* the arguments of the program
    First, Second  \* the structs of its two snapshots

Structs == {First, Second}

ASSUME DeltaVarAssumption ==
    /\ MyCid \in Cid /\ MyVar \in Var
    /\ Structs \subseteq Snap /\ First # Second

VARIABLES
    dpc,        \* "begin", "first", "second", "round", "cleanup" or "end"
    old, new,   \* snapold, snapnew
    shown,      \* the initial value
    sum,        \* the sum of the differences printed, at the width of the values
    base        \* a history: the value that the differences begin at

programVars == <<old, new, shown, sum, base>>
deltaVars == <<kernel, takeVars, dpc, programVars>>

DeltaInit ==
    /\ SnapshotInit
    /\ dpc = "begin" /\ old = First /\ new = Second
    /\ shown = 0 /\ sum = 0 /\ base = 0

\* The lookup finds what had the cid at a moment of the call (ConnLookup), and both
\* snapshots are made for it.
Begin ==
    /\ dpc = "begin" /\ proc[MyCid] # NoConn
    /\ \E t \in [Snap -> 0..ClockMax] :
          snap' = [s \in Snap |->
                      IF s \in Structs THEN Allocated(MyCid, proc[MyCid], t[s]) ELSE NoSnap]
    /\ dpc' = "first"
    /\ UNCHANGED <<kernel, pc, cur, programVars>>

\* There is no such connection or variable, or a call fails.
BeginFails ==
    /\ dpc = "begin" /\ dpc' = "cleanup"
    /\ UNCHANGED <<kernel, takeVars, programVars>>

\* Mutant: the snapshots keep their places.
OpenNextKeepsPlaces ==
    /\ \/ dpc = "first" /\ TakeOpen(old)
       \/ dpc \in {"second", "round"} /\ TakeOpen(new)
    /\ UNCHANGED <<kernel, dpc, programVars>>

OpenNext ==
    /\ \/ dpc = "first" /\ TakeOpen(old) /\ UNCHANGED <<old, new>>
       \/ dpc = "second" /\ TakeOpen(new) /\ UNCHANGED <<old, new>>
       \/ dpc = "round" /\ TakeOpen(old) /\ old' = new /\ new' = old
    /\ UNCHANGED <<kernel, dpc, shown, sum, base>>

\* In a round the snapshots have changed places by then, to nobody's notice.
NextRefused ==
    /\ dpc \in {"first", "second", "round"}
    /\ TakeRefused(IF dpc = "second" THEN new ELSE old)
    /\ dpc' = "cleanup"
    /\ UNCHANGED <<kernel, programVars>>

ReadGroup == TakeRead /\ UNCHANGED <<kernel, dpc, programVars>>

ReadFails == TakeShort /\ dpc' = "cleanup" /\ UNCHANGED <<kernel, programVars>>

\* The take ends.  After the second the value in the first is shown; after each
\* later one the difference is printed.
Taken1 == dpc = "first" /\ dpc' = "second" /\ UNCHANGED programVars
Taken2 ==
    /\ dpc = "second" /\ dpc' = "round"
    /\ shown' = snap[old].data[MyVar] /\ base' = snap[new].data[MyVar]
    /\ UNCHANGED <<old, new, sum>>
Printed ==
    /\ dpc = "round"
    /\ sum' = (sum + Delta(snap[new], snap[old], MyVar)) % Modulus
    /\ UNCHANGED <<dpc, old, new, shown, base>>

\* The variable is none that has a difference, or a call fails.
Unprintable == dpc \in {"second", "round"} /\ dpc' = "cleanup" /\ UNCHANGED programVars

Stamp == TakeStamp /\ (Taken1 \/ Taken2 \/ Printed \/ Unprintable) /\ UNCHANGED kernel

Cleanup ==
    /\ dpc = "cleanup" /\ FreeAll /\ dpc' = "end"
    /\ UNCHANGED <<kernel, pc, cur, programVars>>

Program ==
    \/ Begin \/ BeginFails \/ OpenNext \/ NextRefused
    \/ ReadGroup \/ ReadFails \/ Stamp \/ Cleanup

DeltaNext ==
    \/ dpc # "end" /\ Kernel /\ UNCHANGED <<dpc, programVars>>
    \/ Program

DeltaSpec == DeltaInit /\ [][DeltaNext]_deltaVars

-----------------------------------------------------------------------------
(* Properties *)

DeltaTypeOK ==
    /\ SnapshotTypeOK
    /\ dpc \in {"begin", "first", "second", "round", "cleanup", "end"}
    /\ {old, new} = Structs
    /\ shown \in 0..(Modulus - 1) /\ sum \in 0..(Modulus - 1) /\ base \in 0..(Modulus - 1)

\* No increase is printed twice or left out, from the second snapshot on and over any
\* number of exchanges and wraps: the second value and the differences add up to the
\* last one.  (They do not begin at the value shown, which is of the first snapshot.)
DifferencesAddUp ==
    dpc = "round" /\ pc = "idle" => (base + sum) % Modulus = snap[new].data[MyVar]
=============================================================================
