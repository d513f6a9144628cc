------------------------------- MODULE ProcFs -------------------------------
(***************************************************************************)
(* The data source of the local agent, as lib/estats uses it: a directory  *)
(* with one entry per TCP connection, named by its cid, beside files that  *)
(* are no connections (`header').  The kernel opens and closes connections *)
(* at any time, also while the library reads the directory, and a cid may  *)
(* be given to another connection.  This module is external code.          *)
(*                                                                         *)
(* proc[c] is the connection with cid c, or NoSpec.  seen is what the open *)
(* directory stream has returned, and since[c] the values proc[c] has had  *)
(* from opendir to closedir: a history, read by no action of the library.  *)
(***************************************************************************)
EXTENDS Naturals, FiniteSets

CONSTANTS Cid, Plain, Specs, NoSpec

ASSUME ProcFsAssumption == Cid \cap Plain = {} /\ NoSpec \notin Specs

VARIABLES proc, dirOpen, seen, since

procVars == <<proc, dirOpen, seen, since>>

ProcTypeOK ==
    /\ proc \in [Cid -> Specs \cup {NoSpec}]
    /\ dirOpen \in BOOLEAN
    /\ seen \subseteq Cid \cup Plain
    /\ since \in [Cid -> SUBSET (Specs \cup {NoSpec})]

ProcInit ==
    /\ proc = [c \in Cid |-> NoSpec]
    /\ dirOpen = FALSE
    /\ seen = {}
    /\ since = [c \in Cid |-> {}]

\* The kernel gives cid c to the connection s (NoSpec: c's connection ends).
KSet(c, s) ==
    /\ proc' = [proc EXCEPT ![c] = s]
    /\ since' = IF dirOpen THEN [since EXCEPT ![c] = @ \cup {s}] ELSE since
    /\ UNCHANGED <<dirOpen, seen>>

KOpen(c, s) ==
    /\ proc[c] = NoSpec
    /\ \A d \in Cid : proc[d] # s
    /\ KSet(c, s)

KClose(c) ==
    /\ proc[c] # NoSpec
    /\ KSet(c, NoSpec)

\* opendir
OpenDir ==
    /\ dirOpen' = TRUE
    /\ seen' = {}
    /\ since' = [c \in Cid |-> {proc[c]}]
    /\ UNCHANGED proc

\* One entry was there all along.
Stable(c) == NoSpec \notin since[c]

\* readdir may return name n: it has not been returned, and it has been there.
Readable(n) ==
    /\ n \notin seen
    /\ n \in Cid => since[n] # {NoSpec}

NextName(n) ==
    /\ Readable(n)
    /\ seen' = seen \cup {n}
    /\ UNCHANGED <<proc, dirOpen, since>>

\* readdir may return NULL: nothing that was there all along is left.
AtEnd ==
    /\ Plain \subseteq seen
    /\ \A c \in Cid : Stable(c) => c \in seen

\* closedir
CloseDir ==
    /\ dirOpen' = FALSE
    /\ UNCHANGED <<proc, seen, since>>
=============================================================================
