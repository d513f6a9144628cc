-------------------------------- MODULE Web10G --------------------------------
(***************************************************************************)
(* The Python module Web10G (src/python) over EstatsSnapshot.  An object   *)
(* of it, a Web10Gconnection, keeps a pointer to the record that the agent *)
(* had for the connection and a snapshot that was made from the record.    *)
(* The next scan frees the records; the objects live as long as the        *)
(* program keeps them.                                                     *)
(*                                                                         *)
(* The scan is EstatsAgent's and takes effect at once here; when it fails  *)
(* the list has some of the records.  An attribute is a variable that      *)
(* connection_match asks for, an address or a port, which a connection has *)
(* for life.                                                               *)
(***************************************************************************)
EXTENDS EstatsSnapshot

CONSTANTS
    Block, Free,   \* the memory that a record takes, and memory that holds none
    NoPtr,
    Attrs,         \* connection_match compares attributes 1..Attrs, in that order
    Is,            \* the attributes of each connection
    Asked          \* the attributes asked for

Attr == 1..Attrs
Record == [cid : Cid, spec : Conn]

ASSUME Web10GAssumption ==
    /\ NoPtr \notin Block /\ Free \notin Record /\ NoSnap \notin Snap /\ Attrs \in Nat \ {0}
    /\ DOMAIN Is = Conn /\ \A k \in Conn : DOMAIN Is[k] = Attr
    /\ DOMAIN Asked = Attr

VARIABLES
    rec,      \* the heap: the record in each block
    list,     \* the blocks in the agent's list
    ptr,      \* _connection of each object; its snapshot is snap[o]
    op,       \* the call: none, all_connections, connection_match, compare, readall, dead
    todo,     \* the records still to walk over
    conns,    \* the objects made by the walk and not compared yet
    who,      \* the object that is being compared
    equal,    \* how many of its attributes have compared equal
    match,    \* the objects found
    got,      \* a history: the object of the last call if that was a read, and whose value it gave
    latest,   \* a history: the objects of the latest scan
    held      \* a history: the connections each cid has had during the call

heap == <<rec, list, ptr, latest>>
matchVars == <<conns, who, equal, match>>
webVars == <<kernel, takeVars, heap, op, todo, matchVars, got, held>>

NoRead == [obj |-> NoSnap, of |-> NoConn]
NotHeld == [c \in Cid |-> {}]

WebInit ==
    /\ SnapshotInit
    /\ rec = [b \in Block |-> Free] /\ list = {} /\ ptr = [o \in Snap |-> NoPtr]
    /\ latest = {} /\ op = "none" /\ todo = {}
    /\ conns = {} /\ who = NoSnap /\ equal = 0 /\ match = {}
    /\ got = NoRead /\ held = NotHeld

\* A call returns.
Return ==
    /\ op' = "none" /\ got' = NoRead /\ held' = NotHeld
    /\ conns' = {} /\ who' = NoSnap /\ equal' = 0 /\ match' = {}

Objects == {o \in Snap : snap[o] # NoSnap}
Open == {c \in Cid : proc[c] # NoConn}

KernelStep ==
    /\ op # "dead" /\ Kernel
    /\ held' = IF op = "none" THEN held ELSE [c \in Cid |-> held[c] \cup {proc'[c]}]
    /\ UNCHANGED <<heap, op, todo, matchVars, got>>

-----------------------------------------------------------------------------
(* all_connections, which connection_match calls too *)

\* The records of these cids, in any blocks, and nothing else in the heap.
Scanned(cids) ==
    \E f \in [cids -> Block] :
        /\ \A c, d \in cids : f[c] = f[d] => c = d
        /\ list' = {f[c] : c \in cids}
        /\ rec' = [b \in Block |-> IF b \notin list' THEN Free
                      ELSE LET c == CHOOSE c \in cids : f[c] = b
                           IN  [cid |-> c, spec |-> proc[c]]]

\* s_get_connection_head frees the records and makes new ones.  When that fails it
\* returns None, and the caller gets an empty list.
Call(call) ==
    /\ op = "none"
    /\ \/ /\ Scanned(Open)
          /\ todo' = list' /\ op' = call /\ got' = NoRead
          /\ held' = [c \in Cid |-> {proc[c]}]
          /\ UNCHANGED matchVars
       \/ (\E cids \in SUBSET Open : Scanned(cids)) /\ Return /\ UNCHANGED todo
    /\ latest' = {}
    /\ UNCHANGED <<kernel, takeVars, ptr>>

\* Mutant: the object is for the record that comes after.
WalkAhead(b, o) ==
    /\ op \in {"all_connections", "connection_match"} /\ b \in todo /\ snap[o] = NoSnap
    /\ proc[rec[b].cid] # NoConn
    /\ \E n \in list : /\ (list # {b} => n # b) /\ ptr' = [ptr EXCEPT ![o] = n]
    /\ snap' = [snap EXCEPT ![o] = Allocated(rec[b].cid, rec[b].spec, 0)]
    /\ conns' = conns \cup {o} /\ todo' = todo \ {b} /\ latest' = latest \cup {o}
    /\ UNCHANGED <<kernel, pc, cur, rec, list, op, who, equal, match, got, held>>

\* s_access finds the file of the record's cid, and an object is made for the record, with
\* a snapshot of its own.
Walk(b, o) ==
    /\ op \in {"all_connections", "connection_match"} /\ b \in todo /\ snap[o] = NoSnap
    /\ proc[rec[b].cid] # NoConn
    /\ ptr' = [ptr EXCEPT ![o] = b]
    /\ snap' = [snap EXCEPT ![o] = Allocated(rec[b].cid, rec[b].spec, 0)]
    /\ conns' = conns \cup {o} /\ todo' = todo \ {b} /\ latest' = latest \cup {o}
    /\ UNCHANGED <<kernel, pc, cur, rec, list, op, who, equal, match, got, held>>

\* s_access fails: no connection has that cid any more.
WalkOver(b) ==
    /\ op \in {"all_connections", "connection_match"} /\ b \in todo
    /\ proc[rec[b].cid] = NoConn
    /\ todo' = todo \ {b}
    /\ UNCHANGED <<kernel, takeVars, heap, op, matchVars, got, held>>

WalkEnds ==
    /\ op \in {"all_connections", "connection_match"} /\ todo = {}
    /\ IF op = "all_connections" THEN Return
       ELSE op' = "compare" /\ UNCHANGED <<matchVars, got, held>>
    /\ UNCHANGED <<kernel, takeVars, heap, todo>>

-----------------------------------------------------------------------------
(* Reads: estats_connection_read_value opens the file of the cid that it finds in the *)
(* record and reads the variable there.                                               *)

\* Whose variable a read through o may give; NoConn: it fails.  What the cid of a record
\* that was freed is by then nobody knows.
Given(o) ==
    LET r == rec[ptr[o]] IN
    {NoConn} \cup IF r = Free THEN {proc[c] : c \in Cid} ELSE {proc[r.cid]}

\* Mutant: the first attribute decides.
CompareFirst(o) ==
    /\ op = "compare" /\ o \in conns /\ who = NoSnap
    /\ \E k \in Given(o) \ {NoConn} :
          match' = IF Is[k][1] = Asked[1] THEN match \cup {o} ELSE match
    /\ conns' = conns \ {o} /\ who' = NoSnap /\ equal' = 0
    /\ UNCHANGED <<kernel, takeVars, heap, op, todo, got, held>>

\* The next attribute of an object is read and compared.  One that differs ends its turn,
\* and with the last one that is equal it is a match.
Compare(o) ==
    /\ op = "compare" /\ o \in conns /\ who \in {o, NoSnap}
    /\ \E k \in Given(o) \ {NoConn} :
          IF Is[k][equal + 1] = Asked[equal + 1] /\ equal + 1 < Attrs
          THEN who' = o /\ equal' = equal + 1 /\ UNCHANGED <<conns, match>>
          ELSE /\ match' = IF Is[k][equal + 1] = Asked[equal + 1] THEN match \cup {o} ELSE match
               /\ conns' = conns \ {o} /\ who' = NoSnap /\ equal' = 0
    /\ UNCHANGED <<kernel, takeVars, heap, op, todo, got, held>>

\* A read fails and returns None, of which Web10Gvalue makes an exception.
CompareFails(o) ==
    /\ op = "compare" /\ o \in conns /\ who \in {o, NoSnap}
    /\ Return
    /\ UNCHANGED <<kernel, takeVars, heap, todo>>

MatchEnds ==
    /\ op = "compare" /\ conns = {} /\ Return
    /\ UNCHANGED <<kernel, takeVars, heap, todo>>

\* read and read_value; they may go through the pointer of an object of an earlier scan.
Read(o) ==
    /\ op = "none" /\ o \in Objects
    /\ \/ \E k \in Given(o) : got' = [obj |-> o, of |-> k] /\ UNCHANGED op
       \/ rec[ptr[o]] = Free /\ op' = "dead" /\ got' = [obj |-> o, of |-> NoConn]
    /\ UNCHANGED <<kernel, takeVars, heap, todo, matchVars, held>>

\* Mutant: the take is of the cid that the object's pointer leads to.
ReadallByRecord(o) ==
    /\ op = "none" /\ o \in Objects /\ rec[ptr[o]] # Free /\ proc[rec[ptr[o]].cid] # NoConn
    /\ snap' = [snap EXCEPT ![o].cid = rec[ptr[o]].cid] /\ pc' = "opened" /\ cur' = o
    /\ op' = "readall" /\ got' = NoRead
    /\ UNCHANGED <<kernel, heap, todo, matchVars, held>>

\* readall takes the object's snapshot, which needs no record, and goes on to read the
\* values from it whether or not the take succeeded.
Readall(o) ==
    /\ op = "none"
    /\ \/ TakeOpen(o) /\ op' = "readall"
       \/ TakeRefused(o) /\ UNCHANGED op
    /\ got' = NoRead
    /\ UNCHANGED <<kernel, heap, todo, matchVars, held>>
ReadallReads == TakeRead /\ UNCHANGED <<kernel, heap, op, todo, matchVars, got, held>>
ReadallEnds ==
    /\ TakeShort \/ TakeStamp
    /\ op' = "none"
    /\ UNCHANGED <<kernel, heap, todo, matchVars, got, held>>

\* The program lets go of an object; ~s_snapshot frees its snapshot.
Drop(o) ==
    /\ op = "none" /\ o \in Objects
    /\ snap' = [snap EXCEPT ![o] = NoSnap] /\ ptr' = [ptr EXCEPT ![o] = NoPtr]
    /\ latest' = latest \ {o} /\ got' = NoRead
    /\ UNCHANGED <<kernel, pc, cur, rec, list, op, todo, matchVars, held>>

Python ==
    \/ \E call \in {"all_connections", "connection_match"} : Call(call)
    \/ \E b \in Block : WalkOver(b) \/ \E o \in Snap : Walk(b, o)
    \/ WalkEnds \/ MatchEnds
    \/ \E o \in Snap : Compare(o) \/ CompareFails(o) \/ Read(o) \/ Readall(o) \/ Drop(o)
    \/ ReadallReads \/ ReadallEnds

WebNext == KernelStep \/ Python

WebSpec == WebInit /\ [][WebNext]_webVars

-----------------------------------------------------------------------------
(* Properties *)

\* A read through an object of the latest scan never goes through a record that was freed,
\* and gives a value of the connection that the object is for, until that one ends.
\* (Nothing like it holds of an older object: its record is freed, or holds another
\* connection by now.)
ReadOwn ==
    got.obj \in latest =>
        /\ op # "dead"
        /\ got.of \in {NoConn, snap[got.obj].spec} \/ snap[got.obj].spec \in ended

\* connection_match reads attribute after attribute while connections come and go.  When it
\* returns a list, the objects for cids that had one connection throughout are exactly
\* those of the connections that have all that was asked for.
Fits(k) == \A a \in Attr : Is[k][a] = Asked[a]
MatchExact ==
    op = "compare" /\ conns = {} =>
        \A c \in Cid, k \in Conn : held[c] = {k} =>
            (Fits(k) <=> \E o \in match : snap[o].cid = c /\ snap[o].spec = k)
=============================================================================
