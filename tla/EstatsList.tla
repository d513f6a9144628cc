----------------------------- MODULE EstatsList -----------------------------
(***************************************************************************)
(* The circular doubly linked list of list-int.h, pointer by pointer, and  *)
(* the three things the library does with one: append a new node, tear the *)
(* list down with ESTATS_LIST_FOREACH_SAFE (agent, log, sockinfo), and     *)
(* walk it by the *_next functions handed to the application.  seq is a    *)
(* history variable: the nodes in the order they were appended, less those *)
(* removed.  The other modules keep seq only; this one shows that they may.*)
(*                                                                         *)
(* A walk is not interleaved with a teardown: the application has to       *)
(* finish it before the next call that refreshes the list.                 *)
(***************************************************************************)
EXTENDS Naturals, Sequences, SequencesExt

CONSTANTS Node, Anchor, Null

ASSUME ListAssumption == Anchor \notin Node /\ Null \notin Node /\ Anchor # Null

VARIABLES
    next, prev,   \* the fields of every node and of the head
    alloc,        \* the nodes malloc has given out
    pc, pos, tmp, \* the loop in progress and its variables
    visited,      \* what the walk in progress has handed out
    wild,         \* a node was read or written that is not allocated
    seq

vars == <<next, prev, alloc, pc, pos, tmp, visited, wild, seq>>

Cell == Node \cup {Anchor}

TypeOK ==
    /\ next \in [Cell -> Cell \cup {Null}]
    /\ prev \in [Cell -> Cell \cup {Null}]
    /\ alloc \subseteq Node
    /\ pc \in {"idle", "clear", "walk"}
    /\ pos \in Cell \cup {Null} /\ tmp \in Cell \cup {Null}
    /\ visited \in Seq(Node)
    /\ wild \in BOOLEAN
    /\ seq \in Seq(Node)

\* _estats_list_init
Init ==
    /\ next = [c \in Cell |-> IF c = Anchor THEN Anchor ELSE Null]
    /\ prev = [c \in Cell |-> IF c = Anchor THEN Anchor ELSE Null]
    /\ alloc = {}
    /\ pc = "idle" /\ pos = Null /\ tmp = Null
    /\ visited = <<>>
    /\ wild = FALSE
    /\ seq = <<>>

\* The cells a step may read and write when a is allocated.
Live(a) == a \cup {Anchor}

-----------------------------------------------------------------------------
(* Appending *)

\* Mutant: the new node is linked after the head's successor is overwritten.
Add2Swapped(new, p, n) ==
    /\ prev' = [prev EXCEPT ![n] = new, ![new] = p]
    /\ next' = [next EXCEPT ![p] = new, ![new] = new]

\* _estats_list_add2(new, p, n)
Add2(new, p, n) ==
    /\ prev' = [prev EXCEPT ![n] = new, ![new] = p]
    /\ next' = [next EXCEPT ![new] = n, ![p] = new]

\* Mutant: inserted at the front (_estats_list_add).
AppendAtFront(new) ==
    /\ pc = "idle" /\ new \notin alloc
    /\ alloc' = alloc \cup {new}
    /\ Add2(new, Anchor, next[Anchor])
    /\ wild' = (wild \/ next[Anchor] \notin Live(alloc))
    /\ seq' = Append(seq, new)
    /\ UNCHANGED <<pc, pos, tmp, visited>>

\* malloc, then _estats_list_add_tail(new, head)
AppendNode(new) ==
    /\ pc = "idle" /\ new \notin alloc
    /\ alloc' = alloc \cup {new}
    /\ Add2(new, prev[Anchor], Anchor)
    /\ wild' = (wild \/ prev[Anchor] \notin Live(alloc))
    /\ seq' = Append(seq, new)
    /\ UNCHANGED <<pc, pos, tmp, visited>>

-----------------------------------------------------------------------------
(* ESTATS_LIST_FOREACH_SAFE(pos, tmp, head) { del(pos); free(pos); }       *)

StartClear ==
    /\ pc = "idle" /\ pc' = "clear"
    /\ pos' = next[Anchor]
    /\ tmp' = next[next[Anchor]]
    /\ wild' = (wild \/ next[Anchor] \notin Live(alloc))
    /\ UNCHANGED <<next, prev, alloc, visited, seq>>

\* Mutants: freed, then unlinked; the plain FOREACH, which reads the successor
\* from the node just freed.
ClearNodeFreesFirst ==
    /\ pc = "clear" /\ pos # Anchor
    /\ alloc' = alloc \ {pos}
    /\ next' = [next EXCEPT ![prev[pos]] = next[pos], ![pos] = Null]
    /\ prev' = [prev EXCEPT ![next[pos]] = prev[pos], ![pos] = Null]
    /\ pos' = tmp /\ tmp' = next'[tmp]
    /\ wild' = (wild \/ {pos, prev[pos], next[pos], tmp} \ Live(alloc \ {pos}) # {})
    /\ seq' = Tail(seq)
    /\ UNCHANGED <<pc, visited>>
ClearNodeUnsafe ==
    /\ pc = "clear" /\ pos # Anchor
    /\ alloc' = alloc \ {pos}
    /\ next' = [next EXCEPT ![prev[pos]] = next[pos], ![pos] = pos]
    /\ prev' = [prev EXCEPT ![next[pos]] = prev[pos], ![pos] = Null]
    /\ pos' = next'[pos] /\ UNCHANGED tmp
    /\ UNCHANGED wild
    /\ seq' = IF seq = <<>> THEN seq ELSE Tail(seq)
    /\ UNCHANGED <<pc, visited>>

\* _estats_list_del(pos), free(pos), pos = tmp, tmp = pos->next
ClearNode ==
    /\ pc = "clear" /\ pos # Anchor
    /\ alloc' = alloc \ {pos}
    /\ next' = [next EXCEPT ![prev[pos]] = next[pos], ![pos] = Null]
    /\ prev' = [prev EXCEPT ![next[pos]] = prev[pos], ![pos] = Null]
    /\ pos' = tmp /\ tmp' = next'[tmp]
    /\ wild' = (wild \/ {pos, prev[pos], next[pos]} \ Live(alloc) # {}
                     \/ tmp \notin Live(alloc \ {pos}))
    /\ seq' = Tail(seq)
    /\ UNCHANGED <<pc, visited>>

EndClear ==
    /\ pc = "clear" /\ pos = Anchor
    /\ pc' = "idle" /\ pos' = Null /\ tmp' = Null
    /\ UNCHANGED <<next, prev, alloc, visited, wild, seq>>

-----------------------------------------------------------------------------
(* get_*_head, then *_next until NULL *)

\* The application's pointer for cell c: NULL for the head.
Handed(c) == IF c = Anchor THEN Null ELSE c

StartWalk ==
    /\ pc = "idle" /\ pc' = "walk"
    /\ pos' = Handed(next[Anchor])
    /\ visited' = <<>>
    /\ UNCHANGED <<next, prev, alloc, tmp, wild, seq>>

WalkNext ==
    /\ pc = "walk" /\ pos # Null
    /\ visited' = Append(visited, pos)
    /\ pos' = Handed(next[pos])
    /\ wild' = (wild \/ pos \notin alloc)
    /\ UNCHANGED <<next, prev, alloc, pc, tmp, seq>>

EndWalk ==
    /\ pc = "walk" /\ pos = Null
    /\ pc' = "idle" /\ visited' = <<>>
    /\ UNCHANGED <<next, prev, alloc, pos, tmp, wild, seq>>

-----------------------------------------------------------------------------

Loop == ClearNode \/ EndClear \/ WalkNext \/ EndWalk

Next == (\E new \in Node : AppendNode(new)) \/ StartClear \/ StartWalk \/ Loop

Spec == Init /\ [][Next]_vars

\* The thread runs on: a loop in progress takes its next turn.
FairSpec == Spec /\ WF_vars(Loop)

-----------------------------------------------------------------------------
(* Properties *)

\* The i-th cell of the ring: the head, then seq, then the head again.
Ring(i) == IF i \in 1..Len(seq) THEN seq[i] ELSE Anchor

\* The pointers are seq: forwards and backwards, through the head, and the nodes
\* of the ring are the allocated ones, none of them twice.
RingMatches ==
    /\ \A i \in 0..Len(seq) : next[Ring(i)] = Ring(i + 1) /\ prev[Ring(i + 1)] = Ring(i)
    /\ \A i, j \in 1..Len(seq) : seq[i] = seq[j] => i = j
    /\ alloc = ToSet(seq)

\* No link, unlink, teardown or walk ever touches a node that is not allocated:
\* the teardown reads the successor before it frees ("Must be before free!").
NoWildAccess == ~wild

\* A walk hands out the nodes in the order they were appended, and when it gets
\* NULL it has had all of them.
WalkInOrder ==
    pc = "walk" =>
        /\ Len(visited) <= Len(seq)
        /\ \A i \in 1..Len(visited) : visited[i] = seq[i]
        /\ pos = Null => visited = seq

\* Every loop over the list ends.
LoopEnds == pc # "idle" ~> pc = "idle"
=============================================================================
