----------------------------- MODULE ConnLookup -----------------------------
(***************************************************************************)
(* What a lookup of the agent promises (estats_find_connection(3)), without *)
(* the list, the heap or the directory stream.  A call takes time, and the *)
(* kernel changes the table of connections while it runs.  Its answer is   *)
(* right if it was right for each connection at some moment of the call: a *)
(* connection it finds existed and is what was asked for, and it may find  *)
(* none only if no connection that was there all along is.                 *)
(***************************************************************************)
EXTENDS ConnSpec

CONSTANTS Cid, Specs, NoSpec, NoCid, Query, NoCall

VARIABLES
    proc,    \* the kernel's table
    since,   \* what each entry has been during the call
    busy,    \* a call is in progress
    query,   \* the last call
    ans      \* and its answer

avars == <<proc, since, busy, query, ans>>

Answer(res, c, s) == [res |-> res, cid |-> c, spec |-> s]
Pending == Answer("pending", NoCid, NoSpec)
Failed == Answer("failed", NoCid, NoSpec)
NotFound == Answer("none", NoCid, NoSpec)

AInit ==
    /\ proc = [c \in Cid |-> NoSpec]
    /\ since = [c \in Cid |-> {}]
    /\ busy = FALSE /\ query = NoCall /\ ans = Pending

\* Connection s with cid c is what q asks for.
Asked(q, c, s) ==
    CASE q.fn = "head" -> TRUE
      [] q.fn = "cid" -> c = q.cid
      [] OTHER -> SpecCompare(s, q.key)

MayFind(c, s) == s \in since[c] /\ s # NoSpec /\ Asked(query, c, s)

MayFindNone ==
    \A c \in Cid : NoSpec \in since[c] \/ \E s \in since[c] : ~Asked(query, c, s)

\* The kernel opens or closes a connection.
AKernel ==
    /\ \E c \in Cid, s \in Specs \cup {NoSpec} :
          /\ proc[c] = NoSpec \/ s = NoSpec
          /\ proc' = [proc EXCEPT ![c] = s]
          /\ since' = IF busy THEN [since EXCEPT ![c] = @ \cup {s}] ELSE since
    /\ UNCHANGED <<busy, query, ans>>

AStart ==
    /\ ~busy /\ busy' = TRUE
    /\ query' \in Query
    /\ since' = [c \in Cid |-> {proc[c]}]
    /\ ans' = Pending
    /\ UNCHANGED proc

AReturn ==
    /\ busy /\ busy' = FALSE
    /\ \/ \E c \in Cid : \E s \in since[c] :
             MayFind(c, s) /\ ans' = Answer("found", c, s)
       \/ MayFindNone /\ ans' = NotFound
       \/ ans' = Failed
    /\ UNCHANGED <<proc, since, query>>

\* A call that fails before it looks.
AFail ==
    /\ ~busy
    /\ query' \in Query /\ ans' = Failed
    /\ UNCHANGED <<proc, since, busy>>

\* The agent is detached: there is no last answer.
AForget ==
    /\ ~busy
    /\ query' = NoCall /\ ans' = Pending
    /\ UNCHANGED <<proc, since, busy>>

ANext == AKernel \/ AStart \/ AReturn \/ AFail \/ AForget

ASpec == AInit /\ [][ANext]_avars
=============================================================================
