---------------------------- MODULE EstatsAgent ----------------------------
(***************************************************************************)
(* The local agent (agent.c): attaching and detaching, the scan of the     *)
(* connection directory that every lookup starts with, and the four        *)
(* lookups.  One thread uses the agent; the kernel (ProcFs) moves between  *)
(* any two of its system calls.                                            *)
(*                                                                         *)
(* A readdir and the fopen that follows it are one step: whatever happens  *)
(* between the two can as well happen before both, because a name that may *)
(* be returned stays so until it is.  The fread is a step of its own.      *)
(***************************************************************************)
EXTENDS ProcFs, ConnSpec, Sequences, SequencesExt

CONSTANTS NoCid, Block, Null, Fam, FdMax

ASSUME AgentAssumption ==
    /\ NoCid \notin Cid /\ Null \notin Block
    /\ Specs \subseteq SpecType /\ Fam \in [Specs -> {"v4", "v6"}]
    /\ \A s \in Specs : Terminated(s)
    /\ FdMax \in Nat

VARIABLES
    agent,   \* "none", "up", or "novars": its spec group lacks an address
    kind,    \* what malloc has given each block for
    rec,     \* the estats_connection in a block
    list,    \* connection_list_head
    leaked,  \* FILEs nobody has a pointer to
    pc, op,  \* where the thread is in which call
    cur, cp, \* locals of refresh_connections: entry being read, its record
    conn,    \* the application's estats_connection*, passed as &conn
    err      \* what the last call returned ("OK" is NULL)

heapVars == <<kind, rec, leaked>>
callVars == <<pc, op, cur, cp, conn, err>>
vars == <<procVars, agent, heapVars, list, callVars>>

NoKey == [src |-> <<>>, dst |-> <<>>, sport |-> 0, dport |-> 0]
NoRec == [cid |-> NoCid, spec |-> NoSpec]
Call(fn, c, key, sock) == [fn |-> fn, cid |-> c, key |-> key, sock |-> sock]
NoCall == Call("none", NoCid, NoKey, NoSpec)
Fails == {"LIBC", "EOF", "NOVAR", "SOCK"}

\* File descriptors in use: the limit is FdMax.
OpenFiles == leaked + (IF dirOpen THEN 1 ELSE 0) + (IF pc = "opened" THEN 1 ELSE 0)

FreeBlocks == {b \in Block : kind[b] = "free"}

TypeOK ==
    /\ ProcTypeOK
    /\ agent \in {"none", "up", "novars"}
    /\ kind \in [Block -> {"free", "conn", "buf"}]
    /\ rec \in [Block -> [cid: Cid \cup {NoCid}, spec: Specs \cup {NoSpec}]]
    /\ list \in Seq(Block)
    /\ leaked \in Nat
    /\ pc \in {"idle", "scan", "opened"}
    /\ op \in [fn: {"none", "head", "cid", "spec", "socket"}, cid: Cid \cup {NoCid},
               key: SpecType \cup {NoKey}, sock: Specs \cup {NoSpec}]
    /\ cur \in Cid \cup {NoCid}
    /\ cp \in Block \cup {Null}
    /\ conn \in Block \cup {Null}
    /\ err \in {"OK", "NOCONNECTION"} \cup Fails

Init ==
    /\ ProcInit
    /\ agent = "none"
    /\ kind = [b \in Block |-> "free"]
    /\ rec = [b \in Block |-> NoRec]
    /\ list = <<>>
    /\ leaked = 0
    /\ pc = "idle" /\ op = NoCall
    /\ cur = NoCid /\ cp = Null
    /\ conn = Null /\ err = "OK"

-----------------------------------------------------------------------------
(* Attach and detach *)

\* free() of the blocks in S
FreeAll(S) ==
    /\ kind' = [b \in Block |-> IF b \in S THEN "free" ELSE kind[b]]
    /\ rec' = [b \in Block |-> IF b \in S THEN NoRec ELSE rec[b]]

Attach ==
    /\ pc = "idle" /\ agent = "none"
    /\ OpenFiles < FdMax
    /\ agent' \in {"up", "novars"}
    /\ err' = "OK"
    /\ UNCHANGED <<procVars, heapVars, list, pc, op, cur, cp, conn>>

AttachFails ==
    /\ pc = "idle" /\ agent = "none"
    /\ err' = "LIBC"
    /\ UNCHANGED <<procVars, agent, heapVars, list, pc, op, cur, cp, conn>>

Detach ==
    /\ pc = "idle" /\ agent # "none"
    /\ FreeAll(ToSet(list))
    /\ list' = <<>>
    /\ agent' = "none"
    /\ op' = NoCall
    /\ UNCHANGED <<procVars, leaked, pc, cur, cp, conn, err>>

-----------------------------------------------------------------------------
(* The start of a lookup: *conn is set to out, the old list is freed and   *)
(* the directory opened, or the call returns because it cannot be.         *)

StartLookup(call, out) ==
    /\ pc = "idle" /\ agent # "none"
    /\ op' = call
    /\ conn' = out
    /\ FreeAll(ToSet(list))
    /\ list' = <<>>
    /\ \/ OpenFiles < FdMax /\ OpenDir /\ pc' = "scan" /\ err' = "OK"
       \/ UNCHANGED <<procVars, pc>> /\ err' = "LIBC"
    /\ UNCHANGED <<agent, leaked, cur, cp>>

GetHead == StartLookup(Call("head", NoCid, NoKey, NoSpec), conn)

\* Mutants: *conn is not reset; a record of the last scan is taken.
FindFromCidKeepsConn(c) == StartLookup(Call("cid", c, NoKey, NoSpec), conn)
FindFromCidCached(c) ==
    \/ StartLookup(Call("cid", c, NoKey, NoSpec), Null)
    \/ /\ pc = "idle" /\ agent # "none"
       /\ op' = Call("cid", c, NoKey, NoSpec)
       /\ \E i \in DOMAIN list : rec[list[i]].cid = c /\ conn' = list[i]
       /\ err' = "OK"
       /\ UNCHANGED <<procVars, agent, heapVars, list, pc, cur, cp>>

FindFromCid(c) == StartLookup(Call("cid", c, NoKey, NoSpec), Null)

FindFromSpec(key) == StartLookup(Call("spec", NoCid, key, NoSpec), Null)

\* The socket is an end of connection s; the addresses the spec is built in
\* hold gs and gd.
FindFromSocket(s) ==
    \E gs, gd \in StackBytes(FamilyLen(Fam[s])) :
        StartLookup(Call("socket", NoCid, SocketSpec(s, FamilyLen(Fam[s]), gs, gd), s), Null)

\* getpeername or getsockname fails, or the family is neither: the list is
\* kept and *conn not written.
SocketRefused(s) ==
    /\ pc = "idle" /\ agent # "none"
    /\ op' = Call("socket", NoCid, NoKey, s)
    /\ err' \in {"LIBC", "SOCK"}
    /\ UNCHANGED <<procVars, agent, heapVars, list, pc, cur, cp, conn>>

-----------------------------------------------------------------------------
(* _estats_agent_refresh_connections, one directory entry at a time *)

\* Cleanup after an error: the record being filled is freed, the directory
\* closed; the list keeps what it has.
Abort(e) ==
    /\ dirOpen' = FALSE
    /\ pc' = "idle" /\ err' = e
    /\ cur' = NoCid /\ cp' = Null
    /\ UNCHANGED <<proc, since, agent, list, op, conn>>

ReadPlain(n) ==
    /\ pc = "scan"
    /\ NextName(n)
    /\ UNCHANGED <<agent, heapVars, list, callVars>>

ReadCid(c) ==
    /\ pc = "scan"
    /\ proc[c] # NoSpec /\ OpenFiles < FdMax
    /\ NextName(c)
    /\ \E b \in FreeBlocks :
          /\ kind' = [kind EXCEPT ![b] = "conn"]
          /\ rec' = [rec EXCEPT ![b].cid = c]
          /\ cp' = b
    /\ cur' = c
    /\ pc' = "opened"
    /\ UNCHANGED <<agent, leaked, list, op, conn, err>>

\* Mutants: an entry that cannot be opened is skipped; it is tried again.
ReadCidFailsSkips(c) ==
    /\ pc = "scan"
    /\ NextName(c)
    /\ UNCHANGED <<agent, heapVars, list, callVars>>
ReadCidFailsRetries(c) ==
    /\ pc = "scan"
    /\ Readable(c)
    /\ UNCHANGED vars

\* malloc or fopen fails (the connection is gone, no descriptor left, ...).
ReadCidFails(c) ==
    /\ pc = "scan"
    /\ Readable(c)
    /\ seen' = seen \cup {c}
    /\ Abort("LIBC")
    /\ UNCHANGED heapVars

\* Mutant: the FILE is not closed.
ReadSpecKeepsFile ==
    /\ pc = "opened" /\ agent = "up"
    /\ proc[cur] # NoSpec /\ FreeBlocks # {}
    /\ rec' = [rec EXCEPT ![cp].spec = proc[cur]]
    /\ list' = Append(list, cp)
    /\ cp' = Null /\ cur' = NoCid
    /\ pc' = "scan" /\ leaked' = leaked + 1
    /\ UNCHANGED <<procVars, agent, kind, op, conn, err>>
\* The read buffer is allocated and freed again: it needs a free block.
ReadSpec ==
    /\ pc = "opened" /\ agent = "up"
    /\ proc[cur] # NoSpec /\ FreeBlocks # {}
    /\ rec' = [rec EXCEPT ![cp].spec = proc[cur]]
    /\ list' = Append(list, cp)
    /\ cp' = Null /\ cur' = NoCid
    /\ pc' = "scan"
    /\ UNCHANGED <<procVars, agent, kind, leaked, op, conn, err>>

\* Mutant: the record being filled is not freed.
NoBufferKeepsRecord ==
    /\ pc = "opened"
    /\ UNCHANGED <<kind, rec, seen>>
    /\ leaked' = leaked + 1
    /\ Abort("LIBC")

\* Errors after the fopen: cp is freed, the FILE is not, nor is the buffer
\* once it is allocated.
NoBuffer ==
    /\ pc = "opened"
    /\ FreeAll({cp})
    /\ leaked' = leaked + 1
    /\ Abort("LIBC")
    /\ UNCHANGED seen

ReadSpecFails ==
    /\ pc = "opened"
    /\ \E b \in FreeBlocks :
          /\ kind' = [kind EXCEPT ![cp] = "free", ![b] = "buf"]
          /\ rec' = [rec EXCEPT ![cp] = NoRec]
    /\ leaked' = leaked + 1
    /\ \/ Abort("EOF") \/ Abort("LIBC")
       \/ agent = "novars" /\ proc[cur] # NoSpec /\ Abort("NOVAR")
    /\ UNCHANGED seen

-----------------------------------------------------------------------------
(* The end of the scan: the first record of the list that the call asks    *)
(* for is its answer.                                                      *)

Matches(b) ==
    CASE op.fn = "head" -> TRUE
      [] op.fn = "cid" -> rec[b].cid = op.cid
      [] OTHER -> SpecCompare(rec[b].spec, op.key)

IsFirst(i) == Matches(list[i]) /\ \A j \in 1..(i - 1) : ~Matches(list[j])

EndScan ==
    /\ pc = "scan" /\ AtEnd
    /\ CloseDir
    /\ pc' = "idle"
    /\ \/ \E i \in DOMAIN list : IsFirst(i) /\ conn' = list[i] /\ err' = "OK"
       \/ /\ \A i \in DOMAIN list : ~Matches(list[i])
          /\ conn' = IF op.fn = "head" THEN Null ELSE conn
          /\ err' = IF op.fn = "head" \/ conn # Null THEN "OK" ELSE "NOCONNECTION"
    /\ UNCHANGED <<agent, heapVars, list, op, cur, cp>>

-----------------------------------------------------------------------------

Kernel ==
    /\ \E c \in Cid : KClose(c) \/ \E s \in Specs : KOpen(c, s)
    /\ UNCHANGED <<agent, heapVars, list, callVars>>

Application ==
    \/ Attach \/ AttachFails \/ Detach
    \/ GetHead
    \/ \E c \in Cid : FindFromCid(c)
    \/ \E s \in Specs : FindFromSpec(s) \/ FindFromSocket(s) \/ SocketRefused(s)

Scan ==
    \/ \E n \in Plain : ReadPlain(n)
    \/ \E c \in Cid : ReadCid(c) \/ ReadCidFails(c)
    \/ ReadSpec \/ NoBuffer \/ ReadSpecFails
    \/ EndScan

Next == Kernel \/ Application \/ Scan

Spec == Init /\ [][Next]_vars

\* The thread runs on: a call in progress takes its next step.
FairSpec == Spec /\ WF_vars(Scan)

-----------------------------------------------------------------------------
(* Properties *)

\* The last call has returned, and the agent is still attached.
Answered == pc = "idle" /\ op.fn # "none"
Succeeded == Answered /\ err \notin Fails

\* Every estats_connection that is allocated is in the list exactly once or is
\* the one being filled, and a read buffer that is still allocated between two
\* steps went together with a FILE that was never closed: refresh, its error
\* paths and detach neither free a record twice nor lose one.
HeapMatchesList ==
    /\ IsInjective(list)
    /\ {b \in Block : kind[b] = "conn"} = ToSet(list) \cup ({cp} \ {Null})
    /\ cp \notin ToSet(list)
    /\ Cardinality({b \in Block : kind[b] = "buf"}) <= leaked

\* refresh_connections reads the table while the kernel changes it; still each
\* record of the list is a connection that had that cid during the scan, and no
\* two records have the same cid.
ScanRecords ==
    /\ \A i \in DOMAIN list : /\ rec[list[i]].cid \in Cid
                              /\ rec[list[i]].spec \in since[rec[list[i]].cid] \ {NoSpec}
    /\ \A i, j \in DOMAIN list : rec[list[i]].cid = rec[list[j]].cid => i = j

\* After a call that succeeded, or that found no connection, the list has every
\* connection that was there from opendir to closedir.
ScanComplete ==
    Succeeded =>
        \A c \in Cid : Stable(c) => \E i \in DOMAIN list : rec[list[i]].cid = c

\* A call that returns no error leaves in *conn NULL or a record of the current
\* list, never one that the refresh has freed, also when the pointer came in
\* from an earlier call.
ConnUsable == Succeeded /\ err = "OK" /\ conn # Null => conn \in ToSet(list)

\* A descriptor is lost only by a call that reports an error: programs that poll
\* for hours run out of descriptors no faster than they see errors.
LeakOnlyOnError == [][leaked' # leaked => err' \in Fails]_vars

\* What holds between two steps of a scan, and why the answers are right: the
\* directory is open just as long as a call runs, the entry being read is not
\* recorded yet, what is recorded has been returned by readdir, and every entry
\* that was there all along and has been returned is recorded, save the one
\* being read.  At rest nothing is open and no record is half filled.
ScanInv ==
    /\ agent = "none" => op.fn = "none"
    /\ dirOpen <=> pc # "idle"
    /\ pc = "opened" <=> cp # Null
    /\ pc = "opened" <=> cur # NoCid
    /\ pc = "opened" =>
          /\ rec[cp].cid = cur /\ cur \in seen
          /\ \A i \in DOMAIN list : rec[list[i]].cid # cur
    /\ pc # "idle" => err = "OK" /\ op.fn # "none" /\ (op.fn # "head" => conn = Null)
    /\ dirOpen =>
          /\ \A c \in Cid : proc[c] \in since[c]
          /\ \A i \in DOMAIN list : rec[list[i]].cid \in seen
          /\ \A c \in Cid : c \in seen /\ c # cur /\ Stable(c) =>
                \E i \in DOMAIN list : rec[list[i]].cid = c

\* However connections come and go under the scan, a call returns.
CallReturns == pc # "idle" ~> pc = "idle"

\* A lookup by spec answers with a connection that has all the
\* addresses and ports asked for, with the one that had them all along if there
\* is one, and misses none that was there all along.
FindsKey(key) ==
    LET there == {c \in Cid : since[c] = {key}} IN
    IF err = "OK"
    THEN rec[conn].spec = key /\ \A c \in there : rec[conn].cid = c
    ELSE there = {}

SpecFindsOwn == Succeeded /\ op.fn = "spec" => FindsKey(op.key)

-----------------------------------------------------------------------------
(* The lookups as ConnLookup has them *)

LookupAnswer ==
    CASE ~Answered -> [res |-> "pending", cid |-> NoCid, spec |-> NoSpec]
      [] Answered /\ err \in Fails -> [res |-> "failed", cid |-> NoCid, spec |-> NoSpec]
      [] Answered /\ err = "OK" /\ conn # Null ->
            [res |-> "found", cid |-> rec[conn].cid, spec |-> rec[conn].spec]
      [] OTHER -> [res |-> "none", cid |-> NoCid, spec |-> NoSpec]

Lookup == INSTANCE ConnLookup WITH
    busy <- pc # "idle", query <- op, ans <- LookupAnswer,
    Query <- [fn: {"head", "cid", "spec", "socket"}, cid: Cid \cup {NoCid},
              key: SpecType \cup {NoKey}, sock: Specs \cup {NoSpec}]

\* Every lookup implements ConnLookup: its answer was right for each connection
\* at some moment of the call, whatever the kernel did meanwhile.
ImplementsLookup == Lookup!ASpec
=============================================================================
