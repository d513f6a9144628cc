--------------------------- MODULE EstatsSockInfo ---------------------------
(***************************************************************************)
(* Which process has which connection (sockinfo.c): three lists are read   *)
(* one after the other, the agent's connections, the rows of /proc/net/tcp *)
(* and tcp6, and the sockets among the open files of every process, and    *)
(* then joined.  Connections open, close and pass between processes while  *)
(* they are read.                                                          *)
(*                                                                         *)
(* A Conn stands for one connection and for its socket's inode: inode      *)
(* numbers come from a 32-bit count and are not given away again during a  *)
(* call, but addresses are (Tuple).  The rows read with an inode of 0,     *)
(* NoConn, are of sockets that no process has any more.  uid and state of  *)
(* an item are those of its row, so the row's connection stands for them.  *)
(*                                                                         *)
(* What fails on the way to a process's sockets is not reported: the       *)
(* search goes on to the next name.  Only properties read the histories at *)
(* the end, and entry.conn.                                                *)
(***************************************************************************)
EXTENDS ConnSpec, FiniteSets, Sequences, SequencesExt

CONSTANTS
    Cid, Conn, NoConn,
    Tuple,       \* a connection's addresses and ports
    Fam,         \* its family, "v4" or "v6"
    Pid, Fd, NoPid,
    Slot,        \* the descriptors processes have: <<pid, fd>>
    CallMax,     \* bound on the calls
    IdleMax, ChangeMax,   \* bounds on what happens between calls and during a call
    FailMax      \* bound on the names at which something fails during a call

ASSUME SockInfoAssumption ==
    /\ NoConn \notin Conn /\ NoPid \notin Pid
    /\ Tuple \in [Conn -> SpecType]
    /\ Fam \in [Conn -> {"v4", "v6"}]
    /\ Slot \subseteq Pid \X Fd /\ {"none", "dir", ".", ".."} \cap Fd = {}
    /\ CallMax \in Nat /\ IdleMax \in Nat /\ ChangeMax \in Nat /\ FailMax \in Nat

VARIABLES
    cids,            \* the kernel: connection of each cid, or NoConn
    rows,            \* connections in /proc/net/tcp or tcp6
    files,           \* socket of each slot, or NoConn
    used,            \* connections there have been since the call began
    sinfo, items,    \* the estats_sockinfo, and its list
    tcp, ino, pids,  \* the three local lists
    pc,              \* "idle", the list being read, "join", or "dead"
    opened,          \* the files of rows that could be opened
    seen,            \* what the current directory or file has returned
    pid, fd,         \* process whose directory is open, and the name whose stat is to come
    st,              \* st: the socket it describes, or NoConn
    leaked,          \* FILEs and DIRs nobody has a pointer to
    err, calls,
    changes,         \* what has happened during the call, or since the last
    hadCid, held,    \* since the call began: connections of cids, sockets of processes
    stayed,          \* what was there all along: cids, rows and files
    failed           \* the names of processes' directories at which something failed

world == <<cids, rows, files, used>>
lists == <<tcp, ino, pids>>
scan == <<opened, seen, pid, fd, st>>
history == <<changes, hadCid, held, stayed, failed>>
vars == <<world, sinfo, items, lists, pc, scan, leaked, err, calls, history>>

Pairs(f) == {<<x, f[x]>> : x \in {y \in DOMAIN f : f[y] # NoConn}}
HeldOf(f) == {<<x[1][1], x[2]>> : x \in Pairs(f)}

Init ==
    /\ cids = [c \in Cid |-> NoConn] /\ rows = {}
    /\ files = [s \in Slot |-> NoConn] /\ used = {}
    /\ sinfo = "none" /\ items = <<>>
    /\ tcp = <<>> /\ ino = <<>> /\ pids = <<>>
    /\ pc = "idle" /\ opened = {} /\ seen = {}
    /\ pid = NoPid /\ fd = "none" /\ st = NoConn
    /\ leaked = 0 /\ err = "OK" /\ calls = 0
    /\ changes = 0 /\ hadCid = {} /\ held = {}
    /\ stayed = [cids |-> {}, rows |-> {}, files |-> {}] /\ failed = {}

-----------------------------------------------------------------------------
(* The kernel and the processes (external) *)

\* The connections that something is left of.
Live == (rows \cup {cids[c] : c \in Cid} \cup {files[s] : s \in Slot}) \ {NoConn}

WorldStep ==
    /\ changes < (IF pc = "idle" THEN IdleMax ELSE ChangeMax) /\ changes' = changes + 1
    /\ IF pc = "idle" THEN UNCHANGED <<hadCid, held, stayed, failed>>
       ELSE /\ hadCid' = hadCid \cup Pairs(cids')
            /\ held' = held \cup HeldOf(files')
            /\ stayed' = [cids |-> stayed.cids \cap Pairs(cids'),
                           rows |-> stayed.rows \cap rows',
                           files |-> stayed.files \cap Pairs(files')]
            /\ failed' = failed
    /\ UNCHANGED <<sinfo, items, lists, pc, scan, leaked, err, calls>>

Connect(c, k, s) ==
    /\ cids[c] = NoConn /\ files[s] = NoConn
    /\ k \notin Live /\ (pc # "idle" => k \notin used)
    /\ \A j \in rows : Tuple[j] # Tuple[k]
    /\ cids' = [cids EXCEPT ![c] = k]
    /\ rows' = rows \cup {k}
    /\ files' = [files EXCEPT ![s] = k]
    /\ used' = IF pc = "idle" THEN used ELSE used \cup {k}
    /\ WorldStep

\* The socket is passed on to another process, or duplicated.
Share(s, t) ==
    /\ files[s] # NoConn /\ files[t] = NoConn
    /\ files' = [files EXCEPT ![t] = files[s]]
    /\ UNCHANGED <<cids, rows, used>>
    /\ WorldStep

CloseFile(s) ==
    /\ files[s] # NoConn
    /\ files' = [files EXCEPT ![s] = NoConn]
    /\ UNCHANGED <<cids, rows, used>>
    /\ WorldStep

\* A connection leaves the statistics and the table of sockets in either order.
EndStats(c) ==
    /\ cids[c] # NoConn
    /\ cids' = [cids EXCEPT ![c] = NoConn]
    /\ UNCHANGED <<rows, files, used>>
    /\ WorldStep

EndRow(k) ==
    /\ k \in rows
    /\ rows' = rows \ {k}
    /\ UNCHANGED <<cids, files, used>>
    /\ WorldStep

World ==
    \/ \E c \in Cid, k \in Conn, s \in Slot : Connect(c, k, s)
    \/ \E s, t \in Slot : Share(s, t)
    \/ \E s \in Slot : CloseFile(s)
    \/ \E c \in Cid : EndStats(c)
    \/ \E k \in Conn : EndRow(k)

-----------------------------------------------------------------------------
(* estats_sockinfo_new, _free *)

New ==
    /\ pc = "idle" /\ sinfo = "none"
    /\ sinfo' = "up"
    /\ UNCHANGED <<world, items, lists, pc, scan, leaked, err, calls, history>>

FreeInfo ==
    /\ pc = "idle" /\ sinfo = "up"
    /\ sinfo' = "none" /\ items' = <<>>
    /\ UNCHANGED <<world, lists, pc, scan, leaked, err, calls, history>>

-----------------------------------------------------------------------------
(* estats_sockinfo_get_list_head.  The list is not emptied before it is    *)
(* filled.                                                                 *)

GetListHead ==
    /\ pc = "idle" /\ sinfo = "up" /\ calls < CallMax
    /\ calls' = calls + 1
    /\ pc' = "tcp" /\ seen' = {}
    /\ used' = Live
    /\ changes' = 0 /\ hadCid' = Pairs(cids) /\ held' = HeldOf(files)
    /\ stayed' = [cids |-> Pairs(cids), rows |-> rows, files |-> Pairs(files)] /\ failed' = {}
    /\ UNCHANGED <<cids, rows, files, sinfo, items, lists, opened, pid, fd, st, leaked, err>>

\* The end of the call.  Cleanup walks all three lists.
Return(e) ==
    /\ err' = e
    /\ tcp' = <<>> /\ ino' = <<>> /\ pids' = <<>>
    /\ seen' = {} /\ opened' = {} /\ pid' = NoPid /\ fd' = "none" /\ st' = NoConn
    /\ changes' = 0 /\ hadCid' = {} /\ held' = {} /\ failed' = {}
    /\ stayed' = [cids |-> {}, rows |-> {}, files |-> {}]

\* Cleanup when a list head was not initialised: it holds whatever was there,
\* perhaps an empty list's of an earlier call.
ReturnUninitialised == Return("fail") /\ pc' \in {"idle", "dead"}

\* The agent's list is an entry for each cid at some moment (EstatsAgent).
ReadConn(c) ==
    /\ pc = "tcp" /\ c \notin seen
    /\ seen' = seen \cup {c}
    /\ tcp' = IF cids[c] = NoConn THEN tcp
              ELSE Append(tcp, [cid |-> c, conn |-> cids[c], spec |-> Tuple[cids[c]]])
    /\ UNCHANGED <<world, sinfo, items, ino, pids, pc, opened, pid, fd, st, leaked, err,
                   calls, history>>

\* The agent's scan fails, or there is no memory for an entry.
TcpFails ==
    /\ pc = "tcp"
    /\ ReturnUninitialised
    /\ UNCHANGED <<world, sinfo, items, leaked, calls>>

\* Either file may be missing: its rows are then left out.  A file that would have no
\* rows makes no difference.
StartRows ==
    /\ pc = "tcp" /\ Cid \subseteq seen
    /\ opened' \in SUBSET {Fam[k] : k \in Conn}
    /\ pc' = "ino" /\ seen' = {}
    /\ UNCHANGED <<world, sinfo, items, lists, pid, fd, st, leaked, err, calls, history>>

Owned(k) == \E s \in Slot : files[s] = k

\* A row has a zero behind the address, where the kernel's record has the type.  strcmp
\* ends there at the latest, and finds an address without a zero byte unequal to its own.
RowSpec(s) == [s EXCEPT !.src[AddrLen] = 0, !.dst[AddrLen] = 0]

\* The rows of tcp come before those of tcp6.
ReadRow(k) ==
    /\ pc = "ino" /\ k \notin seen
    /\ Fam[k] = "v6" => \A j \in Conn : Fam[j] = "v4" => j \in seen
    /\ seen' = seen \cup {k}
    /\ ino' = IF k \in rows /\ Fam[k] \in opened
              THEN Append(ino, [inode |-> IF Owned(k) THEN k ELSE NoConn,
                                conn |-> k, spec |-> RowSpec(Tuple[k])])
              ELSE ino
    /\ UNCHANGED <<world, sinfo, items, tcp, pids, pc, opened, pid, fd, st, leaked, err,
                   calls, history>>

\* No memory for an entry: the files stay open, but the first if it has been read.
RowsFail ==
    /\ pc = "ino" /\ opened # {}
    /\ ReturnUninitialised
    /\ \E n \in 1..Cardinality(opened) : leaked' = leaked + n
    /\ UNCHANGED <<world, sinfo, items, calls>>

\* Mutant: the files of rows are not closed.
StartPidsKeepsFiles ==
    /\ pc = "ino" /\ Conn \subseteq seen
    /\ pc' = "pid" /\ seen' = {}
    /\ st' \in Conn \cup {NoConn}
    /\ leaked' = leaked + Cardinality(opened)
    /\ UNCHANGED <<world, sinfo, items, lists, opened, pid, fd, err, calls, history>>

\* opendir of /proc: st holds what the stack holds.
StartPids ==
    /\ pc = "ino" /\ Conn \subseteq seen
    /\ pc' = "pid" /\ seen' = {}
    /\ st' \in Conn \cup {NoConn}
    /\ UNCHANGED <<world, sinfo, items, lists, opened, pid, fd, leaked, err, calls, history>>

NoProc ==
    /\ pc = "ino" /\ Conn \subseteq seen
    /\ Return("fail") /\ pc' = "idle"
    /\ UNCHANGED <<world, sinfo, items, leaked, calls>>

\* Something fails at name f of process p, and nothing says so.
Fail(p, f) == Cardinality(failed) < FailMax /\ failed' = failed \cup {<<p, f>>}

\* Mutant: the directory's own names are passed over.
NextPidNoDots(p) ==
    /\ pc = "pid" /\ pid = NoPid /\ p \notin {n[1] : n \in seen}
    /\ seen' = seen \cup {<<p, "dir">>}
    /\ \/ Fail(p, "dir") /\ UNCHANGED pid
       \/ pid' = p /\ UNCHANGED failed
    /\ UNCHANGED <<world, sinfo, items, lists, pc, opened, fd, st, leaked, err, calls,
                   changes, hadCid, held, stayed>>

\* The fd directory of a process; if it cannot be opened it is left out.  The first
\* name in it is its own.
NextPid(p) ==
    /\ pc = "pid" /\ pid = NoPid /\ p \notin {n[1] : n \in seen}
    /\ seen' = seen \cup {<<p, "dir">>}
    /\ \/ Fail(p, "dir") /\ UNCHANGED <<pid, fd>>
       \/ pid' = p /\ fd' = "." /\ UNCHANGED failed
    /\ UNCHANGED <<world, sinfo, items, lists, pc, opened, st, leaked, err, calls,
                   changes, hadCid, held, stayed>>

\* readdir returns a descriptor.
NextFd(f) ==
    /\ pc = "pid" /\ pid # NoPid /\ fd = "none"
    /\ <<pid, f>> \in Slot \ seen /\ files[<<pid, f>>] # NoConn
    /\ fd' = f /\ seen' = seen \cup {<<pid, f>>}
    /\ UNCHANGED <<world, sinfo, items, lists, pc, opened, pid, st, leaked, err, calls, history>>

\* What the name is: . and .. are directories.
Kind == IF fd \in {".", ".."} THEN NoConn ELSE files[<<pid, fd>>]

\* Mutant: whatever stat describes is taken for a socket.
StatFdAny ==
    /\ pc = "pid" /\ fd # "none"
    /\ st' \in {Kind, st}
    /\ pids' = Append(pids, [pid |-> pid, inode |-> st'])
    /\ IF st' = Kind THEN failed' = failed ELSE Fail(pid, fd)
    /\ fd' = IF fd = "." THEN ".." ELSE "none"
    /\ UNCHANGED <<world, sinfo, items, tcp, ino, pc, opened, seen, pid, leaked, err, calls,
                   changes, hadCid, held, stayed>>

\* stat, and the status file with the process's name.  When stat fails, which is not
\* looked at, st is still that of a name before.  A socket whose process has no status
\* that can be opened and read, or no name, is left out.
StatFd ==
    /\ pc = "pid" /\ fd # "none"
    /\ st' \in {Kind, st}
    /\ \/ /\ pids' = IF st' = NoConn THEN pids ELSE Append(pids, [pid |-> pid, inode |-> st'])
          /\ IF st' = Kind THEN failed' = failed ELSE Fail(pid, fd)
       \/ /\ st' # NoConn
          /\ pids' = pids /\ Fail(pid, fd)
    /\ fd' = IF fd = "." THEN ".." ELSE "none"
    /\ UNCHANGED <<world, sinfo, items, tcp, ino, pc, opened, seen, pid, leaked, err, calls,
                   changes, hadCid, held, stayed>>

\* readdir returns NULL: every descriptor that stayed has been returned.
EndFds ==
    /\ pc = "pid" /\ pid # NoPid /\ fd = "none"
    /\ \A s \in Slot \ seen : s[1] # pid \/ files[s] = NoConn
    /\ pid' = NoPid
    /\ UNCHANGED <<world, sinfo, items, lists, pc, opened, seen, fd, st, leaked, err, calls,
                   history>>

\* No memory for an entry: the status file and the two directories stay open.
PidsFail ==
    /\ pc = "pid" /\ fd # "none" /\ (Kind # NoConn \/ st # NoConn)
    /\ Return("fail") /\ pc' = "idle"
    /\ leaked' = leaked + 3
    /\ UNCHANGED <<world, sinfo, items, calls>>

EndPids ==
    /\ pc = "pid" /\ pid = NoPid /\ \A p \in Pid : p \in {n[1] : n \in seen}
    /\ pc' = "join"
    /\ UNCHANGED <<world, sinfo, items, lists, scan, leaked, err, calls, history>>

-----------------------------------------------------------------------------
(* The join, and the list it adds to *)

Item(t, p, row) == [cid |-> t.cid, spec |-> t.spec, pid |-> p, conn |-> t.conn, row |-> row]

\* One item for each process that has the row's socket.
OwnerItems(t, r) ==
    FlattenSeq([n \in DOMAIN pids |->
        IF pids[n].inode = r.inode THEN <<Item(t, pids[n].pid, r.conn)>> ELSE <<>>])

\* Mutant: the search ends at the first process.
RowItemsFirst(t, r) ==
    IF OwnerItems(t, r) = <<>> THEN <<Item(t, NoPid, r.conn)>> ELSE <<OwnerItems(t, r)[1]>>

\* A row whose socket no process has gives an item without a process.
RowItems(t, r) ==
    IF OwnerItems(t, r) = <<>> THEN <<Item(t, NoPid, r.conn)>> ELSE OwnerItems(t, r)

\* The items of the rows that have the connection's addresses.
MatchItems(t) ==
    FlattenSeq([n \in DOMAIN ino |->
        IF SpecCompare(ino[n].spec, t.spec) THEN RowItems(t, ino[n]) ELSE <<>>])

\* Mutant: a connection without a row gets no item.
ConnItemsMatched(t) == MatchItems(t)

\* A connection without a row has vanished; it gets an item too.
ConnItems(t) ==
    IF MatchItems(t) = <<>> THEN <<Item(t, NoPid, NoConn)>> ELSE MatchItems(t)

Joined == FlattenSeq([n \in DOMAIN tcp |-> ConnItems(tcp[n])])

\* Without memory for an item the list keeps those made so far.
Join ==
    /\ pc = "join"
    /\ \E n \in 0..Len(Joined) :
          /\ items' = items \o SubSeq(Joined, 1, n)
          /\ Return(IF n = Len(Joined) THEN "OK" ELSE "fail")
    /\ pc' = "idle"
    /\ UNCHANGED <<world, sinfo, leaked, calls>>

Library ==
    \/ New \/ FreeInfo \/ GetListHead
    \/ \E c \in Cid : ReadConn(c)
    \/ TcpFails \/ StartRows
    \/ \E k \in Conn : ReadRow(k)
    \/ RowsFail \/ StartPids \/ NoProc
    \/ \E p \in Pid : NextPid(p)
    \/ \E f \in Fd : NextFd(f)
    \/ StatFd \/ EndFds \/ PidsFail \/ EndPids \/ Join

\* After the last call, and after a crash, the world stands still.
Next ==
    \/ pc # "dead" /\ (pc = "idle" => calls < CallMax) /\ World
    \/ Library

Spec == Init /\ [][Next]_vars

-----------------------------------------------------------------------------
(* Properties *)

ItemType == [cid : Cid, spec : SpecType, pid : Pid \cup {NoPid},
             conn : Conn, row : Conn \cup {NoConn}]

TypeOK ==
    /\ cids \in [Cid -> Conn \cup {NoConn}] /\ rows \subseteq Conn
    /\ files \in [Slot -> Conn \cup {NoConn}] /\ used \subseteq Conn
    /\ sinfo \in {"none", "up"} /\ items \in Seq(ItemType)
    /\ tcp \in Seq([cid : Cid, conn : Conn, spec : SpecType])
    /\ ino \in Seq([inode : Conn \cup {NoConn}, conn : Conn, spec : SpecType])
    /\ pids \in Seq([pid : Pid, inode : Conn])
    /\ pc \in {"idle", "tcp", "ino", "pid", "join", "dead"}
    /\ opened \subseteq {"v4", "v6"}
    /\ seen \subseteq Cid \cup Conn \cup Slot \cup (Pid \X {"dir"})
    /\ pid \in Pid \cup {NoPid} /\ fd \in Fd \cup {"none", ".", ".."}
    /\ st \in Conn \cup {NoConn}
    /\ leaked \in Nat /\ err \in {"OK", "fail"} /\ calls \in 0..CallMax
    /\ changes \in Nat
    /\ hadCid \subseteq Cid \X Conn /\ held \subseteq Pid \X Conn
    /\ stayed \in [cids : SUBSET (Cid \X Conn), rows : SUBSET Conn, files : SUBSET (Slot \X Conn)]
    /\ failed \subseteq Pid \X (Fd \cup {"dir", ".", ".."})

\* What a call adds is true: each item's cid was that connection's during the call,
\* and its process had, during the call, a socket with the item's addresses, although
\* the result of stat is not looked at (sockinfo.c:486).  Only a process whose directory
\* could be opened but whose . could not be looked at may be given another's socket.
ItemsTrue ==
    pc = "join" => \A it \in ToSet(Joined) :
        /\ <<it.cid, it.conn>> \in hadCid
        /\ it.pid # NoPid /\ <<it.pid, ".">> \notin failed =>
              \E k \in Conn : <<it.pid, k>> \in held /\ Tuple[k] = it.spec

\* What a call adds is complete: every connection that was there all along has an
\* item, also when it has no row (sockinfo.c:303).
ConnsListed ==
    pc = "join" => \A x \in stayed.cids :
        \E it \in ToSet(Joined) : it.cid = x[1] /\ it.conn = x[2]

\* There is one for each process that had its socket all along.  An owner is left out,
\* and the call reports nothing, only where its directory could not be opened
\* (sockinfo.c:480) or its descriptor or status not be read (:486, :491, :493, :498), where
\* the row was not read, and when the row is not found equal to the connection.
OwnersListed ==
    pc = "join" => \A x \in stayed.cids, y \in stayed.files :
        /\ x[2] = y[2] /\ y[2] \in stayed.rows /\ Fam[y[2]] \in opened
        /\ SpecCompare(RowSpec(Tuple[y[2]]), Tuple[y[2]])
        /\ <<y[1][1], "dir">> \notin failed /\ y[1] \notin failed
        => \E it \in ToSet(Joined) : it.cid = x[1] /\ it.pid = y[1][1]

\* FILEs and DIRs are lost by calls that fail only.
LeakOnlyOnError == [][leaked' > leaked => err' = "fail"]_vars

=============================================================================
