# A TLA+ verification of estats-userland

estats-userland is a C library (`src/lib/estats`), a set of command line tools
(`src/util/C`) and Python bindings (`src/python`) over the Web10G kernel
instrumentation of TCP: for each connection, a directory named by a connection
id (cid) holds the connection's addresses (`spec`) and its statistics (`read`),
and a text file `header` says which variable is where. The library is
single-threaded. What makes it hard is what happens around it: the kernel opens
and closes connections between any two system calls and gives cids away again,
every call can fail half way, records are freed under the application, and a
log file is shared between a process that writes it and one that reads it.

Paths below are relative to `src/lib/estats` unless they start with `src/`.

## 1. Inventory

| Component | State | Operations | Interacts with | What makes it correct |
|---|---|---|---|---|
| Agent (`agent.c`) | the connection list, the `spec` and `read` groups | attach, detach, refresh, lookup by cid / spec / socket, head of the list, variable lookups | kernel directory; hands out pointers into its list; group, list, error | each record allocated once and freed once; answers that were true during the call; nothing dangling in the answer; calls end; nothing left after detach |
| Connections (`connection.c`, `types.h`) | cid, spec, address type, link to the agent | next, getters, spec comparison, read and write one value | agent, group, value, /proc | the comparison tells two connections apart; the walk meets each once |
| Kernel table (external) | cid -> connection | open, close, reuse of a cid; readdir is not atomic | agent, snapshot | (environment) |
| Intrusive list (`list-int.h`) | next and prev of each node | init, add_tail, del, safe and plain loops | agent, group, log, sockinfo | the ring is the sequence of its nodes; nothing freed is touched |
| Header parser, groups, variables (`agent.c`, `group.c`, `var.c`) | groups with their variables and size | parse, find by name, head and next that skip deprecated ones | agent, log (its own parser) | size covers each variable; both parsers agree |
| Snapshot (`snapshot.c`) | data, timestamp, cid, spec, group | alloc, take, read a value, difference, free | kernel, agent, value, log | the values are of the connection it was made for; data and timestamp belong together |
| Value (`value.c`) | a tagged union | make, convert, compare, difference, print | connection, snapshot, log | no conversion changes the value; a difference is right over a wrap |
| Log (`log.c`) | FILE, mode, byte order, entry size, entries, variables | open r/w, write entry, close, read one or all entries, values, timestamps | the file; `./log_header`; stdio; snapshot | a reader accepts only whole logs, and gets from them what was written |
| Checksum (`log.c:443`) | - | calculate, write, check | log | its own sum validates a file; a changed byte does not |
| Temporary header file (`log.c:365-396`) | the file `./log_header`, one for all readers in a directory | make, fill, parse, close, remove | log, other readers' processes | a reader parses the header of its own log; nothing is left behind by a reader that lives and can remove it |
| Socket information (`sockinfo.c`) | a list of items | refresh (join of connections, inodes, processes), next, free | agent, `/proc/net/tcp`, `/proc/<pid>/fd` | each connection once, with the process that has it |
| Errors, wrappers (`error.c`, `libcwrap-int.c`) | error structs | create, free; Fopen, Fread, Malloc, ... | all | every failure reaches the caller |
| Tools (`src/util/C`) | the application's pointers | loops of library calls | library | differences that add up; no use of a pointer after the refresh that freed it |
| Python (`src/python`) | objects that keep a record's address and a snapshot | scan, match, read, take | agent, snapshot, connection | an object reads its own connection; a match is of one connection |

The hard behaviours, with the lines where they bite, are the `hazards` of
PROJECT.json; each names the properties that watch it or says why none does.

## 2. Modules

### ConnSpec
`struct estats_connection_spec` (`types.h:98-103`) and its comparison
(`connection.c:215-236`). Addresses are buffers of binary bytes, but compared
with `strcmp`; `StrEq` is that: equal up to and including a zero byte.
`SocketSpec` is the spec that `agent.c:294-350` builds on the stack for a
socket: the bytes the address family does not fill keep what was there, an
arbitrary choice in the model (`StackBytes`). Address lengths are constants (17,
4 and 16 in the code; 3, 1 and 2 in the runs).

### ProcFs (external)
The kernel's table of connections and the directory stream over it, as the
library uses them. `readdir` returns each name at most once; a name that was
there from opendir to closedir is returned; one that came or went in between may
or may not be. `since` is a history variable, what each cid has been during the
scan, that only the properties read.

### EstatsAgent
One thread that uses one agent. The correspondence with `agent.c`:

| Variable | In the code |
|---|---|
| `agent` | the `estats_agent`; `novars`: its spec group lacks a variable the scan asks for |
| `kind`, `rec` | the heap: what each block was allocated for, the record in it |
| `list` | `connection_list_head` (EstatsList shows that a sequence is what the pointers are) |
| `leaked` | FILEs that nobody has a pointer to any more |
| `pc`, `op`, `cur`, `cp` | where the call is, its arguments, and the locals of the scan |
| `conn`, `err` | the application's `estats_connection*`, passed as `&conn`, and the call's result |

| Action | In the code |
|---|---|
| `Attach`, `AttachFails`, `Detach` | `agent.c:137-205`, `477-493` |
| `StartLookup` (in `GetHead`, `FindFromCid`, `FindFromSpec`, `FindFromSocket`) | the finder up to the refresh, the loop that frees the old list (`411-416`), opendir, or its failure |
| `SocketRefused` | getpeername or getsockname fails, or the family is unknown: before the refresh |
| `ReadPlain` | a name that is no number (`427-429`) |
| `ReadCid`, `ReadCidFails` | readdir, malloc of the record, fopen of its spec |
| `ReadSpec`, `NoBuffer`, `ReadSpecFails` | malloc of the buffer, fread, the five variables, add_tail, fclose, free; each way to Cleanup |
| `EndScan` | readdir returns NULL, closedir, the finder's loop over the list |

A readdir and the fopen after it are one step because a name that may be
returned stays returnable, so an event of the kernel between the two can be moved
before both. The fread is a step of its own: the connection may end, and the cid
be reused, between fopen and fread; the record then holds the later connection.

### ConnLookup
The abstract specification: a lookup takes time; its answer is a connection that
existed under that cid at some moment of the call and is what was asked for, or
"none" only if no matching connection was there all along, or a failure.
`EstatsAgent!ImplementsLookup` is the refinement, with `LookupAnswer` as mapping.

### EstatsList
`list-int.h` pointer by pointer, and the three loops the library runs over its
lists: append, teardown with `ESTATS_LIST_FOREACH_SAFE`, walk with `*_next`.
`_estats_list_del` and `free` are one step with the loop's advance because no
other code can run in between; what each step reads or writes is checked against
the nodes that are allocated (`wild`).

### EstatsLog
A writer process and a reader process with a file between them. `file` is the
file on disk, `wbuf` the writer's stdio buffer; `Flush` may move any part of it
at any time, `Crash` loses it. A unit of the file is one of the numbers at its head, in a
time stamp or at its end, or a piece of an entry's data, and tells where it comes from, so that a misplaced read shows, and in which byte order it
was written: `wend` is the order of the writer's machine, chosen anew for each log,
and `swap` is `log->swap`, the reader's note that it is the other one. The actions
follow `log.c`: `OpenWrite`, `OpenRefused`, `CopyHeader`, `FixSize`, `OpenFails`
(398-441 and 58-60), `WriteEntry`, `WriteFails`, `WriteFailsGoesOn` (171-187),
`WriteChecksum` (491-513), `CloseFile` (65-80, 515-523), `OpenRead` (351-396),
`ReadEntry` (111-169), `CloseRead`. After a write that failed the program ends
without closing the log, as those of `src/util/C` do (`WriteFails`), or goes on
(`WriteFailsGoesOn`): pieces of entries are then left in the file and `torn` is the
first entry that may be out of place. The two ways in which the size of an entry is computed,
`GroupSize` (`agent.c:114-116`) and `LogBufsize` (`log.c:590-616`), are kept
apart; `LayoutAssumption` states what makes them agree, a header that lists the variable that ends last
at the end (section 5 has what happens otherwise). What the module leaves out: the checksum has no collisions (EstatsChecksum has
the arithmetic); the reader's copy of the header is the header (EstatsLogHeader has the
file); the header is shorter than 2^16 units; a log is not opened for writing while a
reader is in it.

A failed open frees the log twice (section 5). In C nothing can be said of
what follows; the model lets the program go on as after a crash.

### EstatsChecksum
`log.c:443-513` with the arithmetic in it: bytes are 0 to B-1, a word is two of them,
the accumulator two words, as 2^8, `uint16_t` and `uint32_t` are. `Words` pads an
odd length, `Sums` is the loop that adds the words up, `Sum` the accumulator, which wraps, `Folded` the
loop that adds the carries, `Swap` the exchange of the halves for an odd length. A log is written byte by byte, sealed by
`WriteChecksum` (or not, when that fails), one byte of it may change on the disk
(`Damage`), and `Open` is the test of `_estats_log_open_read`.

### EstatsLogHeader
Any number of processes that open logs for reading in one directory. `name` is
the inode that `./log_header` names, `content` what each inode holds; an inode lives
as long as it has the name or a reader has it open. For each reader `pc`, `ino`, `pos` and
`dirty` say where it is in the open, which inode its FILE is of, where it stands and
whether the block there is still in its stdio buffer. `Create` (fopen "w+", which truncates), `Copy`
(the Fputc loop, a stdio buffer at a time), `Rewind`, `Parse`, `ParseEnds`, `Remove` are
`log.c:365-396` and the loop of `541-632`; `Fails` and `Crash` may come at each step, and `Remove` may leave the name
there, of which nobody hears. `left` is a history: since the file was last removed a reader has died or a remove has failed.

### EstatsHeader
The kernel's header file and its two readers. A state has the lines of one header,
chosen in Init, and both parsers go over it side by side.

| Variable | In the code |
|---|---|
| `header` | `/proc/web100/header`, or the copy of it in a log |
| `apc`, `apos`, `curr` | `_estats_agent_parse_header` (`agent.c:26-134`): where it is, the line, `curr_gp` |
| `heap`, `spec`, `read` | the `estats_group` structs ever made, and the agent's two pointers |
| `misuse` | a group was used or freed that is not allocated |
| `walk`, `visited` | the application's `estats_var*` and what it has been given |
| `lpc`, `lpos`, `lgroup`, `lvars`, `bufsize` | `_estats_log_parse_header` (`log.c:541-632`) |

`ParseBlank`, `ParseGroup`, `ParseOtherGroup`, `ParseVar` and `ParseBadIgnored` are the
branches of the agent's loop; `ParseFails` and `ParseGroupNoMemory` its failures,
the second of which goes through a null pointer (`dead`), as `GetVarHead` does for
an empty group (`group.c:67`) and `FindVarNoGroup` and `Detach` for one that is
missing. `VarNext` is `var.c:34-80`. `LogBlank` to `LogEnd` are the log's parser.

### EstatsSockInfo
One thread that calls `estats_sockinfo_get_list_head` while connections open and
close and sockets pass between processes. `cids`, `rows` and `files` are the three
sources, `tcp`, `ino` and `pids` the three lists, `items` what the caller gets.
`ReadConn`, `ReadRow`, `NextPid`, `NextFd` and `StatFd` each read one entry of a
source at the moment of the step, with any change of the world in between, and
`Join` is the nested loop of `sockinfo.c:239-319`. `st` is the struct that `stat`
fills: it keeps the previous name's result when `stat` fails, as in the code, and that may be
a socket of the process before. `.` and `..` are names like others, for which `stat` fails
too, and come first, as procfs returns them. The failures that end the call are `TcpFails`,
`RowsFail`, `PidsFail`, `NoProc` and the alternatives of `Join`; those that clean up lists
that were never initialised may crash. The others, `Fail`, are silent and can happen at any name: opendir of
a process's directory (`sockinfo.c:480`), stat (`:486`), and fopen, fgets and sscanf of its
status (`:491`, `:493`, `:498`), after which the name is passed over. The histories (`hadCid`, `held`, `stayed`, `failed`)
are read by properties only, `failed` also by the bound on the silent failures. Inode numbers are not used again during a call.

### EstatsSnapshot and DeltaVar
EstatsSnapshot has the kernel's counters and the operations of `snapshot.c`:
`Allocated`, `TakeOpen` to `TakeStamp`, `Delta`. A snapshot's record has the struct's
fields and three ghosts, `of`, `at` and `good`, by which properties tell what the
data are. The group is read with one read of the kernel (it is shorter than a
stdio buffer), or with none, or comes up short (`TakeShort`). DeltaVar extends it
with the program `deltavar`, whose two snapshots change places each round:
`OpenNext`, `Read`, `Stamp` with `Taken1`, `Taken2` and `Printed`, and the failures,
which all end in `Cleanup`.

### EstatsValue
One value of `value.c` and one variable of the kernel. `Change` is
`estats_value_change_type` (`value.c:287-374`) with its outcomes: from and to strings directly, between other types by
way of a string, so that a failure of the second step leaves the string. `Strtoul`,
`Strtol`, `Low32` and `Printed` are what the C library and the conversions of C do to a
number at its width, including the register that an `int32_t` is passed in where
`%ld` expects a `long` (`signs`: undefined in C, both outcomes are possible). `AskAs` is
`estats_value_as_*`, `Write` and `Read` are `_estats_value_to_var_buf` and
`_estats_value_from_var_buf`, `Compare` and `Difference` the two functions on two values.
`orig` and `narrow` are histories: the value at its making, and the narrowest type
it has been through.

### Web10G
The Python module over EstatsSnapshot. `ptr` and `snap` are an object's `_connection` and
its snapshot, `rec` the heap that the pointers go into. `Call` is the scan at the
beginning of `all_connections` and `connection_match` (EstatsAgent has it in full; here
it is one step, whole or broken off); `Walk` and `WalkOver` are the loop of `Web10G.py:26-37`,
`Compare` reads one attribute of one object (`Web10G.py:47-62`), `Read` and `Readall` are
the reads of an object, which may be of an earlier scan. `dead` is a read through a
record that was freed. `Given` is whose value a read gives: the connection that has the cid now.

### MC modules
`MCEstatsAgent`, `MCEstatsList`, `MCEstatsLog`, `MCEstatsChecksum`, `MCEstatsLogHeader`,
`MCEstatsHeader`, `MCEstatsSockInfo`, `MCDeltaVar`, `MCEstatsValue` and `MCWeb10G` give the
constants their values.

## 3. Runs

| Run | Question | Bounds | Result |
|---|---|---|---|
| `agent_safety` | Are the heap, the list and the answers right under every interleaving with the kernel and every failure? | 2 cids, 2 connections (equal addresses, different ports), 3 blocks, 2 descriptors | about 287,000 states, holds |
| `agent_liveness` | Does every call return while the kernel churns? | 2 cids, 1 connection, 3 blocks, 2 descriptors | about 52,000 states, holds |
| `agent_spec_alias` | Does a lookup by spec find the right connection when addresses have zero bytes? | two connections that differ after a zero byte | violated |
| `list` | Are the pointers right? | 4 nodes | 391 states, holds |
| `log` | Does a reader accept only whole logs, and read what was written? | 2 variables, 3 entries, 2 logs in turn, 2 byte orders, header of 2 units | about 28,000 states, holds |
| `checksum` | Does the sum that ends a log make it acceptable, and a change not? | bytes of 1 bit, words of 2, accumulator of 4, logs of up to 13 bytes | about 186,000 states, holds |
| `loghdr` | Does a reader parse its own header, is the file removed, does an open return? | 2 readers, headers of 2 and 3 blocks, 3 inodes | about 37,000 states, holds |
| `header` | Do both parsers find the sections of every header, with sizes that fit? | every header of up to 5 lines from 3 groups, 3 variables, blank and bad lines | about 1.9 million states, holds |
| `sockinfo` | Is what a call lists true, and is nothing missing that was there all along, whatever fails without a word? | 1 call, 1 cid, 3 connections (two with the same ends, one from an address without a zero byte), 2 processes with 3 descriptors, 3 changes before the call and 2 during it, 1 name at which something fails silently | about 2.0 million states, holds |
| `deltavar` | Are differences of snapshots right over wraps, reuse of cids and failures? | 2 cids, 2 connections, 2 variables, counters to 3 at modulus 3 | about 1.5 million states, holds |
| `value` | Does a number survive conversions and their failures? | moduli 2, 4, 16, 64 for 8, 16, 32, 64 bits; strings of numbers up to 70 | about 97,000 states, holds |
| `web10g` | Do Python's objects and matches speak of the right connection? | 2 cids, 3 connections, 2 objects, 2 blocks, 2 attributes | about 1.3 million states, holds |

Why the bounds are enough. *Agent*: two cids let one be reused or vanish while
the other is being read, and let the list hold two records, which is what the
properties about first matches, duplicates and missing entries need; two
connections let a cid pass from one to the other within a call; three blocks are
two records and a read buffer, so that malloc also fails; with two descriptors
calls fail at fopen after one was lost, and at opendir after two. The directory has
one name that is no cid. Blocks are symmetric. *List*: four nodes
give the empty list, one node, two, and an inner node; removal is always at the
front. *Log*: with three entries there is a first, an inner and a last one; two
logs let a new one begin over the remains of an old one; the flush may split the
bytes anywhere. The layout of `log` has a hole before its last variable, one variable that
is swapped and one that is not; the writers' two orders are the reader's and the other.
*Checksum*: 13 bytes are 7 words of up to 3, whose sum goes over 16, odd and even. *Loghdr*:
with different lengths one reader can be done while the other still writes; three inodes
are one for each reader and one more for the name. *Header*: five lines are
two sections with variables, or three sections in a row, or a section with three
variables in any order, with blank and bad lines among them; variables overlap and
one of three is deprecated. *Sockinfo*: three changes before a call open
three connections, or one that two more descriptors have, of the same process or of the other; the
two during it are what it takes for a connection to end and another with its ends to come between two of the three
lists. One process has two descriptors, so that a stale struct can be the process's own; one silent
failure is enough for each of the ways in which an item is wrong or missing, and each exception that the
properties make was seen to be needed by leaving it out. After the last call the world stands still. *Deltavar*: a counter goes once
round its width; the second variable is there for reads that come up short. *Value*: each width
is at least twice the one before, which is all that the arithmetic goes by (and what the proofs
assume); a string reads as any number up to over 64 bits, of both signs. *Web10g*: two cids
for three connections, so that a cid changes hands between two reads of one match;
each connection but one differs from what is asked in one attribute only.

Fairness. `agent_liveness` assumes only that the calling thread goes on
(`WF_vars(Scan)`): nothing of the kernel, which may open and close connections
for ever. `list` assumes the same of a loop in progress. `loghdr` assumes it of each reader's
process (`WF_vars(Step(r))`, the steps of one reader that do not fail): that a call fails, that a process dies or
that another open is begun is under no fairness. The other runs assume none.

What the properties say:

* `HeapMatchesList`: records are freed once and never lost; a buffer is lost only
  with its FILE.
* `ScanComplete`: what a scan returns was there during the scan, once, and everything
  that was there all along is in it.
* `ImplementsLookup`: a lookup does what ConnLookup says.
* `ConnUsable`: a call without error leaves NULL or a live record in `*conn`.
* `LeakOnlyOnError`: descriptors are lost by failing calls only.
* `SpecFindsOwn`: the first match is the connection with those addresses and ports.
* `CallReturns`: no call runs for ever.
* `RingMatches`, `NoWildAccess`, `WalkInOrder`, `LoopEnds`: for the list.
* `AcceptsOnlyWhole`: no reader takes a torn log for a log.
* `ReadsWhatWasWritten`: entries in order, every variable in the reader's byte order, all
  of them by the end; a write that failed spoils no entry that was whole before it.
* `StoredIsAccepted`: a log that was closed and reached the disk is accepted.
* `GoodLogAccepted`, `DamageRefused`: the checksum accepts what was sealed and refuses a
  changed byte, also when the accumulator wraps.
* `OwnHeader`, `PiecesInPlace`: a reader parses the header of its log unless another has the
  file open at the same time, and then blocks can be missing but never misplaced; of a line that a missing block cuts nothing is said.
* `NoFileLeft`, `OpenReturns`: only a reader that dies, or whose remove fails, leaves the file, and an open returns.
* `NoMisuse`: lines are never added to a group that was freed, nor a group freed twice.
* `SizeCovers`: the size that snapshots allocate is the end of the furthest variable.
* `GroupsAreSections`, `LogAgrees`: each parser finds exactly the variables of a section.
* `WalkSkipsDeprecated`: at each point of a walk it has been given exactly the variables before
  it that are not deprecated, in order, and all of them at its end.
* `ItemsTrue`, `ConnsListed`, `OwnersListed`: the cid and the process of an item were
  each true at some moment of the call, though not of the same moment, and connections and owners that
  stayed are all there. The exceptions are in the properties: a process whose `.` could not be looked at may have another's
  socket in its item; an owner is missing when its directory, its descriptor or its status could not be read, when the
  file of the row could not be opened, and when the connection's address has no zero byte.
* `OwnWhileAlive`: a snapshot holds values of its connection as long as that one lives.
* `Chronology`: later times mean later values.
* `DifferencesAddUp`: differences are exact modulo the width, and none is printed twice
  or left out.
* `NumberSurvives`, `RangeChecked`: a number that fits the types on its way is kept through
  conversions, their failures and the kernel; one that does not fit 16 or 8 bits is refused, when a value is converted
  in place and when it is asked for, but for 65536 and 256 themselves and for `as_octet`, which refuses by 16 bits and gives the low byte.
* `CompareAgrees`: comparing and subtracting agree on equality, and a difference leads from
  one value to the other.
* `ReadOwn`: an object of the latest scan reads its own connection until that ends, and never through a freed record.
* `MatchExact`: a match is of one connection, for cids that had one throughout the call.

Each property has a mutant in its module, an operator with a plausible mistake in
the code's place, that makes it fail.

## 4. Proofs

TLAPS checks the following for every value of the constants that satisfies the
named assumptions of the modules: `ProcFsAssumption`, `AgentAssumption`, `ConnSpecAssumption`,
`ListAssumption`, `HeaderAssumption`, `LogAssumption`, `LayoutAssumption`, `LogHeaderAssumption`, `SnapshotAssumption`,
`NoSnapAssumption`, `DeltaVarAssumption`, `Web10GAssumption`, `ChecksumAssumption`, `SockInfoAssumption`,
`ValueAssumption` (with 64 bits a multiple of 32), `DataAssumption` and `NoValueAssumption`. Most of them only say that constants which stand for
different things are different, or give a constant its type.

*EstatsAgentProofs.* `AgentInvariant`: `Spec => []IInv`, where IInv is the type
invariant, `HeapMatchesList`, `ScanInv`, and what ties them together. Neither the
heap nor the completeness property is inductive alone: that an entry is recorded
once needs that everything recorded has been returned by readdir, which needs
that the entry being read is not recorded yet (`ScanInv`); that a free in an
error path hits a live record needs that `cp` is non-null exactly while a file is
open. The proof goes action by action, with lemmas for the parts several actions
share (the start of a lookup, the error path). From IInv follow
`AgentTypeCorrect`, `HeapCorrect`, `ScanInvariant`, `ScanCorrect` (ScanComplete)
and `NoDanglingAnswer` (ConnUsable).

The second part of the module is about answers. `LeakMeansError` (LeakOnlyOnError) needs that a descriptor
is held just while the scan has one open. `LookupImplements` is the refinement of ConnLookup: the scan
of EstatsAgent takes many steps, of which the one that returns maps to the answer of
the abstract lookup and the others to stutters; that the answer is allowed is ScanInv's doing.
`SpecLookupIsOwn` (SpecFindsOwn) has the assumption that strcmp tells the specs of any two connections apart,
which the run `agent_spec_alias` shows it does not always do; what makes it inductive is that no
connection is listed twice (`OneEntry`).

*EstatsListProofs.* `ListInvariant`: `Spec => []LInv`; to the four properties LInv
adds where the loops stand (`LoopAt`): the teardown is at the first cell and has
read its successor, the walk is behind the nodes it has handed out. `AppendKeeps`
and `ClearKeeps` are the two pointer arguments: which cells of the ring the two
writes change. It follows that the pointers are the sequence (`ListIsSequence`),
which is what allows the other modules to keep a sequence, that nothing freed is
touched (`ListNoWildAccess`) and that walks are complete (`ListWalk`).

*EstatsHeaderProofs.* `HeaderInvariant`: `Spec => []HInv`, with HInv = TypeOK, SizeCovers,
GroupsInUse (nothing was misused, and what `curr_gp` and the agent point to is
allocated while it can be used) and WalkInGroup. NoMisuse is not inductive alone:
that a line goes to a live group, and that detach frees live ones, needs the rest
of GroupsInUse. From it follow
`HeaderTypeCorrect`, `HeaderNoMisuse` and `HeaderSizeCovers`, for every header. Two
more invariants rest on it. `Sections` says, after any number of lines, which groups have
been named, that each has exactly the variables of its lines so far (`Lists`: the rank of a
position among those taken is its place in the list), and that `curr_gp`, or `group_name`,
is the section the line is in; `HeaderGroups` (GroupsAreSections) and `HeaderLogAgrees`
(LogAgrees) follow at the end of the header. `Walking` says the same of a walk, which has
been given the good variables before the one it is at; that the search skips none is
`NextIsFirst`, by the least element of a set (`Least`), and gives `HeaderWalk`
(WalkSkipsDeprecated).

*EstatsLogProofs.* `LogInvariant`, for any length of the header, any layout that `LayoutAssumption` allows,
and any number of entries and logs. LInv speaks of what is in the file and the
stdio buffer together (`file \o wbuf`), which a flush at any moment leaves as it is: while the log is
open this has the head and the first `Kept` entries at their places (`Fit`), where `Kept` is the number written or,
after a write that failed, of those before the torn one; once it is being closed the
same holds of `sealed`, and the file is that or that with its checksum (`Whole`). No unit but the
checksum is a sum, so a file whose sum is 0 is `Whole` (`SumOfWhole`), and while a reader is in it no
writer has anything left to flush. From it follow `LogTypeCorrect`, `AcceptsClosed`
(AcceptsOnlyWhole), `ReadsWritten` (ReadsWhatWasWritten) and `StoredAccepted` (StoredIsAccepted).

*EstatsLogPartsProofs*, on the file of headers. `LogHeaderInvariant`, for any number of readers and headers of any length.
OwnHeader says something of the end of an open; what makes it inductive is `Alone`: at each point of the open
the inode of a reader that shares it with nobody holds the prefix of its header that it has
flushed, and what it has parsed is a prefix too. `Remover` says that while the name is there, and since it was last removed no reader has died and no remove
has failed, some reader is on its way to remove it, and gives `FileIsRemoved`; `InPlace`,
of the content of every inode, gives `BlocksInPlace`; `HeaderIsOwn` is OwnHeader.

On the checksum, `ChecksumInvariant`, for every width W of a word and every length of the log, odd and even. (The
code's loop counts bytes with an `int`, `log.c:453`, so of it this is true for logs of less than 2^31 bytes.)
CInv says that a sealed file has the sum 0 just when it was not damaged; `GoodIsAccepted`
(GoodLogAccepted) and `DamageIsRefused` (DamageRefused) follow. The argument is arithmetic: adding the carries
keeps a number modulo W - 1 (`Folded`), and the accumulator's modulus is 1 modulo W - 1, so a file is accepted just
when the sum of its words is a multiple of W - 1 that is not 0. The checksum that is written fills the
sum up to the next multiple and never takes it over the accumulator's edge, and a byte
that changed moves the sum by less than W - 1, so never from one multiple to another; what the
end of an odd file needs is the exchange of the halves (`Swap`). `Sums` is the loop over the words.

*EstatsSnapshotProofs*, on deltavar. `DeltaVarInvariant`, for every number of cids, connections and variables and every
modulus. `Owner` (a snapshot is of the connection that has the cid, or of one that ended) gives
`SnapshotIsOwn`; `NotAhead` and `ReadIsLatest` (no snapshot is ahead of its counters or the clock,
and what was just read is the latest) give `SnapshotsInOrder` (Chronology); the invariant `Sums` (the first value and the
differences since lead, modulo the width, to the snapshot from which the next difference is taken)
gives `SumIsExact` (DifferencesAddUp), with lemmas on sums and differences modulo a number.

On Web10G, `WebInvariant`, for any number of objects, blocks, connections and attributes. A record was made for
the connection that had its cid, so it is of the one that has it or of one that ended (`Records`); an object of
the latest scan has the record that its snapshot was made from (`LatestRecords`). With them a read is of the object's own
connection and of no freed record (`ReadsAreOwn`). `Tracked` follows a match through its walk and its comparisons: a cid that
had one connection all along is still to be visited, or has an object, or has been judged; an object that is
being compared has been equal in each attribute so far. It gives `MatchIsExact`. `ReadallIsOwn` is
OwnWhileAlive for the snapshots of Python's objects.

*EstatsSockInfoProofs.* `SockInvariant`, for any number of connections, processes, descriptors and changes
during a call. IInv says of each of the three lists that its entries were there during the call (`TcpTrue`,
`InoTrue`, `PidsTrue`) and that what has stayed since the call began is listed or yet to be read
(`TcpWhole`, `InoWhole`, `PidsWhole`; the last follows the search through a process's descriptors, with `Looked` the
processes it has been to). `PidsTrue` does not speak of a process whose `.` failed; for any other the first stat that succeeds clears
the struct, and it holds a socket of this process from then on. `PidsWhole` does not speak of owners at whose names something failed. `Join` then needs what flattening a sequence of sequences returns
(`FlattenElements`, by induction). `SockConnsListed` and `SockOwnersListed` follow without a further assumption (the exceptions are in the property);
`SockItemsTrue` assumes that strcmp tells the addresses of the connections apart, which addresses of text do
and those with a zero byte inside may not (section 5). `SockLeakOnlyOnError` is the action property.

*EstatsValueProofs.* `ValueInvariant`, for every width. `Carried` says what one conversion that succeeded or failed
may do to a datum, `Held` what may have become of the original by now; a number of 2^31 or more
can come back as one in `Far` only, which no range check lets through. From it follow `NumberIsKept`
(NumberSurvives) and `RangeIsChecked` (RangeChecked; `AnswerChecked` is its part for answers). The proof goes conversion by conversion.
`CompareAndDifference` (CompareAgrees) needs three facts: no two numbers have the same digits (`DigitsInjective`,
by induction from the number to its tenth), of two texts that differ just one comes before
the other (`BeforeTotal`, by the first place where they differ), and a difference at a width leads back
(`DifferenceAt`, `Low32Difference`), the sign of an `int32_t` printed or not.

Induction. The library's induction theorems cannot be cited, since they take an operator. What these proofs use
instead is `Least`, that a set of naturals has a least element (from the well-foundedness of finite
sets), and `AllNaturals` and `AllByLesser`, which follow from it. That way a recursive function is shown to exist
(`AddsExists`, `FlattenExists`, `WritesExists`) and what it computes is proved, where it is a function over numbers.

Only model-checked: the liveness properties `CallReturns`, `LoopEnds` and `OpenReturns`, which rest
on fairness and thereby on ENABLED, out of the prover's reach. Every other property of a passing run has a theorem.

## 5. Findings

1. `connection.c:227` compares binary addresses with strcmp (run
   `agent_spec_alias`): connections whose addresses agree up to a zero byte are one.

Seen while modelling; the modules do as the code does, unless they say otherwise, and no run is about
them. In the agent and its parsers:

* `agent.c:302` builds the spec of a socket on the stack and copies four bytes of an IPv4
  address into a buffer of seventeen; strcmp goes on to compare the bytes behind them, which were
  never written, with the kernel's zeros. Unless the stack had a zero there, the lookup by socket does not find its connection.
* `agent.c:441` and the lines after it leave the FILE and the buffer behind on an error
  (`LeakOnlyOnError` bounds it to failing calls), and a failed attach leaves the
  groups and variables of its parse (`agent.c:158`).
* `group.c:67` looks into the head of an empty group.
* `sockinfo.c:216` does not empty the list before it fills it: a second call returns the
  connections of the first too.
* `sockinfo.c:239` joins by addresses and ports what was read at different times: a
  cid may come with the process of a later connection between the same ends.
* `sockinfo.c:486` does not look at the result of `stat`. When it fails for the first name of a process's
  directory, `.`, the struct is still that of the process before: if that was a socket, it is
  recorded as this process's. `ItemsTrue` without its exception fails by it.
* `sockinfo.c:480`, `:491`, `:493` and `:498` leave out processes that live and have the socket when their directory or their
  status cannot be read or their name is empty; the connection is then listed without an owner, or with fewer, and no error.
* A row of `/proc/net/tcp6` has a zero behind the address where the kernel's record has the type, so a connection with
  an IPv6 address without a zero byte is never equal to its row: it is listed without row and owner.

In logs:

* `log.c:437` and `log.c:59` both free a log whose opening failed.
* `log.c:590` sets the size of an entry to 0 for each variable, so that it is the end of the one listed
  last; `agent.c:116` does not, and the comment at `log.c:614` says otherwise. With a header
  whose last variable is not the one that ends last, entries are read at the wrong places.
* `log.c:393` ignores an error of the remove: `./log_header` stays, though the open succeeds and no reader has died.
* A write that failed, in a program that goes on and closes the log, leaves a log with a valid
  checksum and entries out of place after it.
* Two readers that open logs at once in one directory can both succeed with variables
  missing: what one truncated and the other had not rewritten yet.
* The 32-bit sum of the checksum may wrap and does no harm: what is lost, 2^32, is 1 modulo
  2^16 - 1, and the checksum never takes the sum over the edge.

In values and snapshots:

* Variables of type INTEGER and INTEGER32 are read as UINT32 (`value.c`): a negative one is a large number.
* Numbers from strings are cut to 32 bits without an error; a string of 2^63 or more becomes -1 as INT32.
  65536 and 256 pass the range checks for 16 and 8 bits and become 0. `as_octet` returns the low byte of a 16-bit conversion.
* `estats_value_compare` compares texts: 10 comes before 9.
* A conversion that fails in its second step leaves a string in the caller's value (`value.c:356`).
* The result of the Fclose that sends a written value to the kernel is not looked at.
* `deltavar.c:46` shows the value of the first snapshot, but the first difference it
  prints is from the second: what was counted between the two is never printed.

In the Python bindings:

* `Web10G.write` names a variable that is not there (`p_var`, `Web10G.py:94`) and fails before it reaches the library;
  `s_write_value` would not free its value.
* `s_take_snapshot` drops failures (`libestats.i:109`), and `readall` goes on to return what the
  snapshot had before, or zeros.
* A read that fails returns None, of which `Web10Gvalue` makes an AttributeError: one connection that ends makes
  `connection_match` fail as a whole.
* Objects of an earlier scan read through records that were freed; their snapshots do not, and stay their own (`OwnWhileAlive`).

## 6. Not modelled

* More than one thread in the library: it has no locks and does not claim to be
  thread-safe.
* Message texts, debug output, the layout of printed values, the texts of addresses; build files;
  `strlcpy`. `src/python/libestats.py` and `libestats_wrap.c` are generated by SWIG: with 10,992
  lines the latter is two thirds of all the code, and nothing in it is this project's own.
* Null arguments and unsupported agent types: each function refuses them before it
  changes anything.
* In the agent, IPv6 addresses with no zero byte: two such specs have no zero in the whole buffer, strcmp reads past
  the end, and what it finds there is not part of the model (`AgentAssumption` excludes them). In EstatsSockInfo,
  where a row has a zero there, they are included.
* A log that is truncated by a new writer while a reader is in it.
* The getters and the loops that only read (`estats_log_find_var_from_name`, the values of an entry,
  `src/util/C/listvars.c` and its like), and the chaining of error structs.
* What is in the plan below.

## 7. Plan

Order of the work, the most important behaviour first:

1. Agent, kernel directory, connection specs, abstract lookup - done
   (EstatsAgent, ProcFs, ConnSpec, ConnLookup, EstatsAgentProofs, lookups included).
2. The list under everything - done (EstatsList, EstatsListProofs).
3. Log file, writer and reader - done (EstatsLog, EstatsLogProofs), with byte orders and writes that fail and go on.
4. The checksum's arithmetic - done (EstatsChecksum, EstatsLogPartsProofs).
5. The temporary header file - done (EstatsLogHeader, EstatsLogPartsProofs).
6. Header parser, groups, variables - done (EstatsHeader, EstatsHeaderProofs).
7. Snapshots and deltavar - done (EstatsSnapshot, DeltaVar); objects that are kept over
   a scan - done (Web10G); both in EstatsSnapshotProofs.
8. Socket information - done (EstatsSockInfo, EstatsSockInfoProofs).
9. Values - done (EstatsValue, EstatsValueProofs).
10. Left to model: a log that is truncated under its reader; the single write of
    `connection.c:180-212`, with the fclose whose result is not looked at.
