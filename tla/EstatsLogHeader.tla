--------------------------- MODULE EstatsLogHeader ---------------------------
(***************************************************************************)
(* The temporary file of a log's reader.  estats_log_open "r" copies the   *)
(* header of the log to ./log_header, parses it there and removes the      *)
(* file: every reader in a directory uses the same name.  Readers open     *)
(* logs again and again, and may die at any step.                          *)
(*                                                                         *)
(* A header is a row of blocks of the size of a stdio buffer, which is     *)
(* what stdio moves to and from the file: block k of the header of r's log *)
(* is <<r, k>>.  A file is an inode, which lives as long as it has the     *)
(* name or a reader has it open.                                           *)
(***************************************************************************)
EXTENDS Integers, Sequences

CONSTANTS
    Reader,
    Inode,
    None,       \* no inode
    Hole,       \* a block of zeros, where nobody has written
    HeaderLen   \* blocks of the header of the log that a reader reads

ASSUME LogHeaderAssumption ==
    /\ None \notin Inode
    /\ HeaderLen \in [Reader -> Nat \ {0}]
    /\ Hole \notin Reader \X Nat

Block == (Reader \X Nat) \cup {Hole}
Header(r) == [k \in 1..HeaderLen[r] |-> <<r, k>>]

VARIABLES
    name,      \* the inode of ./log_header
    content,   \* of each inode
    pc,        \* idle, opened, copy, parse, remove
    ino,       \* the inode a reader has open
    pos,       \* where it stands in it, in blocks
    dirty,     \* block pos is still in the stdio buffer
    parsed,    \* the blocks it has parsed
    result,    \* of its last estats_log_open: none, ok, failed
    shared,    \* a history: another reader had the inode open as well
    left       \* a history: a reader has died, or its remove failed, since the file was last removed

files == <<name, content, left>>
reader == <<pc, ino, pos, dirty, parsed, result, shared>>
vars == <<files, reader>>

-----------------------------------------------------------------------------

Init ==
    /\ name = None /\ content = [i \in Inode |-> <<>>] /\ left = FALSE
    /\ pc = [r \in Reader |-> "idle"] /\ ino = [r \in Reader |-> None]
    /\ pos = [r \in Reader |-> 0] /\ dirty = [r \in Reader |-> FALSE]
    /\ parsed = [r \in Reader |-> <<>>] /\ result = [r \in Reader |-> "none"]
    /\ shared = [r \in Reader |-> FALSE]

Goto(r, l) == pc' = [pc EXCEPT ![r] = l]

\* What is left of the inodes when r has none open and n is the one with the name.
Reclaimed(c, r, n) ==
    [i \in Inode |-> IF i = n \/ \E s \in Reader \ {r} : ino[s] = i THEN c[i] ELSE <<>>]

\* estats_log_open is called.  What it does before it makes the file (open the log, sum
\* it, read its byte order and the size of its header) is its own.
Start(r) ==
    /\ pc[r] = "idle" /\ Goto(r, "opened")
    /\ UNCHANGED <<files, ino, pos, dirty, parsed, result, shared>>

\* Mutant: what is there is not truncated.
OpenedAsIs(i) == content[i]

\* "w+" truncates what has the name.
Opened(i) == <<>>

Users(i) == {r \in Reader : ino[r] = i}

\* fopen of ./log_header: what has the name, or a new file.
Create(r) ==
    /\ pc[r] = "opened" /\ Goto(r, "copy")
    /\ \E i \in Inode : Users(i) = {}   \* bound: there is a free inode
    /\ LET i == IF name # None THEN name ELSE CHOOSE j \in Inode : Users(j) = {} IN
          /\ name' = i /\ ino' = [ino EXCEPT ![r] = i]
          /\ content' = [content EXCEPT ![i] = Opened(i)]
          /\ shared' = [s \in Reader |->
                 IF s = r THEN Users(i) # {} ELSE shared[s] \/ s \in Users(i)]
    /\ pos' = [pos EXCEPT ![r] = 0]
    /\ UNCHANGED <<left, dirty, parsed, result>>

\* Mutant: the block goes to the end of the file.
WrittenAtEnd(r) == Append(content[ino[r]], <<r, pos[r]>>)

\* The inode of r when the block in r's buffer has been written at its place.
Written(r) ==
    LET c == content[ino[r]]
        len == IF Len(c) < pos[r] THEN pos[r] ELSE Len(c)
    IN  [k \in 1..len |-> IF k = pos[r] THEN <<r, k>> ELSE IF k <= Len(c) THEN c[k] ELSE Hole]

Flushed(r) == IF dirty[r] THEN [content EXCEPT ![ino[r]] = Written(r)] ELSE content

\* Fputc, as far as the next block is in the buffer; the one before is written.
Copy(r) ==
    /\ pc[r] = "copy" /\ pos[r] < HeaderLen[r]
    /\ content' = Flushed(r)
    /\ pos' = [pos EXCEPT ![r] = @ + 1] /\ dirty' = [dirty EXCEPT ![r] = TRUE]
    /\ UNCHANGED <<name, left, pc, ino, parsed, result, shared>>

\* Fseek writes the last block.
Rewind(r) ==
    /\ pc[r] = "copy" /\ pos[r] = HeaderLen[r] /\ Goto(r, "parse")
    /\ content' = Flushed(r)
    /\ pos' = [pos EXCEPT ![r] = 0] /\ dirty' = [dirty EXCEPT ![r] = FALSE]
    /\ UNCHANGED <<name, left, ino, parsed, result, shared>>

\* _estats_log_parse_header reads the next block.  Zeros are blank lines to it.
Parse(r) ==
    /\ pc[r] = "parse" /\ pos[r] < Len(content[ino[r]])
    /\ parsed' = [parsed EXCEPT ![r] = Append(@, content[ino[r]][pos[r] + 1])]
    /\ pos' = [pos EXCEPT ![r] = @ + 1]
    /\ UNCHANGED <<files, pc, ino, dirty, result, shared>>

Close(r, res) ==
    /\ Goto(r, "remove")
    /\ result' = [result EXCEPT ![r] = res]
    /\ ino' = [ino EXCEPT ![r] = None] /\ dirty' = [dirty EXCEPT ![r] = FALSE]
    /\ pos' = [pos EXCEPT ![r] = 0]

\* Mutant: a parser that wants as many blocks as were copied waits for them.
ParseEndsWaits(r) ==
    /\ pc[r] = "parse" /\ pos[r] >= Len(content[ino[r]])
    /\ Len(parsed[r]) = HeaderLen[r]
    /\ Close(r, "ok") /\ content' = Reclaimed(content, r, name)
    /\ UNCHANGED <<name, left, parsed, shared>>

\* The end of the file ends the parsing, and Fclose follows; a file without a first line
\* is an error.
ParseEnds(r) ==
    /\ pc[r] = "parse" /\ pos[r] >= Len(content[ino[r]])
    /\ Close(r, IF parsed[r] = <<>> THEN "failed" ELSE "ok")
    /\ content' = Reclaimed(content, r, name)
    /\ UNCHANGED <<name, left, parsed, shared>>

\* The log is refused, or the file cannot be made, written, sought in or parsed.  Fclose
\* writes what is in the buffer, or fails to.
Fails(r) ==
    /\ pc[r] \in {"opened", "copy", "parse"}
    /\ Close(r, "failed")
    /\ content' \in {Reclaimed(Flushed(r), r, name), Reclaimed(content, r, name)}
    /\ UNCHANGED <<name, left, parsed, shared>>

\* The open has returned: its outcome is not kept.
Forget(r) ==
    /\ parsed' = [parsed EXCEPT ![r] = <<>>]
    /\ result' = [result EXCEPT ![r] = "none"]
    /\ shared' = [shared EXCEPT ![r] = FALSE]

\* Mutant: a reader that failed leaves the file alone.
RemoveOnSuccess(r) ==
    /\ pc[r] = "remove" /\ Goto(r, "idle")
    /\ \/ result[r] = "ok" /\ name' = None /\ left' = FALSE
       \/ result[r] # "ok" /\ UNCHANGED <<name, left>>
       \/ name # None /\ name' = name /\ left' = TRUE
    /\ content' = Reclaimed(content, r, name') /\ Forget(r)
    /\ UNCHANGED <<ino, pos, dirty>>

\* Remove takes away the name, whoever made the file, also when this reader made none.
\* When it fails, which is not looked at, the open returns and the file stays.
Remove(r) ==
    /\ pc[r] = "remove" /\ Goto(r, "idle")
    /\ \/ name' = None /\ left' = FALSE
       \/ name # None /\ name' = name /\ left' = TRUE
    /\ content' = Reclaimed(content, r, name') /\ Forget(r)
    /\ UNCHANGED <<ino, pos, dirty>>

Crash(r) ==
    /\ pc[r] # "idle" /\ Goto(r, "idle")
    /\ ino' = [ino EXCEPT ![r] = None] /\ dirty' = [dirty EXCEPT ![r] = FALSE]
    /\ pos' = [pos EXCEPT ![r] = 0] /\ left' = TRUE
    /\ content' = Reclaimed(content, r, name) /\ Forget(r)
    /\ UNCHANGED name

-----------------------------------------------------------------------------

Step(r) ==
    \/ Create(r) \/ Copy(r) \/ Rewind(r) \/ Parse(r) \/ ParseEnds(r) \/ Remove(r)

Next == \E r \in Reader : Start(r) \/ Step(r) \/ Fails(r) \/ Crash(r)

Spec == Init /\ [][Next]_vars

\* A reader's process runs on: its next step is taken when nothing fails.
FairSpec == Spec /\ \A r \in Reader : WF_vars(Step(r))

-----------------------------------------------------------------------------
(* Properties *)

TypeOK ==
    /\ name \in Inode \cup {None} /\ left \in BOOLEAN
    /\ pc \in [Reader -> {"idle", "opened", "copy", "parse", "remove"}]
    /\ ino \in [Reader -> Inode \cup {None}]
    /\ pos \in [Reader -> Nat] /\ dirty \in [Reader -> BOOLEAN]
    /\ result \in [Reader -> {"none", "ok", "failed"}] /\ shared \in [Reader -> BOOLEAN]
    /\ content \in [Inode -> Seq(Block)] /\ parsed \in [Reader -> Seq(Block)]

\* A reader that had its file to itself parsed the header of its log, all of it and
\* nothing else, whatever others made, removed or left behind before and meanwhile: that
\* they take the name away does no harm, only that they open the file under it does.
OwnHeader == \A r \in Reader : result[r] = "ok" /\ ~shared[r] => parsed[r] = Header(r)

\* Readers that share a file at least find every block at its place: when their logs
\* have the same header, as logs of one kernel do, what can go wrong is that blocks are
\* missing, never that one is found elsewhere.  A line that a missing block cuts may
\* still be taken for another: lines are not told apart here.
PiecesInPlace ==
    \A r \in Reader : \A k \in DOMAIN parsed[r] : parsed[r][k] \in (Reader \X {k}) \cup {Hole}

\* The file is left behind only by readers that die or whose remove fails (log.c:393):
\* every way out of the open goes by the remove, and a reader that made the file anew after
\* another removed it comes to its own.
NoFileLeft == (\A r \in Reader : pc[r] = "idle") /\ ~left => name = None

\* An open returns, whatever the others do to the file that is being read.
OpenReturns == \A r \in Reader : pc[r] # "idle" ~> pc[r] = "idle"
=============================================================================
