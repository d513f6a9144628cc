------------------------------ MODULE EstatsLog ------------------------------
(***************************************************************************)
(* A log file: one process writes it with estats_log_open "w",             *)
(* estats_log_write_entry and estats_log_close, another reads it with      *)
(* estats_log_open "r" and estats_log_read_entry.  All they share is the   *)
(* file.  The writer's bytes go through the stdio buffer of its FILE, may  *)
(* reach the file at any time, in any portion, and are lost by a crash.    *)
(*                                                                         *)
(* A unit of the file is a number: the header's size, the seconds of a     *)
(* timestamp and its microseconds, the checksum.  An entry's data is as    *)
(* many units as the layout of the read group says.  A unit tells where it *)
(* comes from, and in which byte order it was written.  The checksum is    *)
(* taken to be free of collisions: the sum of a file is a unit of its own  *)
(* (EstatsChecksum has its arithmetic).                                    *)
(***************************************************************************)
EXTENDS Integers, Sequences, FiniteSetsExt, SequencesExt

CONSTANTS
    Vars,          \* the read group as the kernel's header lists it: <<[off, len, num], ...>>,
                   \* num: the type is one of those that _estats_swap_buf swaps
    Ends,          \* the byte orders of the machines that write logs
    Host,          \* LOG_HOST_ORDER of the machine that reads them
    HeaderLen,     \* units of the kernel's header file
    MaxEntries,    \* bound: entries of a log
    MaxLogs        \* bound: logs written to the path

StampLen == 2

ASSUME LogAssumption ==
    /\ Vars \in Seq([off : Nat, len : Nat \ {0}, num : BOOLEAN]) /\ Vars # <<>>
    /\ HeaderLen \in 1..(2^16 - 1) /\ Ends \subseteq {0, 1} /\ Ends # {} /\ Host \in {0, 1}
    /\ MaxEntries \in Nat /\ MaxLogs \in Nat

VARIABLES
    file,      \* the units on disk
    wbuf,      \* the writer's stdio buffer
    wpc,       \* none, header, size, open, failed, closing
    written,   \* entries whose write succeeded
    logs,      \* logs begun
    stored,    \* close has returned and its last flush reached the disk
    wend,      \* the byte order of the writer's machine
    torn,      \* a history: the first entry that a write that failed may have put out of place
    sealed,    \* a history: what the last checksum was taken of
    rpc,       \* closed, refused, reading, eof
    swap,      \* log->swap of the reader
    rpos,      \* units the reader has consumed
    got        \* the entries it has been given

wvars == <<wbuf, wpc, written, logs, stored, wend, torn, sealed>>
rvars == <<rpc, swap, rpos, got>>
vars == <<file, wvars, rvars>>

-----------------------------------------------------------------------------
(* The layout *)

VarEnd(i) == Vars[i].off + Vars[i].len

\* struct estats_group.size, which a snapshot's data has: the end of the last
\* variable, wherever the header lists it.
GroupSize == Max({VarEnd(i) : i \in DOMAIN Vars})

\* struct estats_log.bufsize, which the reader takes for it: set to 0 for each
\* variable before it is raised to the end of that variable.
LogBufsize == VarEnd(Len(Vars))

\* Where log.c:590 sets the size to 0 the kernel's header helps out: it lists the variable
\* that ends last at the end.
ASSUME LayoutAssumption == \A i \in DOMAIN Vars : VarEnd(i) <= LogBufsize

EntrySize == StampLen + GroupSize

Order == [kind |-> "order", end |-> wend]
Size(n) == [kind |-> "size", n |-> n, end |-> wend]
Header == [k \in 1..HeaderLen |-> [kind |-> "header", k |-> k]]
Entry(n) ==
    [k \in 1..EntrySize |-> [kind |-> "entry", n |-> n, k |-> k, end |-> wend]]
Checksum(units) == [kind |-> "sum", of |-> units]

\* Where the n-th entry ends.
End(n) == 2 + HeaderLen + n * EntrySize

\* The head of a log and its first n entries are at their places.
Holds(units, n) ==
    /\ Len(units) >= End(n)
    /\ units[1] = Order /\ units[2] = Size(HeaderLen)
    /\ \A k \in 1..HeaderLen : units[2 + k] = Header[k]
    /\ \A i \in 1..n : \A k \in 1..EntrySize : units[End(i - 1) + k] = Entry(i)[k]

\* A number is read right when it is swapped just if it was written in the other order.
ReadRight(unit, swapped) == swapped <=> unit.end # Host

\* The sum over the whole file is 0 when the last unit is the checksum of the others.
SumIsZero(units) == units # <<>> /\ Last(units) = Checksum(Front(units))

-----------------------------------------------------------------------------
(* The writer *)

Init ==
    /\ file = <<>> /\ wbuf = <<>> /\ wpc = "none" /\ written = 0
    /\ logs = 0 /\ stored = FALSE /\ wend \in Ends /\ torn = MaxEntries + 1 /\ sealed = <<>>
    /\ rpc = "closed" /\ swap = FALSE /\ rpos = 0 /\ got = <<>>

\* fopen "w+" truncates; the byte order and a place holder are written.
OpenWrite ==
    /\ wpc = "none" /\ logs < MaxLogs /\ rpc \in {"closed", "refused"}
    /\ file' = <<>> /\ wend' \in Ends /\ wbuf' = <<Order', Size(0)'>>
    /\ wpc' = "header" /\ written' = 0 /\ logs' = logs + 1
    /\ stored' = FALSE /\ torn' = MaxEntries + 1 /\ sealed' = <<>>
    /\ UNCHANGED rvars

CopyHeader ==
    /\ wpc = "header" /\ wpc' = "size"
    /\ wbuf' = wbuf \o Header
    /\ UNCHANGED <<file, written, logs, stored, wend, torn, sealed, rvars>>

\* fgetpos, fseek (which flushes), the size over the place holder, fsetpos.
FixSize ==
    /\ wpc = "size" /\ wpc' = "open"
    /\ file' = [file \o wbuf EXCEPT ![2] = Size(HeaderLen)]
    /\ wbuf' = <<>>
    /\ UNCHANGED <<written, logs, stored, wend, torn, sealed, rvars>>

\* fopen fails; the file stays as it is.
OpenRefused ==
    /\ wpc = "none" /\ logs < MaxLogs
    /\ logs' = logs + 1
    /\ UNCHANGED <<file, wbuf, wpc, written, stored, wend, torn, sealed, rvars>>

\* The header cannot be opened, or a write or seek fails.  fclose has written what it
\* could of the buffer.  (Here and in OpenRefused the log is freed a second time by
\* estats_log_open, log.c:59; the model lets the program go on as after a crash.)
OpenFails ==
    /\ wpc \in {"header", "size"} /\ wpc' = "none"
    /\ \E k \in 0..Len(wbuf) : file' = file \o SubSeq(wbuf, 1, k)
    /\ wbuf' = <<>>
    /\ UNCHANGED <<written, logs, stored, wend, torn, sealed, rvars>>

\* estats_log_write_entry
WriteEntry ==
    /\ wpc = "open" /\ written < MaxEntries
    /\ wbuf' = wbuf \o Entry(written + 1)
    /\ written' = written + 1
    /\ UNCHANGED <<file, wpc, logs, stored, wend, torn, sealed, rvars>>

\* A write fails, and the program goes on to write and to close.  stdio gives up its
\* buffer: any part of it and of the entry has reached the file.
WriteFailsGoesOn ==
    /\ wpc = "open" /\ written < MaxEntries
    /\ torn > MaxEntries   \* bound: once for each log
    /\ \E k \in 0..(EntrySize - 1) :
          LET all == wbuf \o SubSeq(Entry(written + 1), 1, k) IN
          \E m \in 0..Len(all) :
             /\ file' = file \o SubSeq(all, 1, m)
             /\ torn' \in {n \in 1..(written + 1) : End(n - 1) <= Len(file') /\ Len(file') < End(n)}
    /\ wbuf' = <<>>
    /\ UNCHANGED <<wpc, written, logs, stored, wend, sealed, rvars>>

\* A write fails, and the program ends without estats_log_close, as those of util/C do.
WriteFails ==
    /\ wpc = "open" /\ written < MaxEntries /\ wpc' = "failed"
    /\ \E k \in 0..(EntrySize - 1) :
          wbuf' = wbuf \o SubSeq(Entry(written + 1), 1, k)
    /\ UNCHANGED <<file, written, logs, stored, wend, torn, sealed, rvars>>

\* stdio moves a part of the buffer to the file.
Flush ==
    /\ \E k \in 1..Len(wbuf) :
          /\ file' = file \o SubSeq(wbuf, 1, k)
          /\ wbuf' = SubSeq(wbuf, k + 1, Len(wbuf))
    /\ UNCHANGED <<wpc, written, logs, stored, wend, torn, sealed, rvars>>

\* The process dies, or exits without closing the log (Flush may come first).
Crash ==
    /\ wpc # "none" /\ wpc' = "none"
    /\ wbuf' = <<>>
    /\ UNCHANGED <<file, written, logs, stored, wend, torn, sealed, rvars>>

\* Mutant: the size of the file is read before the seek that flushes.
SumOfStale ==
    /\ wpc = "open" /\ wpc' = "closing"
    /\ file' = file \o wbuf
    /\ wbuf' = <<Checksum(file)>> /\ sealed' = file
    /\ UNCHANGED <<written, logs, stored, wend, torn, rvars>>

\* estats_log_close, as far as _estats_log_write_checksum: the seek flushes, the
\* file is read back and its sum written at the end.
WriteChecksum ==
    /\ wpc = "open" /\ wpc' = "closing"
    /\ file' = file \o wbuf
    /\ wbuf' = <<Checksum(file')>> /\ sealed' = file'
    /\ UNCHANGED <<written, logs, stored, wend, torn, rvars>>

\* _estats_log_free: fclose flushes.  Nobody looks at its result.
CloseFile ==
    /\ wpc \in {"closing", "open"} /\ wpc' = "none"   \* open: write_checksum failed
    /\ \E k \in 0..Len(wbuf) :
          /\ file' = file \o SubSeq(wbuf, 1, k)
          /\ stored' = (wpc = "closing" /\ k = Len(wbuf))
    /\ wbuf' = <<>>
    /\ UNCHANGED <<written, logs, wend, torn, sealed, rvars>>

-----------------------------------------------------------------------------
(* The reader *)

\* Mutants: the checksum is not looked at; the byte order is not noted.
OpenReadUnchecked ==
    /\ rpc = "closed"
    /\ IF Len(file) > 1 + HeaderLen /\ file[2].n = HeaderLen
         THEN rpc' = "reading" /\ swap' = (file[1].end # Host) /\ rpos' = 2 + HeaderLen
         ELSE rpc' = "refused" /\ UNCHANGED <<swap, rpos>>
    /\ got' = <<>>
    /\ UNCHANGED <<file, wvars>>
OpenReadNoOrder ==
    /\ rpc = "closed"
    /\ IF SumIsZero(file) /\ file[2].n = HeaderLen
         THEN rpc' = "reading" /\ rpos' = 2 + HeaderLen
         ELSE rpc' = "refused" /\ UNCHANGED rpos
    /\ got' = <<>>
    /\ UNCHANGED <<swap, file, wvars>>

\* _estats_log_open_read: the checksum, then the byte order, the size, and that
\* much of a header.  A header of another size does not parse.
OpenRead ==
    /\ rpc = "closed"
    /\ IF /\ SumIsZero(file) /\ Len(file) > 1 + HeaderLen
          /\ file[2].n = HeaderLen /\ ReadRight(file[2], file[1].end # Host)
         THEN rpc' = "reading" /\ swap' = (file[1].end # Host) /\ rpos' = 2 + HeaderLen
         ELSE rpc' = "refused" /\ UNCHANGED <<swap, rpos>>
    /\ got' = <<>>
    /\ UNCHANGED <<file, wvars>>

\* The units the next estats_log_read_entry takes: the two halves of the
\* timestamp, then bufsize.
EntryLen == StampLen + LogBufsize

\* Mutant: what is left is an entry too.
ReadEntryShort ==
    /\ rpc = "reading"
    /\ IF rpos < Len(file)
         THEN /\ got' = Append(got, SubSeq(file, rpos + 1, Len(file)))
              /\ rpos' = Len(file)
              /\ UNCHANGED rpc
         ELSE rpc' = "eof" /\ rpos' = Len(file) /\ UNCHANGED got
    /\ UNCHANGED <<swap, file, wvars>>

\* estats_log_read_entry, and each turn of estats_log_read_all_entries.  The
\* checksum at the end is too short for an entry: a read that meets it is at the
\* end of the file.
ReadEntry ==
    /\ rpc = "reading"
    /\ IF Len(file) - rpos >= EntryLen
         THEN /\ got' = Append(got, SubSeq(file, rpos + 1, rpos + EntryLen))
              /\ rpos' = rpos + EntryLen
              /\ UNCHANGED rpc
         ELSE rpc' = "eof" /\ rpos' = Len(file) /\ UNCHANGED got
    /\ UNCHANGED <<swap, file, wvars>>

CloseRead ==
    /\ rpc # "closed" /\ rpc' = "closed"
    /\ swap' = FALSE /\ rpos' = 0 /\ got' = <<>>
    /\ UNCHANGED <<file, wvars>>

-----------------------------------------------------------------------------

Writer ==
    \/ OpenWrite \/ OpenRefused \/ CopyHeader \/ FixSize \/ OpenFails
    \/ WriteEntry \/ WriteFails \/ WriteFailsGoesOn \/ Flush \/ Crash \/ WriteChecksum \/ CloseFile

Reader == OpenRead \/ ReadEntry \/ CloseRead

Next == Writer \/ Reader

Spec == Init /\ [][Next]_vars

-----------------------------------------------------------------------------
(* Properties *)

TypeOK ==
    /\ wpc \in {"none", "header", "size", "open", "failed", "closing"}
    /\ written \in 0..MaxEntries /\ logs \in 0..MaxLogs
    /\ stored \in BOOLEAN /\ wend \in Ends /\ torn \in 0..(MaxEntries + 1) /\ swap \in BOOLEAN
    /\ rpc \in {"closed", "refused", "reading", "eof"}
    /\ rpos \in 0..Len(file)
    /\ \A i \in DOMAIN got : Len(got[i]) = EntryLen

\* A log that a reader accepts is one that was closed, with all of what it had by then: never
\* the torn file of a writer that is still at work, has failed or died.
AcceptsOnlyWhole ==
    rpc \in {"reading", "eof"} =>
        /\ file = Append(sealed, Checksum(sealed))
        /\ torn > MaxEntries => Len(sealed) = End(written) /\ Holds(sealed, written)

\* The timestamp and every variable of the n-th snapshot are where the header says
\* they are in the entry e that was read, and a number comes in the reader's byte order.
IsEntry(e, n) ==
    /\ \A k \in 1..StampLen : e[k] = Entry(n)[k] /\ ReadRight(e[k], swap)
    /\ \A i \in DOMAIN Vars : \A k \in (Vars[i].off + 1)..VarEnd(i) :
          /\ k <= LogBufsize /\ e[StampLen + k] = Entry(n)[StampLen + k]
          /\ Vars[i].num => ReadRight(e[StampLen + k], swap)

\* The reader is given the entries that were written, in order, with their timestamps and
\* the value of every variable, and all of them by the end: the reader's size of an entry is
\* the writer's (log.c:614, "group (== file) size"), and their machines may differ.  A
\* write that failed spoils none of the entries that were whole before it.
ReadsWhatWasWritten ==
    rpc \in {"reading", "eof"} =>
        /\ \A n \in DOMAIN got : n < torn => IsEntry(got[n], n)
        /\ torn > MaxEntries => Len(got) <= written /\ (rpc = "eof" => Len(got) = written)
        /\ rpc = "eof" => Len(got) >= Min({written, torn - 1})

\* A log that was closed and is on disk is never refused.
StoredIsAccepted ==
    [][ (rpc = "closed" /\ stored) => rpc' # "refused" ]_rvars
=============================================================================
