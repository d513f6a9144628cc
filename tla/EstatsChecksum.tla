---------------------------- MODULE EstatsChecksum ----------------------------
(***************************************************************************)
(* The checksum of a log (log.c): the one's complement sum of the file,    *)
(* two bytes at a time, taken by the writer when it closes the log and     *)
(* compared with 0 by the reader over the whole file.  EstatsLog takes it  *)
(* for a unit without collisions; here it is computed, at a reduced width. *)
(*                                                                         *)
(* Bytes are 0..B-1 (B is 2^8), a word is two of them, and the sum is kept *)
(* in an accumulator of two words (uint32_t), which wraps.  The loop that  *)
(* sums counts bytes with an int (log.c:453): what is said here of logs of *)
(* any length is true of the code for logs of less than 2^31 bytes.        *)
(***************************************************************************)
EXTENDS Integers, Sequences

CONSTANTS
    B,       \* values of a byte
    MaxLen   \* bound: bytes of a log without its checksum

ASSUME ChecksumAssumption == B \in Nat /\ B > 1 /\ MaxLen \in Nat \ {0}

Byte == 0..(B - 1)
W == B * B   \* uint16_t
A == W * W   \* uint32_t

VARIABLES
    file,     \* the bytes of the log
    sealed,   \* the writer has written the checksum
    damaged,  \* a byte has changed on the disk
    verdict   \* of the reader: none, accepted, refused

checksumVars == <<file, sealed, damaged, verdict>>

-----------------------------------------------------------------------------
(* _estats_log_calculate_checksum *)

Odd(bytes) == Len(bytes) % 2 = 1

\* With an odd number of bytes, calloc has put a zero behind the last.
Padded(bytes) == IF Odd(bytes) THEN Append(bytes, 0) ELSE bytes

\* Mutant: only whole words are summed.
WordsUnpadded(bytes) == [i \in 1..(Len(bytes) \div 2) |-> B * bytes[2 * i - 1] + bytes[2 * i]]

\* The words, each with the byte that comes first on top.
Words(bytes) ==
    LET p == Padded(bytes) IN [i \in 1..(Len(p) \div 2) |-> B * p[2 * i - 1] + p[2 * i]]

\* The loop over them, one sum for each round.
Sums(words) ==
    LET sum[i \in 0..Len(words)] == IF i = 0 THEN 0 ELSE sum[i - 1] + words[i] IN sum

Total(bytes) == Sums(Words(bytes))[Len(Words(bytes))]

\* What the accumulator holds after the loop.
Sum(bytes) == Total(bytes) % A

\* The loop that adds what is above a word to the word, until nothing is.
Folded[n \in 0..(A - 1)] == IF n < W THEN n ELSE Folded[(n % W) + (n \div W)]

\* Mutant: the bytes of the sum of an odd file stay where they are.
NoSwap(bytes, word) == word

\* The sum of a file with an odd number of bytes has them exchanged: the checksum
\* starts in the lower half of a word.
Swap(bytes, word) == IF Odd(bytes) THEN B * (word % B) + (word \div B) ELSE word

Checksum(bytes) == (W - 1) - Swap(bytes, Folded[Sum(bytes)])

-----------------------------------------------------------------------------

ChecksumInit ==
    /\ file = <<>>
    /\ sealed = FALSE /\ damaged = FALSE /\ verdict = "none"

\* What the writer puts into the log before it closes it.
Write(b) ==
    /\ ~sealed /\ Len(file) < MaxLen /\ verdict = "none"
    /\ file' = Append(file, b)
    /\ UNCHANGED <<sealed, damaged, verdict>>

\* _estats_log_write_checksum
WriteChecksum ==
    /\ ~sealed /\ file # <<>> /\ verdict = "none"
    /\ file' = file \o <<Checksum(file) \div B, Checksum(file) % B>>
    /\ sealed' = TRUE
    /\ UNCHANGED <<damaged, verdict>>

\* Its seek, calloc or read fails, or the write of its first or second byte.
WriteChecksumFails ==
    /\ ~sealed /\ file # <<>> /\ verdict = "none"
    /\ \/ UNCHANGED file
       \/ file' = Append(file, Checksum(file) \div B)
    /\ verdict' = "failed"
    /\ UNCHANGED <<sealed, damaged>>

\* The disk gives one byte back as another.
Damage(k, b) ==
    /\ sealed /\ ~damaged /\ verdict = "none"
    /\ b # file[k] /\ file' = [file EXCEPT ![k] = b]
    /\ damaged' = TRUE
    /\ UNCHANGED <<sealed, verdict>>

\* _estats_log_open_read, as far as the checksum.
Open ==
    /\ sealed \/ verdict = "failed"
    /\ verdict' = IF Checksum(file) = 0 THEN "accepted" ELSE "refused"
    /\ UNCHANGED <<file, sealed, damaged>>

ChecksumNext ==
    \/ \E b \in Byte : Write(b) \/ \E k \in DOMAIN file : Damage(k, b)
    \/ WriteChecksum \/ WriteChecksumFails \/ Open

ChecksumSpec == ChecksumInit /\ [][ChecksumNext]_checksumVars

-----------------------------------------------------------------------------
(* Properties *)

\* A log that was closed and not changed is accepted, of an odd or an even length, and
\* also when its sum goes over the accumulator: the writer's sum and the reader's lose the
\* same carries, because the checksum never takes the accumulator over its end.
GoodLogAccepted == sealed /\ ~damaged => verdict # "refused"

\* A log with one byte changed is refused, also when the change makes the sum go over the
\* accumulator once more or once less: the carry that is lost makes up for no difference
\* that one byte can make.
DamageRefused == damaged => verdict # "accepted"
=============================================================================
