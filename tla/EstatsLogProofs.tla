---------------------------- MODULE EstatsLogProofs ----------------------------
(***************************************************************************)
(* Theorems about EstatsLog, for any layout whose last variable ends last, *)
(* any length of the header, any number of entries and logs: a reader      *)
(* accepts only what a writer has closed, reads from it what was written,  *)
(* and never refuses a log that reached the disk.                          *)
(***************************************************************************)
EXTENDS EstatsLog, TLAPS, SequenceTheorems

-----------------------------------------------------------------------------
(* The layout *)

LEMMA Constants ==
    HeaderLen \in Nat \ {0} /\ MaxEntries \in Nat /\ MaxLogs \in Nat
BY LogAssumption DEF LogAssumption

LEMMA OrderType == Ends \subseteq {0, 1} /\ Host \in {0, 1}
BY LogAssumption DEF LogAssumption

LEMMA VarsType == Vars \in Seq([off : Nat, len : Nat \ {0}, num : BOOLEAN]) /\ Vars # <<>>
BY LogAssumption DEF LogAssumption

LEMMA LayoutFacts ==
    /\ \A i \in DOMAIN Vars : VarEnd(i) \in Nat \ {0} /\ VarEnd(i) <= GroupSize /\ Vars[i].off \in Nat
    /\ GroupSize \in Nat \ {0} /\ GroupSize = LogBufsize
<1> DEFINE S == {VarEnd(i) : i \in DOMAIN Vars}
<1>1. \A i \in DOMAIN Vars : VarEnd(i) \in Nat \ {0} /\ Vars[i].off \in Nat
  <2> SUFFICES ASSUME NEW i \in DOMAIN Vars
               PROVE  VarEnd(i) \in Nat \ {0} /\ Vars[i].off \in Nat
    OBVIOUS
  <2> DEFINE R == [off : Nat, len : Nat \ {0}, num : BOOLEAN]
  <2>1. Vars[i] \in R
    <3> HIDE DEF R
    <3>1. Vars \in Seq(R)
      BY VarsType DEF R
    <3> QED
      BY <3>1, ElementOfSeq, LenProperties
  <2>2. Vars[i].off \in Nat /\ Vars[i].len \in Nat \ {0}
    BY <2>1
  <2> QED
    BY <2>2 DEF VarEnd
<1>2. Len(Vars) \in DOMAIN Vars
  BY VarsType
<1>3. LogBufsize \in S /\ \A x \in S : x <= LogBufsize /\ x \in Nat
  BY <1>1, <1>2, LayoutAssumption DEF LayoutAssumption, LogBufsize
<1> HIDE DEF S
<1>4. Max(S) = LogBufsize
  BY <1>3 DEF Max
<1> QED
  BY <1>1, <1>2, <1>3, <1>4, LayoutAssumption DEF S, GroupSize, LogBufsize, LayoutAssumption

LEMMA SizeFacts == EntrySize \in Nat /\ EntrySize > 2 /\ EntryLen = EntrySize
BY LayoutFacts DEF EntrySize, EntryLen, StampLen

\* A number of entries and one more.
LEMMA MoreEntries ==
    ASSUME NEW m \in Nat, NEW n \in Nat, m < n, NEW e \in Nat
    PROVE  m * e + e <= n * e
<1>1. PICK d \in Nat : n = m + 1 + d
  <2>1. n - m - 1 \in Nat /\ n = m + 1 + (n - m - 1)
    OBVIOUS
  <2> QED
    BY <2>1
<1>2. n * e = m * e + e + d * e /\ d * e \in Nat
  BY <1>1
<1> QED
  BY <1>2

LEMMA EndFacts ==
    /\ End(0) = 2 + HeaderLen /\ End(0) \in Nat
    /\ \A n \in Nat : End(n) \in Nat /\ End(n + 1) = End(n) + EntrySize /\ End(n) >= End(0)
    /\ \A m, n \in Nat : m < n => End(m) + EntrySize <= End(n)
    /\ \A m, n \in Nat : m <= n => End(m) <= End(n)
<1>1. EntrySize \in Nat /\ HeaderLen \in Nat
  BY SizeFacts, Constants
<1>2. \A m, n \in Nat : m < n => End(m) + EntrySize <= End(n)
  <2> SUFFICES ASSUME NEW m \in Nat, NEW n \in Nat, m < n
               PROVE  End(m) + EntrySize <= End(n)
    OBVIOUS
  <2>1. m * EntrySize + EntrySize <= n * EntrySize
    BY <1>1, MoreEntries
  <2>2. m * EntrySize \in Nat /\ n * EntrySize \in Nat
    BY <1>1
  <2> QED
    BY <1>1, <2>1, <2>2 DEF End
<1>3. \A n \in Nat : End(n) \in Nat /\ End(n + 1) = End(n) + EntrySize
  <2> SUFFICES ASSUME NEW n \in Nat
               PROVE  End(n) \in Nat /\ End(n + 1) = End(n) + EntrySize
    OBVIOUS
  <2>1. n * EntrySize \in Nat /\ (n + 1) * EntrySize = n * EntrySize + EntrySize
    BY <1>1
  <2> QED
    BY <1>1, <2>1 DEF End
<1>4. End(0) = 2 + HeaderLen /\ End(0) \in Nat
  BY <1>1 DEF End
<1>5. \A m, n \in Nat : m <= n => End(m) <= End(n)
  BY <1>1, <1>2, <1>3
<1> QED
  BY <1>2, <1>3, <1>4, <1>5

LEMMA EndBefore ==
    ASSUME NEW w \in Nat, NEW t \in 1..(w + 1)
    PROVE  t - 1 \in Nat /\ t - 1 \in 0..w /\ End(t - 1) \in Nat /\ End(t - 1) <= End(w)
<1>1. t - 1 \in Nat /\ t - 1 \in 0..w /\ t - 1 <= w
  OBVIOUS
<1> QED
  BY <1>1, EndFacts

\* Every unit of the first n entries comes before the end of the n-th.
LEMMA EntryPlace ==
    ASSUME NEW n \in Nat, NEW i \in 1..n, NEW k \in 1..EntrySize
    PROVE  /\ End(i - 1) + k \in 1..End(n) /\ i - 1 \in Nat
           /\ End(i) = End(i - 1) + EntrySize
<1>1. i - 1 \in Nat /\ i - 1 < n /\ (i - 1) + 1 = i
  OBVIOUS
<1>2. End(i - 1) + EntrySize <= End(n) /\ End(i - 1) \in Nat /\ End(n) \in Nat
      /\ End((i - 1) + 1) = End(i - 1) + EntrySize
  BY <1>1, EndFacts
<1> QED
  BY <1>1, <1>2, SizeFacts

-----------------------------------------------------------------------------
(* Units *)

\* What a writer puts into a log before the checksum.
PlainUnit ==
    [kind : {"order"}, end : Ends] \cup [kind : {"size"}, n : Nat, end : Ends]
    \cup [kind : {"header"}, k : Nat] \cup [kind : {"entry"}, n : Nat, k : Nat, end : Ends]

Unit == PlainUnit \cup [kind : {"sum"}, of : Seq(PlainUnit)]

LEMMA NoSum == \A u \in PlainUnit : u.kind # "sum"
BY DEF PlainUnit

LEMMA SumUnit ==
    ASSUME NEW s \in Seq(PlainUnit)
    PROVE  Checksum(s) \in Unit /\ Checksum(s).kind = "sum" /\ Checksum(s) \notin PlainUnit
<1>1. Checksum(s).kind = "sum"
  BY DEF Checksum
<1> QED
  BY <1>1, NoSum DEF Checksum, Unit

LEMMA Units ==
    ASSUME wend \in Ends
    PROVE  /\ Order \in PlainUnit /\ \A n \in Nat : Size(n) \in PlainUnit
           /\ Header \in Seq(PlainUnit) /\ Len(Header) = HeaderLen
           /\ \A n \in Nat : Entry(n) \in Seq(PlainUnit) /\ Len(Entry(n)) = EntrySize
<1>1. Order \in PlainUnit /\ \A n \in Nat : Size(n) \in PlainUnit
  BY DEF Order, Size, PlainUnit
<1>2. \A k \in 1..HeaderLen : [kind |-> "header", k |-> k] \in PlainUnit
  BY DEF PlainUnit
<1>3. \A n \in Nat : \A k \in 1..EntrySize :
          [kind |-> "entry", n |-> n, k |-> k, end |-> wend] \in PlainUnit
  BY DEF PlainUnit
<1>4. Header \in Seq(PlainUnit) /\ Len(Header) = HeaderLen
  BY <1>2, Constants DEF Header
<1>5. \A n \in Nat : Entry(n) \in Seq(PlainUnit) /\ Len(Entry(n)) = EntrySize
  BY <1>3, SizeFacts DEF Entry
<1> QED
  BY <1>1, <1>4, <1>5

\* Two parts of a file, and the first k units of one.
LEMMA Join ==
    ASSUME NEW S, NEW s \in Seq(S), NEW t \in Seq(S)
    PROVE  /\ s \o t \in Seq(S) /\ Len(s \o t) = Len(s) + Len(t)
           /\ \A i \in 1..Len(s) : (s \o t)[i] = s[i]
           /\ \A i \in 1..Len(t) : (s \o t)[Len(s) + i] = t[i]
BY ConcatProperties

LEMMA Joined ==
    \A s, t \in Seq(PlainUnit) :
        /\ s \o t \in Seq(PlainUnit) /\ Len(s \o t) = Len(s) + Len(t)
        /\ \A i \in 1..Len(s) : (s \o t)[i] = s[i]
        /\ \A i \in 1..Len(t) : (s \o t)[Len(s) + i] = t[i]
BY Join

LEMMA JoinedTwice == \A s, t, u \in Seq(PlainUnit) : (s \o t) \o u = s \o (t \o u)
BY ConcatAssociative

LEMMA Part ==
    ASSUME NEW S, NEW s \in Seq(S), NEW k \in 0..Len(s)
    PROVE  /\ SubSeq(s, 1, k) \in Seq(S) /\ Len(SubSeq(s, 1, k)) = k
           /\ \A i \in 1..k : SubSeq(s, 1, k)[i] = s[i]
<1>1. Len(s) \in Nat /\ \A i \in 1..k : s[i] \in S
  OBVIOUS
<1> QED
  BY <1>1, SubSeqProperties

LEMMA OneUnit ==
    ASSUME NEW x
    PROVE  /\ Len(<<x>>) = 1 /\ SubSeq(<<x>>, 1, 1) = <<x>>
           /\ SubSeq(<<x>>, 1, 0) = <<>> /\ SubSeq(<<x>>, 1 + 1, 1) = <<>>
<1> DEFINE s == <<x>>
<1>1. s \in Seq({x}) /\ Len(s) = 1
  OBVIOUS
<1> HIDE DEF s
<1>2. SubSeq(s, 1, 0) = <<>> /\ SubSeq(s, 1 + 1, 1) = <<>>
  BY <1>1, SubSeqEmpty
<1>3. SubSeq(s, 1, 1) = s
  BY <1>1, SubSeqFull
<1> QED
  BY <1>1, <1>2, <1>3 DEF s

\* A part of the buffer moves to the file.
LEMMA Moved ==
    ASSUME NEW S, NEW s \in Seq(S), NEW t \in Seq(S), NEW k \in 0..Len(t)
    PROVE  /\ s \o SubSeq(t, 1, k) \in Seq(S) /\ Len(s \o SubSeq(t, 1, k)) = Len(s) + k
           /\ \A i \in 1..(Len(s) + k) : (s \o SubSeq(t, 1, k))[i] = (s \o t)[i]
<1>1. SubSeq(t, 1, k) \in Seq(S) /\ Len(SubSeq(t, 1, k)) = k
      /\ \A i \in 1..k : SubSeq(t, 1, k)[i] = t[i]
  BY Part
<1>2. /\ s \o SubSeq(t, 1, k) \in Seq(S) /\ Len(s \o SubSeq(t, 1, k)) = Len(s) + k
      /\ \A i \in 1..Len(s) : (s \o SubSeq(t, 1, k))[i] = s[i]
      /\ \A i \in 1..k : (s \o SubSeq(t, 1, k))[Len(s) + i] = SubSeq(t, 1, k)[i]
  BY <1>1, Join
<1>3. \A i \in 1..Len(s) : (s \o t)[i] = s[i]
  BY Join
<1>4. \A i \in 1..k : (s \o t)[Len(s) + i] = t[i] /\ i \in 1..Len(t)
  BY Join
<1>5. ASSUME NEW i \in 1..(Len(s) + k)
      PROVE  (s \o SubSeq(t, 1, k))[i] = (s \o t)[i]
  <2>1. CASE i <= Len(s)
    BY <1>2, <1>3, <2>1
  <2>2. CASE i > Len(s)
    <3>1. i - Len(s) \in 1..k /\ i = Len(s) + (i - Len(s))
      BY <2>2
    <3> QED
      BY <1>1, <1>2, <1>4, <3>1
  <2> QED
    BY <2>1, <2>2
<1> QED
  BY <1>2, <1>5

\* What is in the file and what is left in the buffer are what there was.
LEMMA Flushed ==
    ASSUME NEW S, NEW s \in Seq(S), NEW t \in Seq(S), NEW k \in 0..Len(t)
    PROVE  /\ SubSeq(t, k + 1, Len(t)) \in Seq(S)
           /\ (s \o SubSeq(t, 1, k)) \o SubSeq(t, k + 1, Len(t)) = s \o t
<1>1. Len(t) \in Nat /\ \A i \in 1..Len(t) : t[i] \in S
  OBVIOUS
<1>2. SubSeq(t, 1, k) \in Seq(S) /\ SubSeq(t, k + 1, Len(t)) \in Seq(S)
  BY <1>1, SubSeqProperties
<1>3. SubSeq(t, 1, k) \o SubSeq(t, k + 1, Len(t)) = SubSeq(t, 1, Len(t))
  <2>1. 1 \in 1..(Len(t) + 1) /\ k \in (1 - 1)..Len(t) /\ Len(t) \in k..Len(t)
    BY <1>1
  <2> QED
    BY <2>1, ConcatAdjacentSubSeq
<1>4. SubSeq(t, 1, Len(t)) = t
  BY SubSeqFull
<1>5. ASSUME NEW a \in Seq(S), NEW b \in Seq(S)
      PROVE  (s \o a) \o b = s \o (a \o b)
  BY ConcatAssociative
<1> DEFINE a == SubSeq(t, 1, k)
           b == SubSeq(t, k + 1, Len(t))
<1>6. a \in Seq(S) /\ b \in Seq(S) /\ a \o b = t
  BY <1>2, <1>3, <1>4
<1>7. b \in Seq(S) /\ (s \o a) \o b = s \o t
  <2> HIDE DEF a, b
  <2> QED
    BY <1>5, <1>6
<1> QED
  BY <1>7

-----------------------------------------------------------------------------
(* What is where *)

\* Holds, for a writer whose byte order is e.
HoldsIn(u, n, e) ==
    /\ Len(u) >= End(n)
    /\ u[1] = [kind |-> "order", end |-> e]
    /\ u[2] = [kind |-> "size", n |-> HeaderLen, end |-> e]
    /\ \A k \in 1..HeaderLen : u[2 + k] = Header[k]
    /\ \A i \in 1..n : \A k \in 1..EntrySize :
          u[End(i - 1) + k] = [kind |-> "entry", n |-> i, k |-> k, end |-> e]

LEMMA HoldsIs ==
    ASSUME NEW u, NEW n \in Nat
    PROVE  Holds(u, n) <=> HoldsIn(u, n, wend)
<1>1. \A i \in 1..n : \A k \in 1..EntrySize :
          Entry(i)[k] = [kind |-> "entry", n |-> i, k |-> k, end |-> wend]
  BY DEF Entry
<1> QED
  BY <1>1 DEF Holds, HoldsIn, Order, Size

\* A log that agrees with another one to the end of its m-th entry holds these as well.
LEMMA HoldsLess ==
    ASSUME NEW n \in Nat, NEW m \in 0..n, NEW e, NEW u, NEW v, HoldsIn(u, n, e),
           Len(v) \in Nat, Len(v) >= End(m), \A i \in 1..End(m) : v[i] = u[i]
    PROVE  HoldsIn(v, m, e)
<1>1. End(m) \in Nat /\ End(m) >= 2 + HeaderLen /\ HeaderLen \in Nat
  BY EndFacts, Constants
<1>2. v[1] = u[1] /\ v[2] = u[2] /\ \A k \in 1..HeaderLen : v[2 + k] = u[2 + k]
  <2>1. 1 \in 1..End(m) /\ 2 \in 1..End(m) /\ \A k \in 1..HeaderLen : 2 + k \in 1..End(m)
    BY <1>1
  <2> QED
    BY <2>1
<1>3. ASSUME NEW i \in 1..m, NEW k \in 1..EntrySize
      PROVE  v[End(i - 1) + k] = [kind |-> "entry", n |-> i, k |-> k, end |-> e]
  <2>1. m \in Nat /\ i \in 1..n
    OBVIOUS
  <2>2. End(i - 1) + k \in 1..End(m)
    BY <2>1, EntryPlace
  <2> QED
    BY <2>1, <2>2 DEF HoldsIn
<1> QED
  BY <1>2, <1>3 DEF HoldsIn

\* One entry more.
LEMMA HoldsMore ==
    ASSUME NEW n \in Nat, NEW u \in Seq(PlainUnit), HoldsIn(u, n, wend), Len(u) = End(n),
           wend \in Ends
    PROVE  /\ HoldsIn(u \o Entry(n + 1), n + 1, wend) /\ Len(u \o Entry(n + 1)) = End(n + 1)
           /\ u \o Entry(n + 1) \in Seq(PlainUnit)
<1> DEFINE t == Entry(n + 1)
           v == u \o t
<1>1. t \in Seq(PlainUnit) /\ Len(t) = EntrySize /\ EntrySize \in Nat
  BY Units, SizeFacts
<1>2. v \in Seq(PlainUnit) /\ Len(v) = End(n) + EntrySize
      /\ (\A i \in 1..End(n) : v[i] = u[i]) /\ \A i \in 1..EntrySize : v[End(n) + i] = t[i]
  <2> HIDE DEF t
  <2>1. /\ u \o t \in Seq(PlainUnit) /\ Len(u \o t) = Len(u) + Len(t)
        /\ \A i \in 1..Len(u) : (u \o t)[i] = u[i]
        /\ \A i \in 1..Len(t) : (u \o t)[Len(u) + i] = t[i]
    BY <1>1, Joined
  <2> QED
    BY <1>1, <2>1
<1>3. End(n + 1) = End(n) + EntrySize /\ End(n) \in Nat /\ n + 1 \in Nat
  BY EndFacts
<1>4. \A k \in 1..EntrySize : t[k] = [kind |-> "entry", n |-> n + 1, k |-> k, end |-> wend]
  BY DEF Entry
<1> HIDE DEF t, v
<1>5. HoldsIn(v, n, wend)
  <2>1. n \in 0..n /\ Len(v) \in Nat /\ Len(v) >= End(n)
    BY <1>1, <1>2, <1>3
  <2> QED
    BY <1>2, <2>1, HoldsLess
<1>6. ASSUME NEW i \in 1..(n + 1), NEW k \in 1..EntrySize
      PROVE  v[End(i - 1) + k] = [kind |-> "entry", n |-> i, k |-> k, end |-> wend]
  <2>1. CASE i \in 1..n
    BY <1>5, <2>1 DEF HoldsIn
  <2>2. CASE i = n + 1
    <3>1. i - 1 = n
      BY <2>2
    <3> QED
      BY <1>2, <1>4, <2>2, <3>1
  <2> QED
    BY <2>1, <2>2
<1>7. HoldsIn(v, n + 1, wend)
  BY <1>1, <1>2, <1>3, <1>5, <1>6 DEF HoldsIn
<1> QED
  BY <1>2, <1>3, <1>7 DEF v, t

-----------------------------------------------------------------------------
(* The inductive invariant *)

\* The entries that are known to be at their places.
Kept == IF torn > MaxEntries THEN written ELSE torn - 1

\* What a writer may close.
Fit(units) ==
    /\ units \in Seq(PlainUnit) /\ HoldsIn(units, Kept, wend)
    /\ torn > MaxEntries => Len(units) = End(written)

\* The file is a log that was closed.
Whole == file = Append(sealed, Checksum(sealed)) /\ Fit(sealed)

\* No checksum has been written yet.
Unsealed == file \in Seq(PlainUnit) /\ wbuf \in Seq(PlainUnit)

Begun == <<Order, Size(0)>>

WriterTypes ==
    /\ wpc \in {"none", "header", "size", "open", "failed", "closing"}
    /\ written \in 0..MaxEntries /\ logs \in 0..MaxLogs
    /\ stored \in BOOLEAN /\ wend \in Ends /\ torn \in 1..(MaxEntries + 1)
    /\ torn > MaxEntries \/ torn <= written + 1

WriterAt ==
    /\ wpc = "header" => Unsealed /\ file \o wbuf = Begun /\ written = 0 /\ torn > MaxEntries
    /\ wpc = "size" => Unsealed /\ file \o wbuf = Begun \o Header /\ written = 0 /\ torn > MaxEntries
    /\ wpc = "open" => Unsealed /\ Len(file) >= End(0) /\ Fit(file \o wbuf)
    /\ wpc = "failed" => Unsealed
    /\ wpc = "closing" =>
          Fit(sealed) /\ (\/ file = sealed /\ wbuf = <<Checksum(sealed)>>
                          \/ Whole /\ wbuf = <<>>)
    /\ wpc = "none" => wbuf = <<>> /\ (file \in Seq(PlainUnit) \/ Whole)
    /\ stored => wpc = "none" /\ Whole

ReaderAt ==
    /\ rpc \in {"closed", "refused", "reading", "eof"} /\ swap \in BOOLEAN
    /\ rpc \in {"closed", "refused"} => rpos = 0 /\ got = <<>>
    /\ rpc \in {"reading", "eof"} =>
          /\ Whole /\ (swap <=> wend # Host)
          /\ got \in Seq(Seq(Unit)) /\ End(Len(got)) <= Len(file)
          /\ \A i \in DOMAIN got : got[i] = SubSeq(file, End(i - 1) + 1, End(i))
    /\ rpc = "reading" => rpos = End(Len(got))
    /\ rpc = "eof" => rpos = Len(file) /\ Len(file) - End(Len(got)) < EntrySize

LInv == WriterTypes /\ WriterAt /\ ReaderAt

\* A file that is whole ends in a sum, which no other file does.
LEMMA WholeFacts ==
    ASSUME Whole
    PROVE  /\ sealed \in Seq(PlainUnit) /\ file \in Seq(Unit) /\ Len(file) = Len(sealed) + 1
           /\ file \notin Seq(PlainUnit) /\ file # sealed
           /\ \A i \in 1..Len(sealed) : file[i] = sealed[i]
           /\ SumIsZero(file)
<1>1. sealed \in Seq(PlainUnit) /\ sealed \in Seq(Unit)
  BY DEF Whole, Fit, Unit
<1>2. Checksum(sealed) \in Unit /\ Checksum(sealed) \notin PlainUnit
  BY <1>1, SumUnit
<1>3. /\ file \in Seq(Unit) /\ Len(file) = Len(sealed) + 1 /\ Len(sealed) \in Nat
      /\ file[Len(sealed) + 1] = Checksum(sealed)
      /\ \A i \in 1..Len(sealed) : file[i] = sealed[i]
  BY <1>1, <1>2, AppendProperties DEF Whole
<1>4. file \notin Seq(PlainUnit)
  BY <1>2, <1>3
<1>5. Last(file) = Checksum(sealed) /\ Front(file) = sealed /\ file # <<>>
  <2>1. Front(file) \in Seq(Unit) /\ Len(Front(file)) = Len(sealed)
        /\ \A i \in 1..Len(sealed) : Front(file)[i] = file[i]
    BY <1>3, SubSeqProperties DEF Front
  <2>2. Front(file) = sealed
    BY <1>1, <1>3, <2>1
  <2> QED
    BY <1>3, <2>2 DEF Last
<1> QED
  BY <1>1, <1>3, <1>4, <1>5 DEF SumIsZero

\* A file that no checksum was written to does not end in one.
LEMMA UnsealedRefused ==
    ASSUME file \in Seq(PlainUnit)
    PROVE  ~SumIsZero(file)
<1>1. ASSUME file # <<>>
      PROVE  Last(file) \in PlainUnit
  BY <1>1 DEF Last
<1>2. Last(file).kind = "sum" \/ file = <<>> \/ ~SumIsZero(file)
  BY DEF SumIsZero, Checksum
<1> QED
  BY <1>1, <1>2, NoSum DEF SumIsZero

\* With a reader in the log no writer is at work on it.
LEMMA ReaderAlone ==
    ASSUME LInv, Whole
    PROVE  wpc \in {"none", "closing"} /\ wbuf = <<>>
BY WholeFacts DEF LInv, WriterTypes, WriterAt, Unsealed

LEMMA KeptFacts ==
    ASSUME LInv
    PROVE  Kept \in 0..written /\ written \in Nat /\ torn \in Nat
BY Constants DEF LInv, WriterTypes, Kept

LEMMA InitInv == Init => LInv
<1> SUFFICES ASSUME Init
             PROVE  LInv
  OBVIOUS
<1>1. file \in Seq(PlainUnit)
  BY DEF Init
<1>2. WriterTypes
  <2>1. /\ wpc = "none" /\ written = 0 /\ logs = 0 /\ stored = FALSE /\ wend \in Ends
        /\ torn = MaxEntries + 1
    BY DEF Init
  <2>2. torn \in 1..(MaxEntries + 1) /\ torn > MaxEntries /\ written \in 0..MaxEntries
        /\ logs \in 0..MaxLogs
    BY <2>1, Constants
  <2> QED
    BY <2>1, <2>2 DEF WriterTypes
<1>3. WriterAt
  BY <1>1 DEF Init, WriterAt
<1>4. ReaderAt
  BY DEF Init, ReaderAt
<1> QED
  BY <1>2, <1>3, <1>4 DEF LInv

-----------------------------------------------------------------------------
(* Steps of the writer *)

\* While a writer is at work on the file no reader is in it.
LEMMA NoReader ==
    ASSUME LInv, wpc \in {"header", "size", "open", "failed"}
    PROVE  rpc \in {"closed", "refused"} /\ file \in Seq(PlainUnit) /\ wbuf \in Seq(PlainUnit) /\ ~stored
<1>1. Unsealed
  BY DEF LInv, WriterAt
<1> QED
  BY <1>1, WholeFacts DEF LInv, WriterAt, ReaderAt, Unsealed

\* A reader does not notice steps that leave its file alone.
LEMMA ReaderStays ==
    ASSUME LInv, UNCHANGED rvars,
           \/ rpc \in {"closed", "refused"}
           \/ UNCHANGED <<file, written, wend, torn, sealed>>
    PROVE  ReaderAt'
<1>1. CASE rpc \in {"closed", "refused"}
  BY <1>1 DEF LInv, ReaderAt, rvars
<1>2. CASE UNCHANGED <<file, written, wend, torn, sealed>>
  BY <1>2 DEF LInv, ReaderAt, rvars, Whole, Fit, Kept
<1> QED
  BY <1>1, <1>2

LEMMA StepOpenWrite ==
    ASSUME LInv, OpenWrite
    PROVE  LInv'
<1> USE DEF OpenWrite
<1>1. WriterTypes'
  <2>1. logs \in 0..MaxLogs /\ logs + 1 \in 0..MaxLogs
    BY Constants DEF LInv, WriterTypes
  <2>2. torn' \in 1..(MaxEntries + 1) /\ torn' > MaxEntries /\ written' \in 0..MaxEntries
    BY Constants
  <2>3. wpc' = "header" /\ logs' = logs + 1 /\ stored' = FALSE /\ wend' \in Ends
    OBVIOUS
  <2> HIDE DEF OpenWrite
  <2> QED
    BY <2>1, <2>2, <2>3 DEF WriterTypes
<1>2. WriterAt'
  <2>1. file' \in Seq(PlainUnit)
    OBVIOUS
  <2>2. Order' \in PlainUnit /\ Size(0)' \in PlainUnit
    BY DEF Order, Size, PlainUnit
  <2>3. wbuf' \in Seq(PlainUnit) /\ wbuf' = Begun'
    BY <2>2 DEF Begun
  <2>4. file' \o wbuf' = Begun'
    BY <2>3, ConcatEmptySeq
  <2> QED
    BY <2>1, <2>3, <2>4, Constants DEF WriterAt, Unsealed
<1>3. ReaderAt'
  BY ReaderStays
<1> QED
  BY <1>1, <1>2, <1>3 DEF LInv

LEMMA StepCopyHeader ==
    ASSUME LInv, CopyHeader
    PROVE  LInv'
<1> USE DEF CopyHeader
<1>1. WriterTypes'
  BY DEF LInv, WriterTypes
<1>2. WriterAt'
  <2>1. wend \in Ends /\ file \in Seq(PlainUnit) /\ wbuf \in Seq(PlainUnit) /\ ~stored
        /\ file \o wbuf = Begun /\ written = 0 /\ torn > MaxEntries
    BY NoReader DEF LInv, WriterTypes, WriterAt
  <2>2. Header \in Seq(PlainUnit)
    BY <2>1, Units
  <2>3. wbuf \o Header \in Seq(PlainUnit)
    BY <2>1, <2>2, Joined
  <2>4. file \o (wbuf \o Header) = Begun \o Header
    BY <2>1, <2>2, JoinedTwice
  <2>5. Begun' = Begun /\ Header' = Header
    BY DEF Begun, Order, Size, Header
  <2> QED
    BY <2>1, <2>3, <2>4, <2>5 DEF WriterAt, Unsealed
<1>3. ReaderAt'
  BY NoReader, ReaderStays
<1> QED
  BY <1>1, <1>2, <1>3 DEF LInv

LEMMA StepFixSize ==
    ASSUME LInv, FixSize
    PROVE  LInv'
<1> USE DEF FixSize
<1>1. WriterTypes'
  BY DEF LInv, WriterTypes
<1>2. WriterAt'
  <2> DEFINE u == Begun \o Header
             v == [u EXCEPT ![2] = Size(HeaderLen)]
  <2>1. wend \in Ends /\ ~stored /\ file \o wbuf = u /\ written = 0 /\ torn > MaxEntries
    BY NoReader DEF LInv, WriterTypes, WriterAt
  <2>2. Header \in Seq(PlainUnit) /\ Len(Header) = HeaderLen /\ HeaderLen \in Nat
        /\ Order \in PlainUnit /\ Size(0) \in PlainUnit /\ Size(HeaderLen) \in PlainUnit
    BY <2>1, Units, Constants
  <2>3. Begun \in Seq(PlainUnit) /\ Len(Begun) = 2 /\ Begun[1] = Order
    BY <2>2 DEF Begun
  <2>4. /\ u \in Seq(PlainUnit) /\ Len(u) = 2 + HeaderLen /\ u[1] = Order
        /\ \A k \in 1..HeaderLen : u[2 + k] = Header[k]
    <3> HIDE DEF u
    <3>1. /\ Begun \o Header \in Seq(PlainUnit) /\ Len(Begun \o Header) = Len(Begun) + Len(Header)
          /\ \A i \in 1..Len(Begun) : (Begun \o Header)[i] = Begun[i]
          /\ \A i \in 1..Len(Header) : (Begun \o Header)[Len(Begun) + i] = Header[i]
      BY <2>2, <2>3, Joined
    <3> QED
      BY <2>2, <2>3, <3>1 DEF u
  <2> HIDE DEF u
  <2>5. /\ v \in Seq(PlainUnit) /\ Len(v) = 2 + HeaderLen /\ v[1] = Order /\ v[2] = Size(HeaderLen)
        /\ \A k \in 1..HeaderLen : v[2 + k] = Header[k]
    BY <2>2, <2>4
  <2> HIDE DEF v
  <2>6. HoldsIn(v, 0, wend) /\ Len(v) = End(0)
    BY <2>2, <2>5, EndFacts DEF HoldsIn, Order, Size
  <2>7. file' = v /\ file' \o wbuf' = v
    <3>1. v \o <<>> = v
      BY <2>5, ConcatEmptySeq
    <3> QED
      BY <2>1, <3>1 DEF v
  <2>8. wpc' = "open" /\ wbuf' = <<>> /\ wend' = wend /\ ~stored' /\ written' = 0
        /\ torn' > MaxEntries /\ Kept' = 0
    BY <2>1 DEF Kept
  <2> HIDE DEF FixSize
  <2>9. Fit(file \o wbuf)'
    BY <2>5, <2>6, <2>7, <2>8 DEF Fit
  <2>10. Len(file') >= End(0)
    BY <2>2, <2>5, <2>6, <2>7
  <2> QED
    BY <2>5, <2>7, <2>8, <2>9, <2>10 DEF WriterAt, Unsealed
<1>3. ReaderAt'
  BY NoReader, ReaderStays
<1> QED
  BY <1>1, <1>2, <1>3 DEF LInv

LEMMA StepOpenRefused ==
    ASSUME LInv, OpenRefused
    PROVE  LInv'
<1> USE DEF OpenRefused
<1>1. WriterTypes'
  BY Constants DEF LInv, WriterTypes
<1>2. WriterAt'
  BY DEF LInv, WriterAt, Unsealed, Whole, Fit, Kept
<1>3. ReaderAt'
  BY ReaderStays
<1> QED
  BY <1>1, <1>2, <1>3 DEF LInv

LEMMA StepOpenFails ==
    ASSUME LInv, OpenFails
    PROVE  LInv'
<1> USE DEF OpenFails
<1>1. WriterTypes'
  BY DEF LInv, WriterTypes
<1>2. WriterAt'
  <2>1. file \in Seq(PlainUnit) /\ wbuf \in Seq(PlainUnit) /\ ~stored
    BY NoReader
  <2>2. file' \in Seq(PlainUnit)
    BY <2>1, Moved
  <2> QED
    BY <2>1, <2>2 DEF WriterAt
<1>3. ReaderAt'
  BY NoReader, ReaderStays
<1> QED
  BY <1>1, <1>2, <1>3 DEF LInv

LEMMA StepWriteEntry ==
    ASSUME LInv, WriteEntry
    PROVE  LInv'
<1> USE DEF WriteEntry
<1>1. WriterTypes'
  BY Constants DEF LInv, WriterTypes
<1>2. WriterAt'
  <2> DEFINE t == Entry(written + 1)
             u == file \o wbuf
  <2>1. /\ wend \in Ends /\ file \in Seq(PlainUnit) /\ wbuf \in Seq(PlainUnit) /\ ~stored
        /\ Len(file) >= End(0) /\ Fit(u) /\ written \in Nat /\ torn \in Nat /\ Kept \in 0..written
    BY NoReader, KeptFacts DEF LInv, WriterTypes, WriterAt
  <2>2. t \in Seq(PlainUnit) /\ Len(t) = EntrySize /\ EntrySize \in Nat
    BY <2>1, Units, SizeFacts
  <2> HIDE DEF t
  <2>3. wbuf \o t \in Seq(PlainUnit) /\ file \o (wbuf \o t) = u \o t
    BY <2>1, <2>2, Joined, JoinedTwice
  <2>4. u \in Seq(PlainUnit)
    BY <2>1, Joined
  <2> HIDE DEF u
  <2>5. /\ u \o t \in Seq(PlainUnit) /\ Len(u \o t) = Len(u) + Len(t)
        /\ \A i \in 1..Len(u) : (u \o t)[i] = u[i]
    BY <2>2, <2>4, Joined
  <2>6. HoldsIn(u \o t, Kept', wend) /\ (torn > MaxEntries => Len(u \o t) = End(written + 1))
    <3>1. CASE torn > MaxEntries
      <4>1. HoldsIn(u, written, wend) /\ Len(u) = End(written)
        BY <2>1, <3>1 DEF Fit, Kept
      <4> QED
        BY <2>1, <2>4, <3>1, <4>1, HoldsMore DEF Kept, t
    <3>2. CASE ~(torn > MaxEntries)
      <4>1. HoldsIn(u, Kept, wend) /\ Kept' = Kept /\ Kept \in Nat /\ End(Kept) \in Nat
        BY <2>1, <3>2, EndFacts DEF Fit, Kept
      <4>2. Len(u) >= End(Kept) /\ Len(u) \in Nat
        BY <2>4, <4>1 DEF HoldsIn
      <4>3. Kept \in 0..Kept /\ Len(u \o t) \in Nat /\ Len(u \o t) >= End(Kept)
            /\ \A i \in 1..End(Kept) : (u \o t)[i] = u[i]
        BY <2>2, <2>5, <4>1, <4>2
      <4>4. HoldsIn(u \o t, Kept, wend)
        BY <4>1, <4>3, HoldsLess
      <4> QED
        BY <3>2, <4>1, <4>4
    <3> QED
      BY <3>1, <3>2
  <2>7. file' \o wbuf' = u \o t
    BY <2>3 DEF t
  <2>8. Fit(file \o wbuf)'
    BY <2>5, <2>6, <2>7 DEF Fit
  <2> QED
    BY <2>1, <2>3, <2>8 DEF WriterAt, Unsealed, t
<1>3. ReaderAt'
  BY NoReader, ReaderStays
<1> QED
  BY <1>1, <1>2, <1>3 DEF LInv

\* What a write that failed may leave of the buffer and of an entry's first k units.
LEMMA PieceOfEntry ==
    ASSUME wend \in Ends, NEW n \in Nat, NEW k \in 0..(EntrySize - 1)
    PROVE  SubSeq(Entry(n), 1, k) \in Seq(PlainUnit)
<1> DEFINE t == Entry(n)
<1>1. t \in Seq(PlainUnit) /\ Len(t) = EntrySize /\ k \in 0..Len(t)
  BY Units, SizeFacts
<1> HIDE DEF t
<1>2. SubSeq(t, 1, k) \in Seq(PlainUnit)
  BY <1>1, Part
<1> QED
  BY <1>2 DEF t

LEMMA StepWriteFailsGoesOn ==
    ASSUME LInv, WriteFailsGoesOn
    PROVE  LInv'
<1>1. /\ wend \in Ends /\ file \in Seq(PlainUnit) /\ wbuf \in Seq(PlainUnit) /\ ~stored
      /\ rpc \in {"closed", "refused"} /\ wpc = "open" /\ torn > MaxEntries
      /\ Len(file) >= End(0) /\ Fit(file \o wbuf) /\ written \in Nat /\ written < MaxEntries
  BY NoReader, KeptFacts DEF LInv, WriterTypes, WriterAt, WriteFailsGoesOn
<1>2. PICK k \in 0..(EntrySize - 1) :
          LET all == wbuf \o SubSeq(Entry(written + 1), 1, k) IN
          \E m \in 0..Len(all) :
             /\ file' = file \o SubSeq(all, 1, m)
             /\ torn' \in {n \in 1..(written + 1) : End(n - 1) <= Len(file') /\ Len(file') < End(n)}
  BY DEF WriteFailsGoesOn
<1>3. wbuf' = <<>> /\ UNCHANGED <<wpc, written, logs, stored, wend, sealed, rvars>>
  BY DEF WriteFailsGoesOn
<1> DEFINE p == SubSeq(Entry(written + 1), 1, k)
           all == wbuf \o p
           u == file \o wbuf
<1>4. p \in Seq(PlainUnit)
  BY <1>1, PieceOfEntry
<1>5. PICK m \in 0..Len(all) :
          /\ file' = file \o SubSeq(all, 1, m)
          /\ torn' \in 1..(written + 1) /\ End(torn' - 1) <= Len(file')
  BY <1>2
<1>51. m \in 0..Len(all) /\ file' = file \o SubSeq(all, 1, m)
  BY <1>5
<1>52. torn' \in 1..(written + 1) /\ End(torn' - 1) <= Len(file')
  BY <1>5
<1> HIDE DEF p
<1>6. all \in Seq(PlainUnit) /\ file \o all = u \o p /\ u \in Seq(PlainUnit)
  BY <1>1, <1>4, Joined, JoinedTwice
<1>7. HoldsIn(u, written, wend) /\ Len(u) = End(written)
  BY <1>1 DEF Fit, Kept
<1> HIDE DEF all
<1>8. /\ file' \in Seq(PlainUnit) /\ Len(file') = Len(file) + m /\ Len(file') \in Nat
      /\ \A i \in 1..(Len(file) + m) : file'[i] = (u \o p)[i]
  <2>1. /\ file \o SubSeq(all, 1, m) \in Seq(PlainUnit)
        /\ Len(file \o SubSeq(all, 1, m)) = Len(file) + m
        /\ \A i \in 1..(Len(file) + m) : (file \o SubSeq(all, 1, m))[i] = (file \o all)[i]
    BY <1>1, <1>51, <1>6, Moved
  <2>2. Len(file') \in Nat
    BY <1>51, <2>1
  <2> QED
    BY <1>51, <1>6, <2>1, <2>2
<1> HIDE DEF u
<1>9. \A i \in 1..Len(u) : (u \o p)[i] = u[i]
  BY <1>4, <1>6, Joined
<1> DEFINE c == torn' - 1
<1>10. c \in Nat /\ c \in 0..written /\ End(c) \in Nat /\ End(c) <= End(written) /\ End(c) <= Len(file')
  <2>1. written \in Nat
    BY <1>1
  <2> QED
    BY <2>1, <1>52, EndBefore
<1> HIDE DEF c
<1>11. \A i \in 1..End(c) : file'[i] = u[i]
  BY <1>7, <1>8, <1>9, <1>10
<1>12. HoldsIn(file', c, wend)
  BY <1>1, <1>7, <1>8, <1>10, <1>11, HoldsLess
<1>13. torn' <= MaxEntries /\ torn' \in 1..(MaxEntries + 1) /\ torn' <= written' + 1 /\ Kept' = c
  <2>1. written \in Nat /\ written < MaxEntries /\ written' = written /\ MaxEntries \in Nat
    BY <1>1, <1>3, Constants
  <2>2. torn' <= MaxEntries /\ torn' \in 1..(MaxEntries + 1) /\ torn' <= written' + 1
        /\ ~(torn' > MaxEntries)
    BY <1>52, <2>1
  <2> QED
    BY <2>2 DEF Kept, c
<1>14. WriterTypes'
  BY <1>3, <1>13 DEF LInv, WriterTypes
<1>15. WriterAt'
  <2>1. file' \o wbuf' = file'
    BY <1>3, <1>8, ConcatEmptySeq
  <2>2. ~(torn' > MaxEntries) /\ wend' = wend
    BY <1>3, <1>13, Constants
  <2>3. Fit(file \o wbuf)'
    BY <1>8, <1>12, <1>13, <2>1, <2>2 DEF Fit
  <2>4. Len(file') >= End(0)
    <3>1. End(0) \in Nat /\ Len(file) \in Nat /\ Len(file) >= End(0) /\ m \in Nat
      BY <1>1, <1>6, <1>51, EndFacts
    <3> QED
      BY <1>8, <3>1
  <2> QED
    BY <1>1, <1>3, <1>8, <2>3, <2>4 DEF WriterAt, Unsealed
<1>16. ReaderAt'
  BY <1>1, <1>3, ReaderStays
<1> QED
  BY <1>14, <1>15, <1>16 DEF LInv

LEMMA StepWriteFails ==
    ASSUME LInv, WriteFails
    PROVE  LInv'
<1>1. /\ wend \in Ends /\ file \in Seq(PlainUnit) /\ wbuf \in Seq(PlainUnit) /\ ~stored
      /\ rpc \in {"closed", "refused"} /\ written \in Nat
  BY NoReader, KeptFacts DEF LInv, WriterTypes, WriteFails
<1>2. PICK k \in 0..(EntrySize - 1) : wbuf' = wbuf \o SubSeq(Entry(written + 1), 1, k)
  BY DEF WriteFails
<1>3. wpc' = "failed" /\ UNCHANGED <<file, written, logs, stored, wend, torn, sealed, rvars>>
  BY DEF WriteFails
<1>4. wbuf' \in Seq(PlainUnit)
  BY <1>1, <1>2, PieceOfEntry, Joined
<1>5. WriterTypes'
  BY <1>3 DEF LInv, WriterTypes
<1>6. WriterAt'
  BY <1>1, <1>3, <1>4 DEF WriterAt, Unsealed
<1>7. ReaderAt'
  BY <1>3, ReaderStays
<1> QED
  BY <1>5, <1>6, <1>7 DEF LInv

LEMMA StepFlush ==
    ASSUME LInv, Flush
    PROVE  LInv'
<1>1. PICK k \in 1..Len(wbuf) :
          file' = file \o SubSeq(wbuf, 1, k) /\ wbuf' = SubSeq(wbuf, k + 1, Len(wbuf))
  BY DEF Flush
<1>2. UNCHANGED <<wpc, written, logs, stored, wend, torn, sealed, rvars>>
  BY DEF Flush
<1>3. WriterTypes'
  BY <1>2 DEF LInv, WriterTypes
<1>4. CASE wpc \in {"header", "size", "open", "failed"}
  <2>1. /\ file \in Seq(PlainUnit) /\ wbuf \in Seq(PlainUnit) /\ ~stored /\ rpc \in {"closed", "refused"}
    BY <1>4, NoReader
  <2>2. Len(wbuf) \in Nat /\ k \in 0..Len(wbuf)
    BY <2>1
  <2>3. /\ file' \in Seq(PlainUnit) /\ Len(file') = Len(file) + k
    BY <1>1, <2>1, <2>2, Moved
  <2>4. wbuf' \in Seq(PlainUnit) /\ file' \o wbuf' = file \o wbuf
    BY <1>1, <2>1, <2>2, Flushed
  <2>5. WriterAt'
    <3>1. Begun' = Begun /\ Header' = Header /\ Kept' = Kept
      BY <1>2 DEF Begun, Header, Order, Size, Kept
    <3>2. wpc = "open" => Fit(file \o wbuf)' /\ Len(file') >= End(0)
      <4>1. SUFFICES ASSUME wpc = "open"
                     PROVE  Fit(file \o wbuf)' /\ Len(file') >= End(0)
        OBVIOUS
      <4>2. Fit(file \o wbuf) /\ Len(file) >= End(0)
        BY <4>1 DEF LInv, WriterAt
      <4>3. Fit(file \o wbuf)'
        BY <1>2, <2>4, <3>1, <4>2 DEF Fit
      <4>4. Len(file') >= End(0)
        <5>1. End(0) \in Nat /\ Len(file) \in Nat /\ k \in Nat
          BY <2>1, <2>2, EndFacts
        <5> QED
          BY <2>3, <4>2, <5>1
      <4> QED
        BY <4>3, <4>4
    <3> QED
      BY <1>2, <1>4, <2>1, <2>3, <2>4, <3>1, <3>2 DEF LInv, WriterAt, Unsealed
  <2>6. ReaderAt'
    BY <1>2, <2>1, ReaderStays
  <2> QED
    BY <1>3, <2>5, <2>6 DEF LInv
<1>5. CASE wpc = "closing"
  <2>0. Len(wbuf) # 0
    BY <1>1
  <2>1. Fit(sealed) /\ file = sealed /\ wbuf = <<Checksum(sealed)>> /\ ~stored
    BY <1>5, <2>0 DEF LInv, WriterAt
  <2>2. k = 1 /\ SubSeq(wbuf, 1, k) = <<Checksum(sealed)>> /\ wbuf' = <<>>
    BY <1>1, <2>1, OneUnit
  <2>3. file' = Append(sealed, Checksum(sealed))
    <3>1. sealed \in Seq(PlainUnit)
      BY <2>1 DEF Fit
    <3>2. sealed \o <<Checksum(sealed)>> = Append(sealed, Checksum(sealed))
      BY <3>1
    <3> QED
      BY <1>1, <2>1, <2>2, <3>2
  <2>4. Fit(sealed)' /\ Whole'
    BY <1>2, <2>1, <2>3 DEF Fit, Kept, Whole, Checksum
  <2>5. WriterAt'
    BY <1>2, <1>5, <2>1, <2>2, <2>4 DEF WriterAt
  <2>6. ReaderAt'
    <3>1. rpc \in {"closed", "refused"}
      BY <2>1, WholeFacts DEF LInv, ReaderAt
    <3> QED
      BY <1>2, <3>1, ReaderStays
  <2> QED
    BY <1>3, <2>5, <2>6 DEF LInv
<1>6. CASE wpc = "none"
  BY <1>1, <1>6 DEF LInv, WriterAt
<1> QED
  BY <1>4, <1>5, <1>6 DEF LInv, WriterTypes

LEMMA StepCrash ==
    ASSUME LInv, Crash
    PROVE  LInv'
<1> USE DEF Crash
<1>1. WriterTypes'
  BY DEF LInv, WriterTypes
<1>2. ~stored /\ (file \in Seq(PlainUnit) \/ Whole)
  BY DEF LInv, WriterTypes, WriterAt, Unsealed, Fit
<1>3. WriterAt'
  BY <1>2 DEF WriterAt, Whole, Fit, Kept
<1>4. ReaderAt'
  BY ReaderStays
<1> QED
  BY <1>1, <1>3, <1>4 DEF LInv

LEMMA StepWriteChecksum ==
    ASSUME LInv, WriteChecksum
    PROVE  LInv'
<1> USE DEF WriteChecksum
<1>1. WriterTypes'
  BY DEF LInv, WriterTypes
<1>2. /\ file \in Seq(PlainUnit) /\ wbuf \in Seq(PlainUnit) /\ ~stored
      /\ rpc \in {"closed", "refused"} /\ Fit(file \o wbuf)
  BY NoReader DEF LInv, WriterAt
<1>3. Fit(sealed)' /\ file' = sealed' /\ wbuf' = <<Checksum(sealed)>>'
  BY <1>2 DEF Fit, Kept, Checksum
<1>4. WriterAt'
  BY <1>2, <1>3 DEF WriterAt
<1>5. ReaderAt'
  BY <1>2, ReaderStays
<1> QED
  BY <1>1, <1>4, <1>5 DEF LInv

LEMMA StepCloseFile ==
    ASSUME LInv, CloseFile
    PROVE  LInv'
<1>1. PICK k \in 0..Len(wbuf) :
          file' = file \o SubSeq(wbuf, 1, k) /\ stored' = (wpc = "closing" /\ k = Len(wbuf))
  BY DEF CloseFile
<1>2. wpc \in {"closing", "open"} /\ wpc' = "none" /\ wbuf' = <<>>
      /\ UNCHANGED <<written, logs, wend, torn, sealed, rvars>>
  BY DEF CloseFile
<1>3. WriterTypes'
  BY <1>1, <1>2 DEF LInv, WriterTypes
<1>4. CASE wpc = "open"
  <2>1. /\ file \in Seq(PlainUnit) /\ wbuf \in Seq(PlainUnit) /\ rpc \in {"closed", "refused"}
    BY <1>4, NoReader
  <2>2. file' \in Seq(PlainUnit)
    BY <1>1, <2>1, Moved
  <2>3. WriterAt'
    BY <1>1, <1>2, <1>4, <2>2 DEF WriterAt
  <2>4. ReaderAt'
    BY <1>2, <2>1, ReaderStays
  <2> QED
    BY <1>3, <2>3, <2>4 DEF LInv
<1>5. CASE wpc = "closing" /\ file = sealed /\ wbuf = <<Checksum(sealed)>>
  <2>1. Fit(sealed) /\ sealed \in Seq(PlainUnit)
    BY <1>5 DEF LInv, WriterAt, Fit
  <2>10. Len(wbuf) = 1 /\ SubSeq(wbuf, 1, 1) = <<Checksum(sealed)>> /\ SubSeq(wbuf, 1, 0) = <<>>
    BY <1>5, OneUnit
  <2>11. k = 0 \/ k = 1
    BY <1>1, <2>10
  <2>2. ASSUME k = 0
        PROVE  WriterAt'
    <3>1. file' = file
      <4>1. SubSeq(wbuf, 1, 0) = <<>>
        BY <2>10
      <4>2. sealed \o <<>> = sealed
        BY <2>1, ConcatEmptySeq
      <4> QED
        BY <1>1, <1>5, <2>2, <4>1, <4>2
    <3>2. ~stored'
      <4>1. ~(wpc = "closing" /\ k = Len(wbuf))
        BY <2>2, <2>10
      <4> QED
        BY <1>1, <4>1, Zenon
    <3>3. file' \in Seq(PlainUnit)
      BY <1>5, <2>1, <3>1
    <3> QED
      BY <1>2, <3>2, <3>3 DEF WriterAt
  <2>3. ASSUME k = 1
        PROVE  WriterAt'
    <3>1. SubSeq(wbuf, 1, 1) = <<Checksum(sealed)>>
      BY <2>10
    <3>2. sealed \o <<Checksum(sealed)>> = Append(sealed, Checksum(sealed))
      BY <2>1
    <3>3. file' = Append(sealed, Checksum(sealed))
      BY <1>1, <1>5, <2>3, <3>1, <3>2
    <3>4. Whole'
      BY <1>2, <2>1, <3>3 DEF Fit, Kept, Whole, Checksum
    <3> QED
      BY <1>2, <3>4 DEF WriterAt
  <2>4. WriterAt'
    BY <2>2, <2>3, <2>11
  <2>5. ReaderAt'
    <3>1. rpc \in {"closed", "refused"}
      BY <1>5, WholeFacts DEF LInv, ReaderAt
    <3> QED
      BY <1>2, <3>1, ReaderStays
  <2> QED
    BY <1>3, <2>4, <2>5 DEF LInv
<1>6. CASE wpc = "closing" /\ Whole /\ wbuf = <<>>
  <2>1. file' = file
    <3>1. k = 0 /\ SubSeq(wbuf, 1, 0) = <<>> /\ file \in Seq(Unit)
      BY <1>1, <1>6, WholeFacts
    <3> QED
      BY <1>1, <3>1, ConcatEmptySeq
  <2>2. Whole'
    BY <1>2, <1>6, <2>1 DEF Fit, Kept, Whole
  <2>3. WriterAt'
    BY <1>2, <2>2 DEF WriterAt
  <2>4. ReaderAt'
    BY <1>2, <2>1, ReaderStays
  <2> QED
    BY <1>3, <2>3, <2>4 DEF LInv
<1> QED
  BY <1>2, <1>4, <1>5, <1>6 DEF LInv, WriterAt

-----------------------------------------------------------------------------
(* Steps of the reader *)

\* Only a log that was closed has the sum 0.
LEMMA SumOfWhole ==
    ASSUME LInv, SumIsZero(file)
    PROVE  Whole
<1>1. file \notin Seq(PlainUnit)
  BY UnsealedRefused
<1> QED
  BY <1>1 DEF LInv, WriterTypes, WriterAt, Unsealed, Fit

\* The head of a log that was closed passes every test of OpenRead.
LEMMA WholeHead ==
    ASSUME LInv, Whole
    PROVE  /\ file[1].end = wend /\ file[2].end = wend /\ file[2].n = HeaderLen
           /\ Len(file) \in Nat /\ Len(file) > End(Kept) /\ Len(file) > 1 + HeaderLen
           /\ file \in Seq(Unit) /\ SumIsZero(file)
           /\ torn > MaxEntries => Len(file) = End(written) + 1
           /\ \A i \in 1..End(Kept) : file[i] = sealed[i]
           /\ HoldsIn(sealed, Kept, wend)
<1>1. /\ sealed \in Seq(PlainUnit) /\ file \in Seq(Unit) /\ Len(file) = Len(sealed) + 1
      /\ \A i \in 1..Len(sealed) : file[i] = sealed[i]
      /\ SumIsZero(file)
  BY WholeFacts
<1>2. HoldsIn(sealed, Kept, wend) /\ (torn > MaxEntries => Len(sealed) = End(written))
  BY DEF Whole, Fit
<1>3. Kept \in Nat
  BY KeptFacts
<1>4. End(Kept) \in Nat /\ End(Kept) >= 2 + HeaderLen /\ HeaderLen \in Nat
  BY <1>3, EndFacts, Constants
<1>5. Len(sealed) \in Nat /\ Len(sealed) >= End(Kept)
  BY <1>1, <1>2 DEF HoldsIn
<1>6. 1 \in 1..Len(sealed) /\ 2 \in 1..Len(sealed)
  BY <1>4, <1>5
<1>7. file[1] = sealed[1] /\ file[2] = sealed[2]
  BY <1>1, <1>6
<1>8. file[1].end = wend /\ file[2].end = wend /\ file[2].n = HeaderLen
  BY <1>2, <1>7 DEF HoldsIn
<1>9. Len(file) \in Nat /\ Len(file) > End(Kept) /\ Len(file) > 1 + HeaderLen
  BY <1>1, <1>4, <1>5
<1>10. \A i \in 1..End(Kept) : file[i] = sealed[i]
  BY <1>1, <1>4, <1>5
<1> QED
  BY <1>1, <1>2, <1>8, <1>9, <1>10

\* Steps of a reader leave the writer alone.
LEMMA WriterStays ==
    ASSUME LInv, UNCHANGED <<file, wvars>>
    PROVE  WriterTypes' /\ WriterAt' /\ (Whole => Whole') /\ wend' = wend
<1> USE DEF wvars
<1>1. WriterTypes'
  BY DEF LInv, WriterTypes
<1>2. Whole' = Whole /\ Fit(sealed)' = Fit(sealed) /\ Fit(file \o wbuf)' = Fit(file \o wbuf)
  BY DEF Whole, Fit, Kept
<1>3. Unsealed' = Unsealed /\ Begun' = Begun /\ Header' = Header
  BY DEF Unsealed, Begun, Order, Size, Header
<1>4. WriterAt'
  BY <1>2, <1>3 DEF LInv, WriterAt, Checksum
<1> QED
  BY <1>1, <1>2, <1>4

LEMMA StepOpenRead ==
    ASSUME LInv, OpenRead
    PROVE  LInv'
<1>1. rpc = "closed" /\ got' = <<>> /\ UNCHANGED <<file, wvars>>
  BY DEF OpenRead
<1>2. WriterTypes' /\ WriterAt' /\ (Whole => Whole') /\ wend' = wend
  BY <1>1, WriterStays
<1>3. CASE rpc' = "refused" /\ UNCHANGED <<swap, rpos>>
  <2>1. ReaderAt'
    BY <1>1, <1>3 DEF LInv, ReaderAt
  <2> QED
    BY <1>2, <2>1 DEF LInv
<1>4. CASE /\ SumIsZero(file)
           /\ rpc' = "reading" /\ swap' = (file[1].end # Host) /\ rpos' = 2 + HeaderLen
  <2>1. Whole
    BY <1>4, SumOfWhole
  <2>2. file[1].end = wend /\ Len(file) \in Nat /\ Len(file) > 1 + HeaderLen
    BY <2>1, WholeHead
  <2>3. swap' \in BOOLEAN /\ (swap' <=> wend' # Host)
    BY <1>2, <1>4, <2>2, Zenon
  <2>4. Len(got') = 0 /\ got' \in Seq(Seq(Unit)) /\ DOMAIN got' = {}
    BY <1>1
  <2>5. End(Len(got')) = 2 + HeaderLen /\ End(Len(got')) <= Len(file')
    BY <1>1, <2>2, <2>4, EndFacts, Constants
  <2>6. ReaderAt'
    <3>1. rpc' = "reading" /\ rpos' = End(Len(got')) /\ Whole'
      BY <1>2, <1>4, <2>1, <2>5
    <3> QED
      BY <2>3, <2>4, <2>5, <3>1 DEF ReaderAt
  <2> QED
    BY <1>2, <2>6 DEF LInv
<1> QED
  BY <1>3, <1>4 DEF OpenRead

LEMMA StepReadEntry ==
    ASSUME LInv, ReadEntry
    PROVE  LInv'
<1>1. rpc = "reading" /\ UNCHANGED <<swap, file, wvars>>
  BY DEF ReadEntry
<1>2. WriterTypes' /\ WriterAt' /\ (Whole => Whole') /\ wend' = wend
  BY <1>1, WriterStays
<1>3. /\ Whole /\ (swap <=> wend # Host) /\ swap \in BOOLEAN
      /\ got \in Seq(Seq(Unit)) /\ End(Len(got)) <= Len(file)
      /\ \A i \in DOMAIN got : got[i] = SubSeq(file, End(i - 1) + 1, End(i))
      /\ rpos = End(Len(got))
  BY <1>1 DEF LInv, ReaderAt
<1> DEFINE n == Len(got)
<1>4. /\ n \in Nat /\ End(n) \in Nat /\ End(n + 1) = End(n) + EntrySize /\ End(n + 1) \in Nat
      /\ Len(file) \in Nat /\ file \in Seq(Unit)
  <2>1. n \in Nat /\ n + 1 \in Nat
    BY <1>3
  <2> QED
    BY <1>3, <2>1, EndFacts, WholeHead
<1>5. EntrySize \in Nat /\ EntrySize > 2 /\ EntryLen = EntrySize
  BY SizeFacts
<1>6. CASE /\ Len(file) - rpos >= EntryLen
           /\ got' = Append(got, SubSeq(file, rpos + 1, rpos + EntryLen))
           /\ rpos' = rpos + EntryLen
           /\ UNCHANGED rpc
  <2> DEFINE e == SubSeq(file, End(n) + 1, End(n + 1))
  <2>0. rpos = End(n) /\ rpos + EntryLen = End(n + 1)
    BY <1>3, <1>4, <1>5
  <2>1. got' = Append(got, e) /\ rpos' = End(n + 1) /\ End(n + 1) <= Len(file)
    <3>1. got' = Append(got, e) /\ rpos' = End(n + 1)
      BY <1>6, <2>0
    <3>2. Len(file) - End(n) >= EntrySize
      BY <1>5, <1>6, <2>0
    <3> QED
      BY <1>4, <1>5, <3>1, <3>2
  <2>2. e \in Seq(Unit)
    <3>1. End(n) + 1 \in 1..(Len(file) + 1) /\ End(n + 1) \in ((End(n) + 1) - 1)..Len(file)
      BY <1>4, <1>5, <2>1
    <3> QED
      BY <1>4, <3>1, SubSeqProperties
  <2> HIDE DEF e
  <2>3. /\ got' \in Seq(Seq(Unit)) /\ Len(got') = n + 1 /\ got'[n + 1] = e
        /\ \A i \in 1..n : got'[i] = got[i]
    BY <1>3, <2>1, <2>2, AppendProperties
  <2>4. ASSUME NEW i \in DOMAIN got'
        PROVE  got'[i] = SubSeq(file, End(i - 1) + 1, End(i))
    <3>1. i \in 1..(n + 1)
      <4>1. DOMAIN got' = 1..Len(got')
        BY <2>3
      <4> QED
        BY <2>3, <4>1
    <3>2. CASE i \in 1..n
      <4>1. i \in DOMAIN got
        BY <1>3, <3>2
      <4>2. got[i] = SubSeq(file, End(i - 1) + 1, End(i))
        BY <1>3, <4>1
      <4> QED
        BY <2>3, <3>2, <4>2
    <3>3. CASE i = n + 1
      <4>1. i - 1 = n
        BY <1>4, <3>3
      <4> QED
        BY <2>3, <3>3, <4>1 DEF e
    <3> QED
      BY <1>4, <3>1, <3>2, <3>3
  <2>5. ReaderAt'
    <3>1. /\ rpc' = "reading" /\ swap' = swap /\ file' = file /\ Whole'
          /\ rpos' = End(Len(got')) /\ End(Len(got')) <= Len(file')
      BY <1>1, <1>2, <1>3, <1>6, <2>1, <2>3
    <3> QED
      BY <1>2, <1>3, <2>3, <2>4, <3>1 DEF ReaderAt
  <2> QED
    BY <1>2, <2>5 DEF LInv
<1>7. CASE /\ ~(Len(file) - rpos >= EntryLen)
           /\ rpc' = "eof" /\ rpos' = Len(file) /\ UNCHANGED got
  <2>1. Len(file) - End(n) < EntrySize
    BY <1>3, <1>4, <1>5, <1>7
  <2>2. ReaderAt'
    BY <1>1, <1>2, <1>3, <1>7, <2>1 DEF ReaderAt
  <2> QED
    BY <1>2, <2>2 DEF LInv
<1> QED
  BY <1>6, <1>7 DEF ReadEntry

LEMMA StepCloseRead ==
    ASSUME LInv, CloseRead
    PROVE  LInv'
<1>1. rpc' = "closed" /\ swap' = FALSE /\ rpos' = 0 /\ got' = <<>> /\ UNCHANGED <<file, wvars>>
  BY DEF CloseRead
<1>2. WriterTypes' /\ WriterAt'
  BY <1>1, WriterStays
<1>3. ReaderAt'
  BY <1>1 DEF ReaderAt
<1> QED
  BY <1>2, <1>3 DEF LInv

LEMMA NextInv == LInv /\ [Next]_vars => LInv'
<1> SUFFICES ASSUME LInv, [Next]_vars
             PROVE  LInv'
  OBVIOUS
<1>1. ASSUME UNCHANGED vars
      PROVE  LInv'
  <2>1. UNCHANGED <<file, wvars>> /\ UNCHANGED rvars
    BY <1>1 DEF vars
  <2>2. UNCHANGED <<file, written, wend, torn, sealed>>
    BY <2>1 DEF wvars
  <2> QED
    BY <2>1, <2>2, WriterStays, ReaderStays DEF LInv
<1>2. CASE Writer
  BY <1>2, StepOpenWrite, StepOpenRefused, StepCopyHeader, StepFixSize, StepOpenFails,
     StepWriteEntry, StepWriteFails, StepWriteFailsGoesOn, StepFlush, StepCrash,
     StepWriteChecksum, StepCloseFile DEF Writer
<1>3. CASE Reader
  BY <1>3, StepOpenRead, StepReadEntry, StepCloseRead DEF Reader
<1> QED
  BY <1>1, <1>2, <1>3 DEF Next

\* The inductive invariant.
THEOREM LogInvariant == Spec => []LInv
BY InitInv, NextInv, PTL DEF Spec

-----------------------------------------------------------------------------
(* What follows *)

\* Whatever a reader has been given has the length of an entry.
LEMMA GotLength ==
    ASSUME LInv, NEW i \in DOMAIN got
    PROVE  /\ Whole /\ i \in Nat \ {0} /\ i <= Len(got) /\ Len(got) \in Nat
           /\ End(i - 1) \in Nat /\ End(i) = End(i - 1) + EntrySize /\ End(i) <= Len(file)
           /\ got[i] = SubSeq(file, End(i - 1) + 1, End(i))
           /\ Len(got[i]) = EntrySize
           /\ \A k \in 1..EntrySize : got[i][k] = file[End(i - 1) + k]
<1>1. rpc \in {"reading", "eof"}
  BY DEF LInv, ReaderAt
<1>2. /\ Whole /\ got \in Seq(Seq(Unit)) /\ End(Len(got)) <= Len(file)
      /\ got[i] = SubSeq(file, End(i - 1) + 1, End(i))
  BY <1>1 DEF LInv, ReaderAt
<1>3. i \in Nat \ {0} /\ i <= Len(got) /\ Len(got) \in Nat /\ i - 1 \in Nat /\ (i - 1) + 1 = i
  BY <1>2
<1>4. End(i - 1) \in Nat /\ End(i) = End(i - 1) + EntrySize /\ End(i) <= End(Len(got))
      /\ End(Len(got)) \in Nat
  BY <1>3, EndFacts
<1>5. EntrySize \in Nat /\ EntrySize > 2 /\ Len(file) \in Nat /\ file \in Seq(Unit)
  BY <1>2, SizeFacts, WholeHead
<1>6. End(i) <= Len(file)
  BY <1>2, <1>4, <1>5
<1>7. ASSUME NEW a \in Nat, a + EntrySize <= Len(file)
      PROVE  /\ Len(SubSeq(file, a + 1, a + EntrySize)) = EntrySize
             /\ \A k \in 1..EntrySize : SubSeq(file, a + 1, a + EntrySize)[k] = file[a + k]
  <2>1. a + 1 \in 1..(Len(file) + 1) /\ a + EntrySize \in ((a + 1) - 1)..Len(file)
    BY <1>5, <1>7
  <2>2. (a + EntrySize) - (a + 1) + 1 = EntrySize /\ \A k \in 1..EntrySize : (a + 1) + k - 1 = a + k
    BY <1>5
  <2>3. /\ Len(SubSeq(file, a + 1, a + EntrySize)) = (a + EntrySize) - (a + 1) + 1
        /\ \A k \in 1..((a + EntrySize) - (a + 1) + 1) :
              SubSeq(file, a + 1, a + EntrySize)[k] = file[(a + 1) + k - 1]
    BY <1>5, <2>1, SubSeqProperties
  <2> QED
    BY <2>2, <2>3
<1>8. /\ got[i] = SubSeq(file, End(i - 1) + 1, End(i - 1) + EntrySize)
      /\ End(i - 1) + EntrySize <= Len(file)
  BY <1>2, <1>4, <1>6
<1>9. Len(got[i]) = EntrySize /\ \A k \in 1..EntrySize : got[i][k] = file[End(i - 1) + k]
  <2> DEFINE b == End(i - 1)
  <2>1. b \in Nat /\ b + EntrySize <= Len(file) /\ got[i] = SubSeq(file, b + 1, b + EntrySize)
    BY <1>4, <1>8
  <2> HIDE DEF b
  <2>2. Len(got[i]) = EntrySize /\ \A k \in 1..EntrySize : got[i][k] = file[b + k]
    <3> DEFINE t == SubSeq(file, b + 1, b + EntrySize)
    <3>1. Len(t) = EntrySize /\ \A k \in 1..EntrySize : t[k] = file[b + k]
      BY <1>7, <2>1
    <3>2. got[i] = t
      BY <2>1
    <3> HIDE DEF t
    <3> QED
      BY <3>1, <3>2
  <2> QED
    BY <2>2 DEF b
<1> QED
  BY <1>2, <1>3, <1>4, <1>6, <1>9

\* Every variable keeps its type, and every entry that was read has the size of one.
THEOREM LogTypeCorrect == Spec => []TypeOK
<1>1. LInv => TypeOK
  <2> SUFFICES ASSUME LInv
               PROVE  TypeOK
    OBVIOUS
  <2>1. /\ wpc \in {"none", "header", "size", "open", "failed", "closing"}
        /\ written \in 0..MaxEntries /\ logs \in 0..MaxLogs
        /\ stored \in BOOLEAN /\ wend \in Ends /\ torn \in 0..(MaxEntries + 1) /\ swap \in BOOLEAN
        /\ rpc \in {"closed", "refused", "reading", "eof"}
    BY Constants DEF LInv, WriterTypes, ReaderAt
  <2>2. Len(file) \in Nat
    <3>1. file \in Seq(PlainUnit) \/ Whole
      BY DEF LInv, WriterTypes, WriterAt, Unsealed, Fit
    <3> QED
      BY <3>1, WholeHead
  <2>3. rpos \in 0..Len(file)
    <3>1. CASE rpc \in {"closed", "refused"}
      BY <2>2, <3>1 DEF LInv, ReaderAt
    <3>2. CASE rpc = "reading"
      <4>1. rpos = End(Len(got)) /\ End(Len(got)) <= Len(file) /\ Len(got) \in Nat
        BY <3>2 DEF LInv, ReaderAt
      <4> QED
        BY <2>2, <4>1, EndFacts
    <3>3. CASE rpc = "eof"
      BY <2>2, <3>3 DEF LInv, ReaderAt
    <3> QED
      BY <2>1, <3>1, <3>2, <3>3
  <2>4. \A i \in DOMAIN got : Len(got[i]) = EntryLen
    BY GotLength, SizeFacts
  <2> QED
    BY <2>1, <2>3, <2>4 DEF TypeOK
<1> QED
  BY <1>1, LogInvariant, PTL

\* A log that a reader accepts is one that was closed, with all of what it had by then.
THEOREM AcceptsClosed == Spec => []AcceptsOnlyWhole
<1>1. LInv => AcceptsOnlyWhole
  <2> SUFFICES ASSUME LInv, rpc \in {"reading", "eof"}
               PROVE  /\ file = Append(sealed, Checksum(sealed))
                      /\ torn > MaxEntries => Len(sealed) = End(written) /\ Holds(sealed, written)
    BY DEF AcceptsOnlyWhole
  <2>1. Whole
    BY DEF LInv, ReaderAt
  <2>2. torn > MaxEntries => Len(sealed) = End(written) /\ HoldsIn(sealed, written, wend)
    BY <2>1 DEF Whole, Fit, Kept
  <2>3. torn > MaxEntries => Holds(sealed, written)
    BY <2>2, KeptFacts, HoldsIs
  <2> QED
    BY <2>1, <2>2, <2>3 DEF Whole
<1> QED
  BY <1>1, LogInvariant, PTL

\* The entries known to be in place are those that were written, or those before the torn one.
LEMMA KeptIsMin ==
    ASSUME LInv
    PROVE  Kept = Min({written, torn - 1})
<1>1. written \in Nat /\ torn \in Nat /\ written <= MaxEntries /\ MaxEntries \in Nat
      /\ (torn > MaxEntries \/ torn <= written + 1) /\ torn <= MaxEntries + 1
  BY Constants DEF LInv, WriterTypes
<1>2. Kept \in {written, torn - 1} /\ Kept <= written /\ Kept <= torn - 1
      /\ written \in Int /\ torn - 1 \in Int
  BY <1>1 DEF Kept
<1> QED
  BY <1>2 DEF Min

\* What was read as the n-th entry is the n-th that was written.
LEMMA EntryIsOwn ==
    ASSUME LInv, NEW n \in DOMAIN got, n <= Kept
    PROVE  IsEntry(got[n], n)
<1>1. /\ Whole /\ n \in Nat \ {0} /\ End(n - 1) \in Nat /\ End(n) = End(n - 1) + EntrySize
      /\ \A k \in 1..EntrySize : got[n][k] = file[End(n - 1) + k]
  BY GotLength
<1>2. /\ \A i \in 1..End(Kept) : file[i] = sealed[i]
      /\ HoldsIn(sealed, Kept, wend)
  BY <1>1, WholeHead
<1>3. Kept \in Nat /\ n \in 1..Kept
  BY <1>1, KeptFacts
<1>4. ASSUME NEW k \in 1..EntrySize
      PROVE  got[n][k] = [kind |-> "entry", n |-> n, k |-> k, end |-> wend]
  <2>1. End(n - 1) + k \in 1..End(Kept)
    BY <1>3, EntryPlace
  <2>2. sealed[End(n - 1) + k] = [kind |-> "entry", n |-> n, k |-> k, end |-> wend]
    BY <1>2, <1>3 DEF HoldsIn
  <2> QED
    BY <1>1, <1>2, <2>1, <2>2
<1>5. swap <=> wend # Host
  <2>1. rpc \in {"reading", "eof"}
    BY DEF LInv, ReaderAt
  <2> QED
    BY <2>1 DEF LInv, ReaderAt
<1>6. ASSUME NEW k \in 1..EntrySize
      PROVE  got[n][k] = Entry(n)[k] /\ ReadRight(got[n][k], swap)
  <2>1. Entry(n)[k] = [kind |-> "entry", n |-> n, k |-> k, end |-> wend]
    BY DEF Entry
  <2>2. got[n][k].end = wend
    <3>1. got[n][k] = [kind |-> "entry", n |-> n, k |-> k, end |-> wend]
      BY <1>4
    <3> QED
      BY <3>1
  <2> QED
    BY <1>4, <1>5, <2>1, <2>2 DEF ReadRight
<1>7. \A k \in 1..StampLen : k \in 1..EntrySize
  BY SizeFacts DEF StampLen
<1>8. ASSUME NEW i \in DOMAIN Vars, NEW k \in (Vars[i].off + 1)..VarEnd(i)
      PROVE  k <= LogBufsize /\ StampLen + k \in 1..EntrySize
  <2>1. VarEnd(i) \in Nat /\ VarEnd(i) <= GroupSize /\ Vars[i].off \in Nat
        /\ GroupSize \in Nat /\ GroupSize = LogBufsize
    BY LayoutFacts
  <2> QED
    BY <2>1 DEF EntrySize, StampLen
<1> QED
  BY <1>6, <1>7, <1>8 DEF IsEntry

\* The entries are given back as they were written, in order, and all of them by the end.
THEOREM ReadsWritten == Spec => []ReadsWhatWasWritten
<1>1. LInv => ReadsWhatWasWritten
  <2> SUFFICES ASSUME LInv, rpc \in {"reading", "eof"}
               PROVE  /\ \A n \in DOMAIN got : n < torn => IsEntry(got[n], n)
                      /\ torn > MaxEntries =>
                            Len(got) <= written /\ (rpc = "eof" => Len(got) = written)
                      /\ rpc = "eof" => Len(got) >= Min({written, torn - 1})
    BY DEF ReadsWhatWasWritten
  <2>1. /\ Whole /\ Len(got) \in Nat /\ End(Len(got)) <= Len(file)
        /\ rpc = "eof" => Len(file) - End(Len(got)) < EntrySize
    BY DEF LInv, ReaderAt
  <2>2. /\ Len(file) \in Nat /\ Len(file) > End(Kept)
        /\ torn > MaxEntries => Len(file) = End(written) + 1
    BY <2>1, WholeHead
  <2>3. written \in Nat /\ torn \in Nat /\ Kept \in Nat /\ EntrySize \in Nat /\ EntrySize > 2
    BY KeptFacts, SizeFacts
  <2>4. End(Len(got)) \in Nat /\ End(written) \in Nat /\ End(Kept) \in Nat
    BY <2>1, <2>3, EndFacts
  <2>5. torn > MaxEntries => Len(got) <= written
    <3>1. SUFFICES ASSUME torn > MaxEntries, written < Len(got)
                   PROVE  FALSE
      BY <2>1, <2>3
    <3>2. End(written) + EntrySize <= End(Len(got))
      BY <2>1, <2>3, <3>1, EndFacts
    <3> QED
      BY <2>1, <2>2, <2>3, <2>4, <3>1, <3>2
  <2>6. rpc = "eof" => Len(got) >= Kept
    <3>1. SUFFICES ASSUME rpc = "eof", Len(got) < Kept
                   PROVE  FALSE
      BY <2>1, <2>3
    <3>2. End(Len(got)) + EntrySize <= End(Kept)
      BY <2>1, <2>3, <3>1, EndFacts
    <3> QED
      BY <2>1, <2>2, <2>3, <2>4, <3>1, <3>2
  <2>7. ASSUME NEW n \in DOMAIN got, n < torn
        PROVE  IsEntry(got[n], n)
    <3>1. n \in Nat /\ n <= Len(got)
      BY GotLength
    <3>2. n <= Kept
      BY <2>1, <2>3, <2>5, <2>7, <3>1 DEF Kept
    <3> QED
      BY <3>2, EntryIsOwn
  <2>8. torn > MaxEntries => Kept = written
    BY DEF Kept
  <2> QED
    BY <2>1, <2>3, <2>5, <2>6, <2>7, <2>8, KeptIsMin
<1> QED
  BY <1>1, LogInvariant, PTL

\* A log that was closed and is on disk is never refused.
THEOREM StoredAccepted == Spec => StoredIsAccepted
<1>1. LInv /\ [Next]_vars => [ (rpc = "closed" /\ stored) => rpc' # "refused" ]_rvars
  <2> SUFFICES ASSUME LInv, Next, rvars' # rvars, rpc = "closed", stored
               PROVE  rpc' # "refused"
    BY DEF vars
  <2>1. OpenRead
    <3>1. ~Writer
      BY DEF Writer, OpenWrite, OpenRefused, CopyHeader, FixSize, OpenFails, WriteEntry, WriteFails,
         WriteFailsGoesOn, Flush, Crash, WriteChecksum, CloseFile
    <3> QED
      BY <3>1 DEF Next, Reader, ReadEntry, CloseRead
  <2>2. Whole
    BY DEF LInv, WriterAt
  <2>3. SumIsZero(file) /\ Len(file) > 1 + HeaderLen /\ file[2].n = HeaderLen
        /\ file[1].end = file[2].end
    BY <2>2, WholeHead
  <2>4. ReadRight(file[2], file[1].end # Host)
    BY <2>3 DEF ReadRight
  <2>5. rpc' = "reading"
    BY <2>1, <2>3, <2>4 DEF OpenRead
  <2> QED
    BY <2>5
<1> QED
  BY <1>1, LogInvariant, PTL DEF Spec, StoredIsAccepted
=============================================================================
