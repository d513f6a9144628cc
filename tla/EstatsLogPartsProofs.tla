------------------------- MODULE EstatsLogPartsProofs -------------------------
(***************************************************************************)
(* Two parts of a log that EstatsLog takes for units.                      *)
(*                                                                         *)
(* The temporary header file, for any number of readers, headers of any    *)
(* length and any number of inodes: a reader that has the file to itself   *)
(* parses its own header, readers that share it find every block at its    *)
(* place, and only readers that die leave it behind.                       *)
(*                                                                         *)
(* The checksum, for every width of a byte and logs of any length: the     *)
(* sums that are accepted are the multiples of W - 1 except 0.  The        *)
(* checksum makes the sum one of them, and what one byte can change is     *)
(* less than W - 1.  A carry that is lost takes away A, one more than a    *)
(* multiple: the checksum never causes it, and the only change of a byte   *)
(* that it could make up for makes the sum 0.                              *)
(***************************************************************************)
EXTENDS EstatsLogHeader, EstatsChecksum, TLAPS, SequenceTheorems, FiniteSetTheorems,
        WellFoundedInduction

-----------------------------------------------------------------------------
(* The temporary header file *)

Place(k) == (Reader \X {k}) \cup {Hole}
AllInPlace(s) == \A k \in DOMAIN s : s[k] \in Place(k)

\* The first n blocks of the header of r.
Prefix(r, s, n) == Len(s) = n /\ \A k \in 1..n : s[k] = <<r, k>>

\* What a reader has open, and how far it is.
Stands(r) ==
    /\ ino[r] # None <=> pc[r] \in {"copy", "parse"}
    /\ dirty[r] <=> pc[r] = "copy" /\ pos[r] # 0
    /\ pc[r] = "copy" => pos[r] <= HeaderLen[r]
    /\ pc[r] = "parse" => pos[r] = Len(parsed[r])
    /\ pc[r] \notin {"parse", "remove"} => parsed[r] = <<>>
    /\ result[r] = "ok" => pc[r] = "remove"

\* A reader that has its file to itself finds there what it wrote.
Alone(r) ==
    ~shared[r] =>
      /\ pc[r] = "copy" =>
            Prefix(r, content[ino[r]], IF pos[r] = 0 THEN 0 ELSE pos[r] - 1)
      /\ pc[r] = "parse" =>
            /\ Prefix(r, content[ino[r]], HeaderLen[r])
            /\ Len(parsed[r]) <= HeaderLen[r] /\ Prefix(r, parsed[r], Len(parsed[r]))
      /\ result[r] = "ok" => Prefix(r, parsed[r], HeaderLen[r])

\* Who has an inode open with another knows it.
SharedKnown ==
    \A r, s \in Reader : r # s /\ ino[r] = ino[s] /\ ino[r] # None => shared[r]

\* Somebody is on the way to remove the file.
Remover == name # None /\ ~left => \E r \in Reader : pc[r] \in {"copy", "parse", "remove"}

InPlace == (\A i \in Inode : AllInPlace(content[i])) /\ (\A r \in Reader : AllInPlace(parsed[r]))

LInv ==
    /\ TypeOK /\ (\A r \in Reader : Stands(r)) /\ (\A r \in Reader : Alone(r))
    /\ SharedKnown /\ Remover /\ InPlace

LEMMA ReaderFacts ==
    ASSUME TypeOK, NEW r \in Reader
    PROVE  /\ pos[r] \in Nat /\ HeaderLen[r] \in Nat \ {0}
           /\ parsed[r] \in Seq(Block) /\ Len(parsed[r]) \in Nat
           /\ ino[r] # None => ino[r] \in Inode
BY LogHeaderAssumption DEF TypeOK, LogHeaderAssumption

LEMMA InodeFacts ==
    ASSUME TypeOK, NEW i \in Inode
    PROVE  content[i] \in Seq(Block) /\ Len(content[i]) \in Nat
                /\ DOMAIN content[i] = 1..Len(content[i])
BY DEF TypeOK

LEMMA BlockPlace ==
    ASSUME NEW r \in Reader, NEW k \in Nat
    PROVE  <<r, k>> \in Block /\ <<r, k>> \in Place(k) /\ Hole \in Block /\ Hole \in Place(k)
BY DEF Block, Place

LEMMA EmptyFacts == <<>> \in Seq(Block) /\ Len(<<>>) = 0 /\ AllInPlace(<<>>)
<1>1. <<>> \in Seq(Block) /\ Len(<<>>) = 0
  OBVIOUS
<1>2. AllInPlace(<<>>)
  BY DEF AllInPlace
<1> QED
  BY <1>1, <1>2

\* What another reader leaves alone still stands.
LEMMA OtherKeeps ==
    ASSUME LInv, NEW s \in Reader,
           pc'[s] = pc[s], ino'[s] = ino[s], pos'[s] = pos[s], dirty'[s] = dirty[s],
           parsed'[s] = parsed[s], result'[s] = result[s], shared[s] => shared'[s],
           ~shared'[s] /\ ino[s] # None => content'[ino[s]] = content[ino[s]]
    PROVE  Stands(s)' /\ Alone(s)'
<1>1. Stands(s) /\ Alone(s)
  BY DEF LInv
<1>2. Stands(s)'
  BY <1>1 DEF Stands
<1>3. ASSUME ~shared'[s], pc[s] \in {"copy", "parse"}
      PROVE  content'[ino'[s]] = content[ino[s]]
  BY <1>1, <1>3 DEF Stands
<1>4. Alone(s)'
  BY <1>1, <1>3 DEF Alone, Prefix
<1> QED
  BY <1>2, <1>4

\* Reclaiming keeps what another reader has open, and the types.
LEMMA ReclaimedFacts ==
    ASSUME NEW c \in [Inode -> Seq(Block)], \A i \in Inode : AllInPlace(c[i]),
           NEW r \in Reader, NEW n
    PROVE  /\ Reclaimed(c, r, n) \in [Inode -> Seq(Block)]
           /\ \A i \in Inode : AllInPlace(Reclaimed(c, r, n)[i])
           /\ \A s \in Reader \ {r} : ino[s] \in Inode =>
                 Reclaimed(c, r, n)[ino[s]] = c[ino[s]]
<1>1. \A i \in Inode : Reclaimed(c, r, n)[i] \in {c[i], <<>>}
  BY DEF Reclaimed
<1>2. Reclaimed(c, r, n) \in [Inode -> Seq(Block)]
  BY EmptyFacts DEF Reclaimed
<1>3. \A i \in Inode : AllInPlace(Reclaimed(c, r, n)[i])
  BY <1>1, EmptyFacts
<1>4. \A s \in Reader \ {r} : ino[s] \in Inode => Reclaimed(c, r, n)[ino[s]] = c[ino[s]]
  BY DEF Reclaimed
<1> QED
  BY <1>2, <1>3, <1>4

\* A block goes to its place; a file of the reader's own grows by it.
LEMMA WrittenFacts ==
    ASSUME LInv, NEW r \in Reader, dirty[r]
    PROVE  /\ Written(r) \in Seq(Block) /\ AllInPlace(Written(r))
           /\ ~shared[r] => Prefix(r, Written(r), pos[r])
<1> DEFINE c == content[ino[r]]
           len == IF Len(c) < pos[r] THEN pos[r] ELSE Len(c)
<1>1. pc[r] = "copy" /\ pos[r] # 0 /\ ino[r] \in Inode /\ pos[r] \in Nat /\ Alone(r)
  BY ReaderFacts DEF LInv, Stands
<1>2. c \in Seq(Block) /\ Len(c) \in Nat /\ DOMAIN c = 1..Len(c) /\ len \in Nat
  BY <1>1, InodeFacts DEF LInv
<1>3. AllInPlace(c)
  BY <1>1 DEF LInv, InPlace
<1>4. Written(r) = [k \in 1..len |->
          IF k = pos[r] THEN <<r, k>> ELSE IF k <= Len(c) THEN c[k] ELSE Hole]
  BY DEF Written
<1>5. ASSUME NEW k \in 1..len
      PROVE  Written(r)[k] \in Block /\ Written(r)[k] \in Place(k)
  <2>1. CASE k = pos[r]
    BY <1>2, <1>4, <2>1, BlockPlace
  <2>2. CASE k # pos[r] /\ k <= Len(c)
    <3>1. Written(r)[k] = c[k] /\ k \in DOMAIN c
      BY <1>2, <1>4, <2>2
    <3> QED
      BY <1>2, <1>3, <3>1 DEF AllInPlace
  <2>3. CASE k # pos[r] /\ ~(k <= Len(c))
    <3>1. Written(r)[k] = Hole
      BY <1>4, <2>3
    <3> QED
      BY <3>1 DEF Block, Place
  <2> QED
    BY <2>1, <2>2, <2>3
<1>6. Written(r) \in Seq(Block) /\ DOMAIN Written(r) = 1..len /\ Len(Written(r)) = len
  <2> HIDE DEF len, c
  <2>1. DOMAIN Written(r) = 1..len
    BY <1>4
  <2>2. Written(r) \in [1..len -> Block]
    BY <1>4, <1>5
  <2> QED
    BY <1>2, <2>1, <2>2, LenProperties
<1>7. AllInPlace(Written(r))
  BY <1>5, <1>6 DEF AllInPlace
<1>8. ASSUME ~shared[r]
      PROVE  Prefix(r, Written(r), pos[r])
  <2>1. Len(c) = pos[r] - 1 /\ \A k \in 1..(pos[r] - 1) : c[k] = <<r, k>>
    BY <1>1, <1>8 DEF Alone, Prefix
  <2>2. len = pos[r]
    BY <1>1, <2>1
  <2>3. \A k \in 1..pos[r] : Written(r)[k] = <<r, k>>
    <3> SUFFICES ASSUME NEW k \in 1..pos[r]
                 PROVE  Written(r)[k] = <<r, k>>
      OBVIOUS
    <3>1. Written(r)[k] = IF k = pos[r] THEN <<r, k>> ELSE IF k <= Len(c) THEN c[k] ELSE Hole
      BY <1>4, <2>2
    <3>2. CASE k # pos[r]
      <4>1. k \in 1..(pos[r] - 1)
        BY <1>1, <3>2
      <4> QED
        BY <2>1, <3>1, <3>2, <4>1
    <3> QED
      BY <3>1, <3>2
  <2> QED
    BY <1>6, <2>2, <2>3 DEF Prefix
<1> QED
  BY <1>6, <1>7, <1>8

LEMMA FlushedFacts ==
    ASSUME LInv, NEW r \in Reader
    PROVE  /\ Flushed(r) \in [Inode -> Seq(Block)]
           /\ \A i \in Inode : AllInPlace(Flushed(r)[i])
           /\ \A i \in Inode : i # ino[r] => Flushed(r)[i] = content[i]
           /\ pc[r] = "copy" /\ ~shared[r] => Prefix(r, Flushed(r)[ino[r]], pos[r])
<1>1. content \in [Inode -> Seq(Block)] /\ \A i \in Inode : AllInPlace(content[i])
  BY DEF LInv, TypeOK, InPlace
<1>2. CASE dirty[r]
  <2>1. ino[r] \in Inode
    BY <1>2, ReaderFacts DEF LInv, Stands
  <2>2. Flushed(r) = [content EXCEPT ![ino[r]] = Written(r)]
    BY <1>2 DEF Flushed
  <2>3. /\ Written(r) \in Seq(Block) /\ AllInPlace(Written(r))
        /\ ~shared[r] => Prefix(r, Written(r), pos[r])
    BY <1>2, WrittenFacts
  <2> QED
    BY <1>1, <2>1, <2>2, <2>3
<1>3. CASE ~dirty[r]
  <2>1. Flushed(r) = content
    BY <1>3 DEF Flushed
  <2>2. pc[r] = "copy" => pos[r] = 0
    BY <1>3 DEF LInv, Stands
  <2>3. pc[r] = "copy" /\ ~shared[r] => Prefix(r, content[ino[r]], pos[r])
    BY <2>2 DEF LInv, Alone
  <2> QED
    BY <1>1, <2>1, <2>3
<1> QED
  BY <1>2, <1>3

\* A reader without company is the only one who has its inode open.
LEMMA NobodyElse ==
    ASSUME LInv, NEW r \in Reader, NEW s \in Reader, r # s, ino[s] # None, ~shared[s]
    PROVE  ino[s] # ino[r]
BY DEF LInv, SharedKnown

LEMMA InitKeeps == Init => LInv
<1> SUFFICES ASSUME Init
             PROVE  LInv
  OBVIOUS
<1>1. TypeOK
  BY EmptyFacts DEF Init, TypeOK
<1>2. InPlace
  BY EmptyFacts DEF Init, InPlace
<1> QED
  BY <1>1, <1>2 DEF Init, LInv, Stands, Alone, SharedKnown, Remover

LEMMA StartKeeps ==
    ASSUME LInv, NEW r \in Reader, Start(r)
    PROVE  LInv'
<1> USE DEF Start, Goto, files
<1>1. TypeOK'
  BY DEF LInv, TypeOK
<1>2. Stands(r)' /\ Alone(r)'
  BY <1>1 DEF LInv, TypeOK, Stands, Alone
<1>3. ASSUME NEW s \in Reader, s # r
      PROVE  Stands(s)' /\ Alone(s)'
  <2>1. pc'[s] = pc[s]
    BY <1>3 DEF LInv, TypeOK
  <2> QED
    BY <2>1, OtherKeeps
<1>4. SharedKnown' /\ InPlace'
  BY DEF LInv, SharedKnown, InPlace
<1>5. Remover'
  <2> SUFFICES ASSUME name # None, ~left
               PROVE  \E s \in Reader : pc'[s] \in {"copy", "parse", "remove"}
    BY DEF Remover
  <2>1. PICK s \in Reader : pc[s] \in {"copy", "parse", "remove"}
    BY DEF LInv, Remover
  <2> QED
    BY <2>1 DEF LInv, TypeOK
<1> QED
  BY <1>1, <1>2, <1>3, <1>4, <1>5 DEF LInv

LEMMA CreateKeeps ==
    ASSUME LInv, NEW r \in Reader, Create(r)
    PROVE  LInv'
<1> USE DEF Goto
<1> DEFINE i == IF name # None THEN name ELSE CHOOSE j \in Inode : Users(j) = {}
<1>1. /\ i \in Inode
      /\ pc[r] = "opened" /\ ino[r] = None /\ parsed[r] = <<>> /\ result[r] # "ok" /\ ~dirty[r]
  BY DEF LInv, TypeOK, Stands, Create
<1>2. /\ name' = i /\ ino' = [ino EXCEPT ![r] = i]
      /\ content' = [content EXCEPT ![i] = <<>>]
      /\ shared' = [s \in Reader |->
             IF s = r THEN Users(i) # {} ELSE shared[s] \/ s \in Users(i)]
      /\ pos' = [pos EXCEPT ![r] = 0] /\ pc' = [pc EXCEPT ![r] = "copy"]
      /\ UNCHANGED <<left, dirty, parsed, result>>
  BY DEF Create, Opened
<1> HIDE DEF i
<1>3. TypeOK'
  BY <1>1, <1>2, EmptyFacts DEF LInv, TypeOK
<1>4. Stands(r)' /\ Alone(r)'
  <2>1. /\ pc'[r] = "copy" /\ ino'[r] = i /\ pos'[r] = 0 /\ content'[i] = <<>>
        /\ i # None /\ HeaderLen[r] \in Nat
    BY <1>1, <1>2, LogHeaderAssumption DEF LInv, TypeOK, LogHeaderAssumption
  <2>2. Stands(r)'
    BY <1>1, <1>2, <2>1 DEF Stands
  <2>3. Alone(r)'
    BY <1>1, <1>2, <2>1, EmptyFacts DEF Alone, Prefix
  <2> QED
    BY <2>2, <2>3
<1>5. ASSUME NEW s \in Reader, s # r
      PROVE  Stands(s)' /\ Alone(s)'
  <2>1. /\ pc'[s] = pc[s] /\ ino'[s] = ino[s] /\ pos'[s] = pos[s]
        /\ shared'[s] = (shared[s] \/ s \in Users(i))
    BY <1>2, <1>5 DEF LInv, TypeOK
  <2>2. ~shared'[s] => ino[s] # i
    BY <2>1 DEF Users
  <2>3. ~shared'[s] /\ ino[s] # None => content'[ino[s]] = content[ino[s]]
    BY <1>2, <2>2, ReaderFacts DEF LInv, TypeOK
  <2> QED
    BY <1>2, <2>1, <2>3, OtherKeeps
<1>6. SharedKnown'
  <2> SUFFICES ASSUME NEW s \in Reader, NEW t \in Reader, s # t, ino'[s] = ino'[t], ino'[s] # None
               PROVE  shared'[s]
    BY DEF SharedKnown
  <2>1. \A u \in Reader : u # r => ino'[u] = ino[u]
    BY <1>2 DEF LInv, TypeOK
  <2>2. ino'[r] = i
    BY <1>2 DEF LInv, TypeOK
  <2>3. CASE s = r
    <3>1. t \in Users(i)
      BY <2>1, <2>2, <2>3 DEF Users
    <3> QED
      BY <1>2, <2>3, <3>1
  <2>4. CASE t = r
    <3>1. s \in Users(i)
      BY <2>1, <2>2, <2>4 DEF Users
    <3> QED
      BY <1>2, <2>4, <3>1
  <2>5. CASE s # r /\ t # r
    <3>1. shared[s]
      BY <2>1, <2>5 DEF LInv, SharedKnown
    <3> QED
      BY <1>2, <2>5, <3>1
  <2> QED
    BY <2>3, <2>4, <2>5
<1>7. Remover'
  <2>1. pc'[r] = "copy"
    BY <1>2 DEF LInv, TypeOK
  <2> QED
    BY <2>1 DEF Remover
<1>8. InPlace'
  BY <1>1, <1>2, EmptyFacts DEF LInv, TypeOK, InPlace
<1> QED
  BY <1>3, <1>4, <1>5, <1>6, <1>7, <1>8 DEF LInv

LEMMA CopyKeeps ==
    ASSUME LInv, NEW r \in Reader, Copy(r)
    PROVE  LInv'
<1>1. /\ pc[r] = "copy" /\ pos[r] < HeaderLen[r] /\ content' = Flushed(r)
      /\ pos' = [pos EXCEPT ![r] = @ + 1] /\ dirty' = [dirty EXCEPT ![r] = TRUE]
      /\ UNCHANGED <<name, left, pc, ino, parsed, result, shared>>
  BY DEF Copy
<1>2. /\ content' \in [Inode -> Seq(Block)] /\ \A i \in Inode : AllInPlace(content'[i])
      /\ \A i \in Inode : i # ino[r] => content'[i] = content[i]
      /\ ~shared[r] => Prefix(r, content'[ino[r]], pos[r])
  BY <1>1, FlushedFacts
<1>3. TypeOK'
  BY <1>1, <1>2 DEF LInv, TypeOK
<1>4. Stands(r)' /\ Alone(r)'
  <2>1. pos[r] \in Nat /\ HeaderLen[r] \in Nat /\ pos'[r] = pos[r] + 1 /\ dirty'[r] = TRUE
    BY <1>1, ReaderFacts DEF LInv, TypeOK
  <2>2. Stands(r)'
    BY <1>1, <2>1 DEF LInv, Stands
  <2>3. Alone(r)'
    <3>0. pos'[r] - 1 = pos[r] /\ pos'[r] # 0
      BY <2>1
    <3>1. ~shared[r] => Prefix(r, content'[ino[r]], pos'[r] - 1) /\ pos'[r] # 0
      BY <1>2, <3>0, Zenon
    <3>2. result[r] # "ok"
      BY <1>1 DEF LInv, Stands
    <3> QED
      BY <1>1, <3>1, <3>2 DEF Alone, Prefix
  <2> QED
    BY <2>2, <2>3
<1>5. ASSUME NEW s \in Reader, s # r
      PROVE  Stands(s)' /\ Alone(s)'
  <2>1. pos'[s] = pos[s] /\ dirty'[s] = dirty[s]
    BY <1>1, <1>5 DEF LInv, TypeOK
  <2>2. ~shared'[s] /\ ino[s] # None => content'[ino[s]] = content[ino[s]]
    BY <1>1, <1>2, <1>5, NobodyElse, ReaderFacts DEF LInv
  <2> QED
    BY <1>1, <2>1, <2>2, OtherKeeps
<1>6. SharedKnown' /\ Remover' /\ InPlace'
  BY <1>1, <1>2 DEF LInv, SharedKnown, Remover, InPlace
<1> QED
  BY <1>3, <1>4, <1>5, <1>6 DEF LInv

LEMMA RewindKeeps ==
    ASSUME LInv, NEW r \in Reader, Rewind(r)
    PROVE  LInv'
<1>1. /\ pc[r] = "copy" /\ pos[r] = HeaderLen[r] /\ content' = Flushed(r)
      /\ pc' = [pc EXCEPT ![r] = "parse"]
      /\ pos' = [pos EXCEPT ![r] = 0] /\ dirty' = [dirty EXCEPT ![r] = FALSE]
      /\ UNCHANGED <<name, left, ino, parsed, result, shared>>
  BY DEF Rewind, Goto
<1>2. /\ content' \in [Inode -> Seq(Block)] /\ \A i \in Inode : AllInPlace(content'[i])
      /\ \A i \in Inode : i # ino[r] => content'[i] = content[i]
      /\ ~shared[r] => Prefix(r, content'[ino[r]], HeaderLen[r])
  BY <1>1, FlushedFacts
<1>3. TypeOK'
  BY <1>1, <1>2 DEF LInv, TypeOK
<1>4. Stands(r)' /\ Alone(r)'
  <2>1. /\ HeaderLen[r] \in Nat /\ pos'[r] = 0 /\ dirty'[r] = FALSE /\ pc'[r] = "parse"
        /\ parsed[r] = <<>> /\ result[r] # "ok" /\ ino[r] # None
    BY <1>1, ReaderFacts DEF LInv, TypeOK, Stands
  <2>2. Stands(r)'
    BY <1>1, <2>1, EmptyFacts DEF Stands
  <2>3. Prefix(r, parsed[r], Len(parsed[r])) /\ Len(parsed[r]) <= HeaderLen[r]
    BY <2>1, EmptyFacts DEF Prefix
  <2>4. Alone(r)'
    BY <1>1, <1>2, <2>1, <2>3 DEF Alone, Prefix
  <2> QED
    BY <2>2, <2>4
<1>5. ASSUME NEW s \in Reader, s # r
      PROVE  Stands(s)' /\ Alone(s)'
  <2>1. pos'[s] = pos[s] /\ dirty'[s] = dirty[s] /\ pc'[s] = pc[s]
    BY <1>1, <1>5 DEF LInv, TypeOK
  <2>2. ~shared'[s] /\ ino[s] # None => content'[ino[s]] = content[ino[s]]
    BY <1>1, <1>2, <1>5, NobodyElse, ReaderFacts DEF LInv
  <2> QED
    BY <1>1, <2>1, <2>2, OtherKeeps
<1>6. SharedKnown' /\ InPlace'
  BY <1>1, <1>2 DEF LInv, SharedKnown, InPlace
<1>7. Remover'
  <2>1. pc'[r] = "parse"
    BY <1>1 DEF LInv, TypeOK
  <2> QED
    BY <2>1 DEF Remover
<1> QED
  BY <1>3, <1>4, <1>5, <1>6, <1>7 DEF LInv

LEMMA ParseKeeps ==
    ASSUME LInv, NEW r \in Reader, Parse(r)
    PROVE  LInv'
<1> DEFINE b == content[ino[r]][pos[r] + 1]
<1>1. /\ pc[r] = "parse" /\ pos[r] < Len(content[ino[r]])
      /\ parsed' = [parsed EXCEPT ![r] = Append(@, b)]
      /\ pos' = [pos EXCEPT ![r] = @ + 1]
      /\ UNCHANGED <<files, pc, ino, dirty, result, shared>>
  BY DEF Parse
<1>2. /\ ino[r] \in Inode /\ pos[r] = Len(parsed[r]) /\ pos[r] \in Nat
      /\ parsed[r] \in Seq(Block) /\ Len(content[ino[r]]) \in Nat
      /\ content[ino[r]] \in Seq(Block) /\ HeaderLen[r] \in Nat
  BY <1>1, ReaderFacts, InodeFacts DEF LInv, Stands
<1>3. pos[r] + 1 \in DOMAIN content[ino[r]] /\ b \in Block /\ b \in Place(pos[r] + 1)
  <2>1. pos[r] + 1 \in 1..Len(content[ino[r]])
    BY <1>1, <1>2
  <2> QED
    BY <1>2, <2>1 DEF LInv, InPlace, AllInPlace
<1>4. /\ parsed'[r] = Append(parsed[r], b) /\ parsed'[r] \in Seq(Block)
      /\ Len(parsed'[r]) = pos[r] + 1 /\ parsed'[r][pos[r] + 1] = b
      /\ \A k \in 1..pos[r] : parsed'[r][k] = parsed[r][k]
      /\ DOMAIN parsed'[r] = 1..(pos[r] + 1)
  <2> HIDE DEF b
  <2>1. parsed'[r] = Append(parsed[r], b)
    BY <1>1 DEF LInv, TypeOK
  <2>2. /\ Append(parsed[r], b) \in Seq(Block) /\ Len(Append(parsed[r], b)) = Len(parsed[r]) + 1
        /\ \A k \in 1..Len(parsed[r]) : Append(parsed[r], b)[k] = parsed[r][k]
        /\ Append(parsed[r], b)[Len(parsed[r]) + 1] = b
    BY <1>2, <1>3, AppendProperties
  <2>3. DOMAIN Append(parsed[r], b) = 1..(Len(parsed[r]) + 1)
    BY <2>2
  <2> QED
    BY <1>2, <2>1, <2>2, <2>3
<1> HIDE DEF b
<1>5. TypeOK'
  BY <1>1, <1>2, <1>4 DEF LInv, TypeOK, files
<1>6. Stands(r)' /\ Alone(r)'
  <2>1. pos'[r] = pos[r] + 1 /\ Stands(r) /\ Alone(r) /\ result[r] # "ok"
    BY <1>1 DEF LInv, TypeOK, Stands
  <2>2. Stands(r)'
    BY <1>1, <1>4, <2>1 DEF Stands
  <2>3. ASSUME ~shared[r]
        PROVE  Len(parsed'[r]) <= HeaderLen[r] /\ Prefix(r, parsed'[r], Len(parsed'[r]))
    <3>1. /\ Prefix(r, content[ino[r]], HeaderLen[r])
          /\ \A k \in 1..pos[r] : parsed[r][k] = <<r, k>>
      BY <1>1, <1>2, <2>1, <2>3 DEF Alone, Prefix
    <3>2. pos[r] + 1 \in 1..HeaderLen[r] /\ b = <<r, pos[r] + 1>>
      BY <1>1, <1>2, <3>1 DEF Prefix, b
    <3>3. \A k \in 1..(pos[r] + 1) : parsed'[r][k] = <<r, k>>
      <4> SUFFICES ASSUME NEW k \in 1..(pos[r] + 1)
                   PROVE  parsed'[r][k] = <<r, k>>
        OBVIOUS
      <4>1. CASE k = pos[r] + 1
        BY <1>4, <3>2, <4>1
      <4>2. CASE k # pos[r] + 1
        <5>1. k \in 1..pos[r]
          BY <1>2, <4>2
        <5> QED
          BY <1>4, <3>1, <5>1
      <4> QED
        BY <4>1, <4>2
    <3> QED
      BY <1>4, <3>2, <3>3 DEF Prefix
  <2>4. Alone(r)'
    BY <1>1, <2>1, <2>3 DEF Alone, Prefix, files
  <2> QED
    BY <2>2, <2>4
<1>7. ASSUME NEW s \in Reader, s # r
      PROVE  Stands(s)' /\ Alone(s)'
  <2>1. pos'[s] = pos[s] /\ parsed'[s] = parsed[s]
    BY <1>1, <1>7 DEF LInv, TypeOK
  <2> QED
    BY <1>1, <2>1, OtherKeeps DEF files
<1>8. SharedKnown' /\ Remover'
  BY <1>1 DEF LInv, SharedKnown, Remover, files
<1>9. InPlace'
  <2>1. AllInPlace(parsed'[r])
    <3> SUFFICES ASSUME NEW k \in 1..(pos[r] + 1)
                 PROVE  parsed'[r][k] \in Place(k)
      BY <1>4 DEF AllInPlace
    <3>1. CASE k = pos[r] + 1
      BY <1>3, <1>4, <3>1
    <3>2. CASE k # pos[r] + 1
      <4>1. k \in DOMAIN parsed[r] /\ parsed'[r][k] = parsed[r][k]
        BY <1>2, <1>4, <3>2
      <4> QED
        BY <4>1 DEF LInv, InPlace, AllInPlace
    <3> QED
      BY <3>1, <3>2
  <2>2. \A s \in Reader : s # r => parsed'[s] = parsed[s]
    BY <1>1 DEF LInv, TypeOK
  <2> QED
    BY <1>1, <2>1, <2>2 DEF LInv, InPlace, files
<1> QED
  BY <1>5, <1>6, <1>7, <1>8, <1>9 DEF LInv

\* A reader closes the file, with the content c that it leaves.
LEMMA CloseKeeps ==
    ASSUME LInv, NEW r \in Reader, NEW c \in [Inode -> Seq(Block)],
           \A i \in Inode : AllInPlace(c[i]),
           \A i \in Inode : i # ino[r] => c[i] = content[i],
           NEW res \in {"ok", "failed"}, Close(r, res), content' = Reclaimed(c, r, name),
           UNCHANGED <<name, left, parsed, shared>>,
           res = "ok" /\ ~shared[r] => Prefix(r, parsed[r], HeaderLen[r])
    PROVE  LInv'
<1>1. /\ pc' = [pc EXCEPT ![r] = "remove"] /\ result' = [result EXCEPT ![r] = res]
      /\ ino' = [ino EXCEPT ![r] = None] /\ dirty' = [dirty EXCEPT ![r] = FALSE]
      /\ pos' = [pos EXCEPT ![r] = 0]
  BY DEF Close, Goto
<1>2. /\ content' \in [Inode -> Seq(Block)] /\ \A i \in Inode : AllInPlace(content'[i])
      /\ \A s \in Reader \ {r} : ino[s] \in Inode => content'[ino[s]] = c[ino[s]]
  BY ReclaimedFacts
<1>3. TypeOK'
  BY <1>1, <1>2 DEF LInv, TypeOK
<1>4. Stands(r)' /\ Alone(r)'
  <2>1. /\ pc'[r] = "remove" /\ result'[r] = res /\ ino'[r] = None /\ dirty'[r] = FALSE
        /\ pos'[r] = 0
    BY <1>1 DEF LInv, TypeOK
  <2> QED
    BY <2>1 DEF Stands, Alone, Prefix
<1>5. ASSUME NEW s \in Reader, s # r
      PROVE  Stands(s)' /\ Alone(s)'
  <2>1. /\ pc'[s] = pc[s] /\ result'[s] = result[s] /\ ino'[s] = ino[s] /\ dirty'[s] = dirty[s]
        /\ pos'[s] = pos[s]
    BY <1>1, <1>5 DEF LInv, TypeOK
  <2>2. ~shared'[s] /\ ino[s] # None => content'[ino[s]] = content[ino[s]]
    BY <1>2, <1>5, NobodyElse, ReaderFacts DEF LInv
  <2> QED
    BY <2>1, <2>2, OtherKeeps
<1>6. SharedKnown' /\ InPlace'
  BY <1>1, <1>2 DEF LInv, TypeOK, SharedKnown, InPlace
<1>7. Remover'
  <2>1. pc'[r] = "remove"
    BY <1>1 DEF LInv, TypeOK
  <2> QED
    BY <2>1 DEF Remover
<1> QED
  BY <1>3, <1>4, <1>5, <1>6, <1>7 DEF LInv

LEMMA ParseEndsKeeps ==
    ASSUME LInv, NEW r \in Reader, ParseEnds(r)
    PROVE  LInv'
<1> DEFINE res == IF parsed[r] = <<>> THEN "failed" ELSE "ok"
<1>1. content \in [Inode -> Seq(Block)] /\ \A i \in Inode : AllInPlace(content[i])
  BY DEF LInv, TypeOK, InPlace
<1>2. ASSUME ~shared[r]
      PROVE  Prefix(r, parsed[r], HeaderLen[r])
  <2>1. /\ pc[r] = "parse" /\ pos[r] >= Len(content[ino[r]]) /\ pos[r] = Len(parsed[r])
        /\ Alone(r)
    BY DEF ParseEnds, LInv, Stands
  <2>2. /\ Len(content[ino[r]]) = HeaderLen[r] /\ Len(parsed[r]) <= HeaderLen[r]
        /\ Prefix(r, parsed[r], Len(parsed[r]))
    BY <1>2, <2>1 DEF Alone, Prefix
  <2>3. Len(parsed[r]) = HeaderLen[r]
    BY <2>1, <2>2, ReaderFacts DEF LInv
  <2> QED
    BY <2>2, <2>3
<1>3. res \in {"ok", "failed"} /\ Close(r, res) /\ content' = Reclaimed(content, r, name)
      /\ UNCHANGED <<name, left, parsed, shared>>
  BY DEF ParseEnds
<1> HIDE DEF res
<1> QED
  BY <1>1, <1>2, <1>3, CloseKeeps

LEMMA FailsKeeps ==
    ASSUME LInv, NEW r \in Reader, Fails(r)
    PROVE  LInv'
<1>1. Close(r, "failed") /\ UNCHANGED <<name, left, parsed, shared>>
  BY DEF Fails
<1>2. CASE content' = Reclaimed(content, r, name)
  <2>1. content \in [Inode -> Seq(Block)] /\ \A i \in Inode : AllInPlace(content[i])
    BY DEF LInv, TypeOK, InPlace
  <2> QED
    BY <1>1, <1>2, <2>1, CloseKeeps
<1>3. CASE content' = Reclaimed(Flushed(r), r, name)
  BY <1>1, <1>3, FlushedFacts, CloseKeeps
<1> QED
  BY <1>2, <1>3 DEF Fails

\* A reader is done, or dead.
LEMMA GoneKeeps ==
    ASSUME LInv, NEW r \in Reader, Forget(r),
           pc' = [pc EXCEPT ![r] = "idle"], ino' = [ino EXCEPT ![r] = None],
           dirty' = [dirty EXCEPT ![r] = FALSE], pos' \in [Reader -> Nat],
           \A s \in Reader : s # r => pos'[s] = pos[s],
           name' \in {name, None}, left' \in BOOLEAN, name' = None \/ left',
           content' = Reclaimed(content, r, name')
    PROVE  LInv'
<1>1. /\ parsed' = [parsed EXCEPT ![r] = <<>>] /\ result' = [result EXCEPT ![r] = "none"]
      /\ shared' = [shared EXCEPT ![r] = FALSE]
  BY DEF Forget
<1>2. content \in [Inode -> Seq(Block)] /\ \A i \in Inode : AllInPlace(content[i])
  BY DEF LInv, TypeOK, InPlace
<1>3. /\ content' \in [Inode -> Seq(Block)] /\ \A i \in Inode : AllInPlace(content'[i])
      /\ \A s \in Reader \ {r} : ino[s] \in Inode => content'[ino[s]] = content[ino[s]]
  BY <1>2, ReclaimedFacts
<1>4. TypeOK'
  BY <1>1, <1>3, EmptyFacts DEF LInv, TypeOK
<1>5. Stands(r)' /\ Alone(r)'
  <2>1. /\ pc'[r] = "idle" /\ result'[r] = "none" /\ ino'[r] = None /\ dirty'[r] = FALSE
        /\ parsed'[r] = <<>>
    BY <1>1 DEF LInv, TypeOK
  <2> QED
    BY <2>1 DEF Stands, Alone
<1>6. ASSUME NEW s \in Reader, s # r
      PROVE  Stands(s)' /\ Alone(s)'
  <2>1. /\ pc'[s] = pc[s] /\ result'[s] = result[s] /\ ino'[s] = ino[s] /\ dirty'[s] = dirty[s]
        /\ parsed'[s] = parsed[s] /\ shared'[s] = shared[s] /\ pos'[s] = pos[s]
    BY <1>1, <1>6 DEF LInv, TypeOK
  <2>2. ino[s] # None => content'[ino[s]] = content[ino[s]]
    BY <1>3, <1>6, ReaderFacts DEF LInv
  <2> QED
    BY <2>1, <2>2, OtherKeeps
<1>7. SharedKnown' /\ Remover'
  <2>1. \A s \in Reader : s # r => ino'[s] = ino[s] /\ shared'[s] = shared[s]
    BY <1>1 DEF LInv, TypeOK
  <2>2. ino'[r] = None
    BY DEF LInv, TypeOK
  <2> QED
    BY <2>1, <2>2 DEF LInv, SharedKnown, Remover
<1>8. InPlace'
  BY <1>1, <1>3, EmptyFacts DEF LInv, TypeOK, InPlace
<1> QED
  BY <1>4, <1>5, <1>6, <1>7, <1>8 DEF LInv

LEMMA RemoveKeeps ==
    ASSUME LInv, NEW r \in Reader, Remove(r)
    PROVE  LInv'
<1>1. /\ pc' = [pc EXCEPT ![r] = "idle"] /\ content' = Reclaimed(content, r, name') /\ Forget(r)
      /\ name' \in {name, None} /\ left' \in BOOLEAN /\ (name' = None \/ left')
  BY DEF Remove, Goto
<1>2. /\ ino' = [ino EXCEPT ![r] = None] /\ dirty' = [dirty EXCEPT ![r] = FALSE]
      /\ pos' = pos /\ pos \in [Reader -> Nat]
  BY DEF Remove, LInv, TypeOK, Stands
<1> QED
  BY <1>1, <1>2, GoneKeeps

LEMMA CrashKeeps ==
    ASSUME LInv, NEW r \in Reader, Crash(r)
    PROVE  LInv'
<1>1. /\ pc' = [pc EXCEPT ![r] = "idle"] /\ name' = name /\ left' = TRUE
      /\ content' = Reclaimed(content, r, name') /\ Forget(r)
      /\ ino' = [ino EXCEPT ![r] = None] /\ dirty' = [dirty EXCEPT ![r] = FALSE]
      /\ pos' = [pos EXCEPT ![r] = 0]
  BY DEF Crash, Goto
<1>2. pos' \in [Reader -> Nat] /\ \A s \in Reader : s # r => pos'[s] = pos[s]
  BY <1>1 DEF LInv, TypeOK
<1> QED
  BY <1>1, <1>2, GoneKeeps

LEMMA StutterKeeps == LInv /\ UNCHANGED vars => LInv'
BY DEF LInv, TypeOK, Stands, Alone, Prefix, SharedKnown, Remover, InPlace, AllInPlace,
       vars, files, reader

\* What the readers keep to, whatever they do and whoever dies.
THEOREM LogHeaderInvariant == Spec => []LInv
<1>1. LInv /\ [Next]_vars => LInv'
  <2> SUFFICES ASSUME LInv, [Next]_vars
               PROVE  LInv'
    OBVIOUS
  <2>1. ASSUME NEW r \in Reader, Start(r) \/ Step(r) \/ Fails(r) \/ Crash(r)
        PROVE  LInv'
    BY <2>1, StartKeeps, CreateKeeps, CopyKeeps, RewindKeeps, ParseKeeps, ParseEndsKeeps,
       RemoveKeeps, FailsKeeps, CrashKeeps DEF Step
  <2> QED
    BY <2>1, StutterKeeps DEF Next
<1> QED
  BY <1>1, InitKeeps, PTL DEF Spec

\* The variables of the readers have their types.
THEOREM LogHeaderTypeCorrect == Spec => []TypeOK
<1>1. LInv => TypeOK
  BY DEF LInv
<1> QED
  BY <1>1, LogHeaderInvariant, PTL

\* A reader that has the file to itself (estats_log_open, log.c:376-395) parses its own
\* header, for any number of readers that open, fail and die around it.
THEOREM HeaderIsOwn == Spec => []OwnHeader
<1>1. LInv => OwnHeader
  <2> SUFFICES ASSUME LInv, NEW r \in Reader, result[r] = "ok", ~shared[r]
               PROVE  parsed[r] = Header(r)
    BY DEF OwnHeader
  <2>1. Prefix(r, parsed[r], HeaderLen[r]) /\ parsed[r] \in Seq(Block)
    BY ReaderFacts DEF LInv, Alone
  <2>2. DOMAIN parsed[r] = 1..HeaderLen[r] /\ \A k \in 1..HeaderLen[r] : parsed[r][k] = <<r, k>>
    BY <2>1 DEF Prefix
  <2>3. parsed[r] = [k \in DOMAIN parsed[r] |-> parsed[r][k]]
    BY <2>1
  <2> QED
    BY <2>2, <2>3 DEF Header
<1> QED
  BY <1>1, LogHeaderInvariant, PTL

\* Readers that write and read one file still find each block at its place.
THEOREM BlocksInPlace == Spec => []PiecesInPlace
<1>1. LInv => PiecesInPlace
  BY DEF LInv, InPlace, AllInPlace, Place, PiecesInPlace
<1> QED
  BY <1>1, LogHeaderInvariant, PTL

\* When all readers have returned, and since the file was last removed none has died and no
\* remove has failed, ./log_header is gone.
THEOREM FileIsRemoved == Spec => []NoFileLeft
<1>1. LInv => NoFileLeft
  BY DEF LInv, Remover, NoFileLeft
<1> QED
  BY <1>1, LogHeaderInvariant, PTL

-----------------------------------------------------------------------------
(* Induction *)

LEMMA Least ==
    ASSUME NEW S \in SUBSET Nat, S # {}
    PROVE  \E m \in S : \A x \in S : m <= x
<1> DEFINE T == {0..x : x \in S}
           R == StrictSubsetOrdering(Nat)
<1>1. ASSUME NEW x \in S
      PROVE  0..x \in FiniteSubsetsOf(Nat)
  <2>1. x \in Int /\ 0 \in Int /\ 0..x \in SUBSET Nat
    OBVIOUS
  <2> QED
    BY <2>1, FS_Interval DEF FiniteSubsetsOf
<1>2. T \subseteq FiniteSubsetsOf(Nat) /\ T # {}
  BY <1>1
<1>3. IsWellFoundedOn(R, FiniteSubsetsOf(Nat))
  BY FS_StrictSubsetOrderingWellFounded
<1> HIDE DEF T, R
<1>4. PICK t \in T : \A y \in T : ~(<<y, t>> \in R)
  BY <1>2, <1>3, WFMin
<1>5. PICK m \in S : t = 0..m
  BY DEF T
<1>6. ASSUME NEW x \in S
      PROVE  ~(x < m)
  <2>1. 0..x \in T /\ ~(<<0..x, 0..m>> \in R)
    BY <1>4, <1>5 DEF T
  <2>2. ASSUME x < m
        PROVE  0..x \in SUBSET (0..m) /\ 0..x # 0..m /\ 0..m \in SUBSET Nat
    <3>1. m \in 0..m /\ m \notin 0..x /\ \A j \in 0..x : j \in 0..m
      BY <2>2
    <3> QED
      BY <3>1
  <2> QED
    BY <2>1, <2>2 DEF R, StrictSubsetOrdering
<1> QED
  BY <1>6

\* Induction, for a set of naturals.
LEMMA AllNaturals ==
    ASSUME NEW S \in SUBSET Nat, 0 \in S, \A n \in S : n + 1 \in S
    PROVE  \A n \in Nat : n \in S
<1>1. SUFFICES ASSUME NEW k \in Nat, k \notin S
               PROVE  FALSE
  OBVIOUS
<1> DEFINE T == Nat \ S
<1>2. T \in SUBSET Nat /\ T # {}
  BY <1>1
<1> HIDE DEF T
<1>3. PICK m \in T : \A x \in T : m <= x
  BY <1>2, Least
<1>4. m \in Nat /\ m \notin S /\ m # 0
  BY <1>3 DEF T
<1>5. m - 1 \in Nat /\ ~(m <= m - 1)
  BY <1>4
<1>6. m - 1 \in S
  BY <1>3, <1>5 DEF T
<1>7. (m - 1) + 1 = m
  BY <1>4
<1> QED
  BY <1>4, <1>6, <1>7

-----------------------------------------------------------------------------
(* The checksum: the loops *)

\* The function that Sums is defined by is there.
Adds(f, ws, n) == f = [i \in 0..n |-> IF i = 0 THEN 0 ELSE f[i - 1] + ws[i]]

LEMMA AddsExists ==
    ASSUME NEW ws
    PROVE  \A n \in Nat : \E f : Adds(f, ws, n)
<1> DEFINE S == {n \in Nat : \E f : Adds(f, ws, n)}
<1>1. 0 \in S
  <2> DEFINE f == [i \in 0..0 |-> 0]
  <2>1. \A i \in 0..0 : i = 0
    OBVIOUS
  <2>2. f = [i \in 0..0 |-> IF i = 0 THEN 0 ELSE f[i - 1] + ws[i]]
    BY <2>1
  <2> QED
    BY <2>2 DEF Adds
<1>2. ASSUME NEW n \in S
      PROVE  n + 1 \in S
  <2>1. PICK f : Adds(f, ws, n)
    OBVIOUS
  <2> DEFINE e(h, i) == IF i = 0 THEN 0 ELSE h[i - 1] + ws[i]
             g == [i \in 0..(n + 1) |-> IF i = n + 1 THEN e(f, i) ELSE f[i]]
  <2>2. ASSUME NEW i \in 0..(n + 1)
        PROVE  g[i] = e(g, i)
    <3>1. CASE i = n + 1
      <4>1. i - 1 # n + 1 /\ i - 1 \in 0..(n + 1)
        BY <3>1
      <4>2. g[i - 1] = f[i - 1] /\ g[i] = e(f, i)
        BY <3>1, <4>1
      <4> QED
        BY <4>2
    <3>2. CASE i # n + 1
      <4>1. i \in 0..n
        BY <3>2
      <4>2. f[i] = e(f, i) /\ g[i] = f[i]
        BY <2>1, <3>2, <4>1 DEF Adds
      <4>3. i # 0 => i - 1 # n + 1 /\ i - 1 \in 0..(n + 1)
        BY <4>1
      <4>4. i # 0 => g[i - 1] = f[i - 1]
        BY <4>3
      <4> QED
        BY <4>2, <4>4
    <3> QED
      BY <3>1, <3>2
  <2>3. g = [i \in 0..(n + 1) |-> e(g, i)]
    <3>1. g = [i \in 0..(n + 1) |-> g[i]]
      OBVIOUS
    <3> HIDE DEF g
    <3> QED
      BY <2>2, <3>1
  <2> HIDE DEF g
  <2>4. Adds(g, ws, n + 1)
    BY <2>3 DEF Adds
  <2> QED
    BY <2>4
<1>3. S \in SUBSET Nat
  OBVIOUS
<1>4. \A n \in Nat : n \in S
  <2> HIDE DEF S
  <2> QED
    BY <1>1, <1>2, <1>3, AllNaturals
<1> QED
  BY <1>4

LEMMA SumsFacts ==
    ASSUME NEW ws \in Seq(Nat)
    PROVE  /\ Sums(ws)[0] = 0
           /\ \A i \in 1..Len(ws) : Sums(ws)[i] = Sums(ws)[i - 1] + ws[i]
           /\ \A i \in 0..Len(ws) : Sums(ws)[i] \in Nat
<1> DEFINE n == Len(ws)
<1>1. n \in Nat /\ \A i \in 1..n : ws[i] \in Nat
  OBVIOUS
<1>2. PICK f : Adds(f, ws, n)
  BY <1>1, AddsExists
<1>3. Adds(Sums(ws), ws, n)
  <2>1. Sums(ws) = CHOOSE h : h = [i \in 0..n |-> IF i = 0 THEN 0 ELSE h[i - 1] + ws[i]]
    BY DEF Sums
  <2>2. f = [i \in 0..n |-> IF i = 0 THEN 0 ELSE f[i - 1] + ws[i]]
    BY <1>2 DEF Adds
  <2> HIDE DEF n
  <2> QED
    BY <2>1, <2>2 DEF Adds
<1> DEFINE s == Sums(ws)
<1>4. s = [i \in 0..n |-> IF i = 0 THEN 0 ELSE s[i - 1] + ws[i]]
  BY <1>3 DEF Adds
<1> HIDE DEF s, n
<1>5. s[0] = 0
  <2>1. 0 \in 0..n
    BY <1>1
  <2> QED
    BY <1>4, <2>1
<1>6. \A i \in 1..n : s[i] = s[i - 1] + ws[i]
  <2> SUFFICES ASSUME NEW i \in 1..n
               PROVE  s[i] = s[i - 1] + ws[i]
    OBVIOUS
  <2>1. i \in 0..n /\ i # 0
    BY <1>1
  <2> QED
    BY <1>4, <2>1
<1> DEFINE T == {i \in Nat : i <= n => s[i] \in Nat}
<1>7. 0 \in T
  BY <1>1, <1>5
<1>8. ASSUME NEW i \in T
      PROVE  i + 1 \in T
  <2> SUFFICES ASSUME i + 1 <= n
               PROVE  s[i + 1] \in Nat
    OBVIOUS
  <2>1. i \in Nat /\ i + 1 \in 1..n /\ s[i] \in Nat
    BY <1>1
  <2>2. s[i + 1] = s[(i + 1) - 1] + ws[i + 1] /\ (i + 1) - 1 = i
    BY <1>6, <2>1
  <2>3. ws[i + 1] \in Nat
    BY <1>1, <2>1
  <2> QED
    BY <2>1, <2>2, <2>3
<1>9. \A i \in Nat : i \in T
  <2>1. T \in SUBSET Nat
    OBVIOUS
  <2> HIDE DEF T
  <2> QED
    BY <1>7, <1>8, <2>1, AllNaturals
<1>10. \A i \in 0..n : s[i] \in Nat
  BY <1>1, <1>9
<1> QED
  BY <1>5, <1>6, <1>10 DEF s, n

\* Word j has grown by d, or shrunk; and what that does to the sums.
Moved(v, w, n, j, d) == \A i \in 1..n : w[i] = IF i = j THEN v[i] + d ELSE v[i]
MovedAlong(v, w, n, j, d) ==
    \A i \in 0..n : Sums(w)[i] = Sums(v)[i] + IF j <= i THEN d ELSE 0

LEMMA SumsShift ==
    ASSUME NEW v \in Seq(Nat), NEW w \in Seq(Nat), NEW n \in Nat, n <= Len(v), n <= Len(w),
           NEW j \in Nat \ {0}, NEW d \in Int,
           Moved(v, w, n, j, d)
    PROVE  MovedAlong(v, w, n, j, d)
<1> DEFINE s == Sums(v)
           t == Sums(w)
           T == {i \in Nat : i <= n => t[i] = s[i] + IF j <= i THEN d ELSE 0}
<1>1. /\ Len(v) \in Nat /\ Len(w) \in Nat
      /\ s[0] = 0 /\ \A i \in 1..n : s[i] = s[i - 1] + v[i]
      /\ t[0] = 0 /\ \A i \in 1..n : t[i] = t[i - 1] + w[i]
      /\ \A i \in 0..n : s[i] \in Nat /\ t[i] \in Nat
  BY SumsFacts
<1>2. \A i \in 1..n : v[i] \in Nat
  OBVIOUS
<1> HIDE DEF s, t
<1>3. 0 \in T
  BY <1>1
<1>4. ASSUME NEW i \in T
      PROVE  i + 1 \in T
  <2> SUFFICES ASSUME i + 1 <= n
               PROVE  t[i + 1] = s[i + 1] + IF j <= i + 1 THEN d ELSE 0
    OBVIOUS
  <2>1. i \in Nat /\ i + 1 \in 1..n /\ i \in 0..n /\ (i + 1) - 1 = i
    OBVIOUS
  <2>2. t[i] = s[i] + IF j <= i THEN d ELSE 0
    BY <2>1
  <2>3. s[i + 1] = s[i] + v[i + 1] /\ t[i + 1] = t[i] + w[i + 1]
    BY <1>1, <2>1
  <2>4. w[i + 1] = IF i + 1 = j THEN v[i + 1] + d ELSE v[i + 1]
    BY <2>1 DEF Moved
  <2>5. s[i] \in Nat /\ v[i + 1] \in Nat
    BY <1>1, <1>2, <2>1
  <2>6. CASE j <= i
    <3>1. j <= i + 1 /\ i + 1 # j
      BY <2>1, <2>6
    <3> QED
      <4>1. t[i] = s[i] + d /\ w[i + 1] = v[i + 1]
        BY <2>2, <2>4, <2>6, <3>1
      <4>2. t[i + 1] = s[i + 1] + d
        BY <2>3, <2>5, <4>1
      <4> QED
        BY <3>1, <4>2
  <2>7. CASE j = i + 1
    <3>1. j <= i + 1 /\ ~(j <= i)
      BY <2>1, <2>7
    <3> QED
      <4>1. t[i] = s[i] + 0 /\ w[i + 1] = v[i + 1] + d
        BY <2>2, <2>4, <2>7, <3>1
      <4>2. t[i + 1] = s[i + 1] + d
        BY <2>3, <2>5, <4>1
      <4> QED
        BY <3>1, <4>2
  <2>8. CASE ~(j <= i + 1)
    <3>1. ~(j <= i) /\ i + 1 # j
      BY <2>1, <2>8
    <3> QED
      <4>1. t[i] = s[i] + 0 /\ w[i + 1] = v[i + 1]
        BY <2>2, <2>4, <2>8, <3>1
      <4> QED
        BY <2>3, <2>5, <3>1, <4>1
  <2>9. j <= i \/ j = i + 1 \/ ~(j <= i + 1)
    BY <2>1
  <2> QED
    BY <2>6, <2>7, <2>8, <2>9
<1>5. \A i \in Nat : i \in T
  <2>1. T \in SUBSET Nat
    OBVIOUS
  <2> HIDE DEF T
  <2> QED
    BY <1>3, <1>4, <2>1, AllNaturals
<1> QED
  BY <1>5 DEF MovedAlong, s, t

\* The width of a word and of the accumulator, without what it is made of.
LEMMA Widths ==
    /\ B \in Nat /\ B >= 2 /\ W \in Nat /\ W >= 4 /\ W = B * B
    /\ A \in Nat /\ A = W * W /\ A = (W - 1) * (W + 1) + 1 /\ W - 1 \in Nat /\ W - 1 >= 3
    /\ B * (B - 1) < W - 1 /\ W <= A - 1 /\ 2 * W <= A
<1>1. B \in Nat /\ B >= 2
  BY ChecksumAssumption DEF ChecksumAssumption
<1>2. B * B \in Nat /\ B * B >= 4 /\ B * (B - 1) < B * B - 1
  BY <1>1
<1>3. W \in Nat /\ W >= 4 /\ W = B * B
  BY <1>2 DEF W
<1>4. W * W \in Nat /\ W * W = (W - 1) * (W + 1) + 1 /\ 2 * W <= W * W
  BY <1>3
<1> QED
  BY <1>1, <1>2, <1>3, <1>4 DEF A

LEMMA Division ==
    ASSUME NEW d \in Nat \ {0}, NEW n \in Nat
    PROVE  /\ n % d \in 0..(d - 1) /\ n \div d \in Nat /\ n = d * (n \div d) + (n % d)
OBVIOUS

LEMMA DivisionOf ==
    ASSUME NEW d \in Nat \ {0}, NEW q \in Nat, NEW r \in 0..(d - 1)
    PROVE  (d * q + r) % d = r /\ (d * q + r) \div d = q
OBVIOUS

\* One round of the fold.
Fold(n) == (n % W) + (n \div W)

LEMMA FoldFacts ==
    ASSUME NEW n \in 0..(A - 1), n >= W
    PROVE  /\ Fold(n) \in 1..(2 * W - 2) /\ Fold(n) \in 0..(A - 1)
           /\ n \div W \in Nat /\ n = Fold(n) + (n \div W) * (W - 1)
           /\ Fold(n) >= W => Fold(Fold(n)) < W
<1> DEFINE h == n \div W
           l == n % W
<1>1. n \in Nat /\ W \in Nat \ {0} /\ W >= 4
  BY Widths
<1>2. h \in Nat /\ l \in 0..(W - 1) /\ n = W * h + l
  BY <1>1, Division
<1> HIDE DEF h, l
<1>3. h < W
  <2>1. CASE h >= W
    <3>1. W * h >= W * W
      BY <1>1, <1>2, <2>1
    <3> QED
      BY <1>1, <1>2, <3>1, Widths
  <2> QED
    BY <1>1, <1>2, <2>1
<1>4. h # 0
  BY <1>1, <1>2
<1>5. Fold(n) = l + h
  BY DEF Fold, h, l
<1>6. n = (l + h) + h * (W - 1)
  BY <1>1, <1>2
<1>7. Fold(n) \in 1..(2 * W - 2) /\ Fold(n) \in 0..(A - 1)
  BY <1>1, <1>2, <1>3, <1>4, <1>5, Widths
<1>8. ASSUME Fold(n) >= W
      PROVE  Fold(Fold(n)) < W
  <2> DEFINE r == Fold(n) - W
  <2>1. r \in 0..(W - 2) /\ r \in 0..(W - 1) /\ Fold(n) = W * 1 + r
    BY <1>1, <1>7, <1>8
  <2>2. Fold(n) % W = r /\ Fold(n) \div W = 1
    <3> HIDE DEF r
    <3> QED
      BY <1>1, <2>1, DivisionOf
  <2>3. Fold(Fold(n)) = r + 1
    BY <2>2 DEF Fold
  <2> HIDE DEF r
  <2> QED
    BY <1>1, <2>1, <2>3
<1> QED
  BY <1>2, <1>5, <1>6, <1>7, <1>8 DEF h

\* The loop ends after at most two rounds: it is the fold of the fold.
LEMMA FoldedIs ==
    \A n \in 0..(A - 1) : Folded[n] = IF n < W THEN n ELSE Folded[Fold(n)]
<1> DEFINE D == 0..(A - 1)
           twice(n) == IF n < W THEN n ELSE IF Fold(n) < W THEN Fold(n) ELSE Fold(Fold(n))
           g == [n \in D |-> twice(n)]
<1>1. ASSUME NEW n \in D
      PROVE  g[n] = IF n < W THEN n ELSE g[Fold(n)]
  <2>1. CASE n < W
    BY <2>1
  <2>2. CASE ~(n < W)
    <3>1. n >= W /\ Fold(n) \in D /\ Fold(n) \in Nat /\ W \in Nat
      <4>1. n \in Nat /\ W \in Nat
        BY Widths
      <4>2. n >= W
        BY <2>2, <4>1
      <4> QED
        BY <4>1, <4>2, FoldFacts
    <3>2. ~(Fold(n) < W) => Fold(Fold(n)) < W
      BY <3>1, FoldFacts
    <3>3. g[Fold(n)] = twice(Fold(n))
      BY <3>1
    <3> QED
      BY <2>2, <3>2, <3>3
  <2> QED
    BY <2>1, <2>2
<1>2. g = [n \in D |-> IF n < W THEN n ELSE g[Fold(n)]]
  <2>1. g = [n \in D |-> g[n]]
    OBVIOUS
  <2> HIDE DEF g
  <2> QED
    BY <1>1, <2>1
<1> HIDE DEF g, D
<1>3. Folded = [n \in D |-> IF n < W THEN n ELSE Folded[Fold(n)]]
  BY <1>2 DEF Folded, Fold, D
<1> QED
  BY <1>3 DEF D

\* Folding takes away multiples of W - 1 only, and makes 0 of nothing but 0.
LEMMA FoldedFacts ==
    ASSUME NEW n \in 0..(A - 1)
    PROVE  /\ Folded[n] \in 0..(W - 1) /\ (Folded[n] = 0 <=> n = 0)
           /\ \E q \in Nat : n = Folded[n] + q * (W - 1)
<1>1. W \in Nat /\ W >= 4 /\ n \in Nat
  BY Widths
<1>2. CASE n < W
  <2>1. Folded[n] = n
    BY <1>2, FoldedIs
  <2>2. n = n + 0 * (W - 1)
    BY <1>1
  <2> QED
    BY <1>1, <1>2, <2>1, <2>2
<1>3. CASE ~(n < W)
  <2> DEFINE m == Fold(n)
             q == n \div W
  <2>1. n >= W
    BY <1>1, <1>3
  <2>2. m \in 1..(2 * W - 2) /\ m \in 0..(A - 1) /\ q \in Nat /\ n = m + q * (W - 1)
    BY <2>1, FoldFacts
  <2>3. Folded[n] = Folded[m]
    BY <1>3, FoldedIs
  <2>4. m >= W => Fold(m) < W
    BY <2>1, FoldFacts
  <2> HIDE DEF m, q
  <2>5. CASE m < W
    <3>1. Folded[m] = m
      BY <2>2, <2>5, FoldedIs
    <3> QED
      BY <1>1, <2>1, <2>2, <2>3, <2>5, <3>1
  <2>6. CASE ~(m < W)
    <3> DEFINE k == Fold(m)
               p == m \div W
    <3>1. m >= W
      BY <1>1, <2>2, <2>6
    <3>2. k \in 1..(2 * W - 2) /\ k \in 0..(A - 1) /\ p \in Nat /\ m = k + p * (W - 1)
      BY <2>2, <3>1, FoldFacts
    <3>3. Folded[m] = Folded[k] /\ k < W
      BY <2>2, <2>4, <2>6, <3>1, FoldedIs
    <3> HIDE DEF k, p
    <3>4. Folded[k] = k
      BY <3>2, <3>3, FoldedIs
    <3>5. n = k + (p + q) * (W - 1) /\ p + q \in Nat
      BY <1>1, <2>2, <3>2
    <3>6. Folded[n] = k /\ k \in 0..(W - 1) /\ k # 0 /\ n # 0
      BY <1>1, <2>1, <2>3, <3>2, <3>3, <3>4
    <3> QED
      BY <3>5, <3>6
  <2> QED
    BY <2>5, <2>6
<1> QED
  BY <1>2, <1>3

-----------------------------------------------------------------------------
(* What the checksum of some bytes is *)

\* A word with its two bytes exchanged.
Exchanged(x) == B * (x % B) + (x \div B)

LEMMA ExchangedOf ==
    ASSUME NEW h \in Byte, NEW l \in Byte
    PROVE  B * h + l \in 0..(W - 1) /\ Exchanged(B * h + l) = B * l + h
<1>1. B \in Nat \ {0} /\ h \in 0..(B - 1) /\ l \in 0..(B - 1) /\ W = B * B /\ h \in Nat
  BY Widths DEF Byte
<1>2. (B * h + l) % B = l /\ (B * h + l) \div B = h
  BY <1>1, DivisionOf
<1>3. B * h <= B * (B - 1) /\ B * h \in Nat
  BY <1>1
<1>4. B * h + l \in 0..(W - 1)
  BY <1>1, <1>3
<1> QED
  BY <1>2, <1>4 DEF Exchanged

LEMMA BytesOf ==
    ASSUME NEW x \in 0..(W - 1)
    PROVE  x \div B \in Byte /\ x % B \in Byte /\ x = B * (x \div B) + (x % B)
<1>1. B \in Nat \ {0} /\ W = B * B /\ x \in Nat
  BY Widths
<1>2. x \div B \in Nat /\ x % B \in 0..(B - 1) /\ x = B * (x \div B) + (x % B)
  BY <1>1, Division
<1> DEFINE h == x \div B
           l == x % B
<1> HIDE DEF h, l
<1>3. h < B
  <2>1. CASE h >= B
    <3>1. B * h >= B * B
      BY <1>1, <1>2, <2>1 DEF h
    <3> QED
      BY <1>1, <1>2, <3>1 DEF h, l
  <2> QED
    BY <1>1, <1>2, <2>1 DEF h
<1> QED
  BY <1>1, <1>2, <1>3 DEF Byte, h

LEMMA ExchangedFacts ==
    ASSUME NEW x \in 0..(W - 1)
    PROVE  /\ Exchanged(x) \in 0..(W - 1) /\ Exchanged((W - 1) - x) = (W - 1) - Exchanged(x)
           /\ Exchanged(Exchanged(x)) = x
           /\ Exchanged(x) = W - 1 <=> x = W - 1
<1> DEFINE h == x \div B
           l == x % B
<1>1. h \in Byte /\ l \in Byte /\ x = B * h + l
  BY BytesOf
<1> HIDE DEF h, l
<1>2. Exchanged(x) = B * l + h /\ Exchanged(x) \in 0..(W - 1) /\ Exchanged(Exchanged(x)) = x
  BY <1>1, ExchangedOf
<1>3. B \in Nat /\ W = B * B /\ W - 1 = B * (B - 1) + (B - 1)
  BY Widths
<1>4. (B - 1) - h \in Byte /\ (B - 1) - l \in Byte
  BY <1>1, <1>3 DEF Byte
<1>5. (W - 1) - x = B * ((B - 1) - h) + ((B - 1) - l)
  BY <1>1, <1>3, <1>4 DEF Byte
<1>6. Exchanged((W - 1) - x) = B * ((B - 1) - l) + ((B - 1) - h)
  BY <1>4, <1>5, ExchangedOf
<1>7. B * ((B - 1) - l) + ((B - 1) - h) = (W - 1) - (B * l + h)
  BY <1>1, <1>3, <1>4 DEF Byte
<1>8. Exchanged(W - 1) = W - 1
  <2>1. B - 1 \in Byte
    BY Widths DEF Byte
  <2> QED
    BY <1>3, <2>1, ExchangedOf
<1> QED
  BY <1>2, <1>6, <1>7, <1>8

\* A byte, or the zero behind the last.
At(bytes, i) == IF i <= Len(bytes) THEN bytes[i] ELSE 0

LEMMA WordsAre ==
    ASSUME NEW bytes \in Seq(Byte), NEW k \in Nat, Len(bytes) = 2 * k \/ Len(bytes) = 2 * k - 1
    PROVE  /\ Words(bytes) \in Seq(Nat) /\ Len(Words(bytes)) = k
           /\ \A i \in 1..k : Words(bytes)[i] = B * At(bytes, 2 * i - 1) + At(bytes, 2 * i)
           /\ \A i \in 1..(2 * k) : At(bytes, i) \in Byte
           /\ Odd(bytes) <=> Len(bytes) = 2 * k - 1
<1> DEFINE n == Len(bytes)
           p == Padded(bytes)
<1>1. /\ B \in Nat /\ B >= 2 /\ 0 \in Byte /\ Byte \subseteq Nat /\ n \in Nat
      /\ \A i \in 1..n : bytes[i] \in Byte
  BY Widths DEF Byte
<1>2. Odd(bytes) <=> n = 2 * k - 1
  <2>1. (2 * k) % 2 = 0
    OBVIOUS
  <2>2. CASE n = 2 * k - 1
    <3>1. n % 2 = 1
      BY <1>1, <2>2
    <3> QED
      BY <2>2, <3>1 DEF Odd
  <2>3. CASE n = 2 * k
    BY <2>1, <2>3 DEF Odd
  <2> QED
    BY <2>2, <2>3
<1>3. p \in Seq(Byte) /\ Len(p) = 2 * k /\ \A i \in 1..(2 * k) : p[i] = At(bytes, i)
  <2>1. CASE n = 2 * k - 1
    <3>1. p = Append(bytes, 0)
      BY <1>2, <2>1 DEF Padded
    <3> QED
      BY <1>1, <2>1, <3>1 DEF At
  <2>2. CASE n = 2 * k
    <3>1. p = bytes
      BY <1>2, <2>2 DEF Padded
    <3> QED
      BY <1>1, <2>2, <3>1 DEF At
  <2> QED
    BY <2>1, <2>2
<1>4. \A i \in 1..(2 * k) : At(bytes, i) \in Byte
  BY <1>3
<1>7. \A i \in 1..(2 * k) : p[i] \in Nat
  <2>1. \A i \in 1..(2 * k) : p[i] \in Byte
    BY <1>3, <1>4
  <2> HIDE DEF p
  <2> QED
    BY <1>1, <2>1
<1>5. Words(bytes) = [i \in 1..k |-> B * p[2 * i - 1] + p[2 * i]]
  <2>1. (2 * k) \div 2 = k
    OBVIOUS
  <2> QED
    BY <1>3, <2>1 DEF Words
<1> HIDE DEF p
<1>6. ASSUME NEW i \in 1..k
      PROVE  /\ B * p[2 * i - 1] + p[2 * i] = B * At(bytes, 2 * i - 1) + At(bytes, 2 * i)
             /\ B * p[2 * i - 1] + p[2 * i] \in Nat
  <2>1. 2 * i \in 1..(2 * k) /\ 2 * i - 1 \in 1..(2 * k)
    OBVIOUS
  <2>2. p[2 * i - 1] \in Nat /\ p[2 * i] \in Nat
    BY <1>7, <2>1
  <2> QED
    BY <1>1, <1>3, <2>1, <2>2
<1> QED
  BY <1>2, <1>4, <1>5, <1>6

\* Every number of bytes is that of some words.
LEMMA SomeWords ==
    ASSUME NEW bytes \in Seq(Byte)
    PROVE  \E k \in Nat : Len(bytes) = 2 * k \/ Len(bytes) = 2 * k - 1
<1>1. Len(bytes) \in Nat
  OBVIOUS
<1>2. Len(bytes) = 2 * ((Len(bytes) + 1) \div 2) \/ Len(bytes) = 2 * ((Len(bytes) + 1) \div 2) - 1
  BY <1>1
<1>3. (Len(bytes) + 1) \div 2 \in Nat
  BY <1>1
<1> QED
  BY <1>2, <1>3

LEMMA TotalIs ==
    ASSUME NEW bytes \in Seq(Byte)
    PROVE  /\ Total(bytes) \in Nat /\ Sum(bytes) \in 0..(A - 1)
           /\ \E q \in Nat : Total(bytes) = A * q + Sum(bytes)
<1>1. PICK k \in Nat : Len(bytes) = 2 * k \/ Len(bytes) = 2 * k - 1
  BY SomeWords
<1>2. Words(bytes) \in Seq(Nat) /\ Len(Words(bytes)) = k
  BY <1>1, WordsAre
<1>3. Total(bytes) \in Nat
  BY <1>2, SumsFacts DEF Total
<1>4. A \in Nat \ {0}
  BY Widths
<1> QED
  BY <1>3, <1>4, Division DEF Sum

Multiple(x) == \E q \in Int : x = q * (W - 1)

\* The checksum is a word, and 0 for the sums that are multiples of W - 1, except 0.
LEMMA AcceptedIs ==
    ASSUME NEW bytes \in Seq(Byte)
    PROVE  /\ Checksum(bytes) \in 0..(W - 1)
           /\ Checksum(bytes) = 0 <=> Sum(bytes) # 0 /\ Multiple(Sum(bytes))
<1> DEFINE s == Sum(bytes)
           f == Folded[s]
<1>1. s \in 0..(A - 1) /\ W \in Nat /\ W >= 4
  BY TotalIs, Widths
<1>2. PICK q \in Nat : s = f + q * (W - 1)
  BY <1>1, FoldedFacts
<1>3. f \in 0..(W - 1) /\ (f = 0 <=> s = 0)
  BY <1>1, FoldedFacts
<1>4. Swap(bytes, f) \in 0..(W - 1) /\ (Swap(bytes, f) = W - 1 <=> f = W - 1)
  BY <1>3, ExchangedFacts DEF Swap, Exchanged
<1>5. Checksum(bytes) = (W - 1) - Swap(bytes, f)
  BY DEF Checksum
<1> HIDE DEF s, f
<1>6. Checksum(bytes) \in 0..(W - 1) /\ (Checksum(bytes) = 0 <=> f = W - 1)
  BY <1>1, <1>4, <1>5
<1>7. ASSUME f = W - 1
      PROVE  s # 0 /\ Multiple(s)
  <2>1. s = (q + 1) * (W - 1) /\ q + 1 \in Int
    BY <1>1, <1>2, <1>7
  <2> QED
    BY <1>1, <1>3, <1>7, <2>1 DEF Multiple
<1>8. ASSUME s # 0, Multiple(s)
      PROVE  f = W - 1
  <2>1. PICK r \in Int : s = r * (W - 1)
    BY <1>8 DEF Multiple
  <2>2. f = (r - q) * (W - 1) /\ r - q \in Int
    BY <1>1, <1>2, <1>3, <2>1
  <2>3. f > 0
    BY <1>1, <1>3, <1>8
  <2> DEFINE d == r - q
             m == W - 1
  <2>4. d \in Int /\ m \in Nat /\ m >= 3 /\ f = d * m /\ f <= m /\ f > 0
    BY <1>1, <1>3, <2>2, <2>3
  <2> HIDE DEF d, m
  <2>5. d > 0
    <3>1. CASE d <= 0
      <4>1. d * m <= 0
        BY <2>4, <3>1
      <4> QED
        BY <2>4, <4>1
    <3> QED
      BY <2>4, <3>1
  <2>6. d < 2
    <3>1. CASE d >= 2
      <4>1. d * m >= 2 * m
        BY <2>4, <3>1
      <4> QED
        BY <2>4, <4>1
    <3> QED
      BY <2>4, <3>1
  <2>7. d = 1
    BY <2>4, <2>5, <2>6
  <2> QED
    BY <2>4, <2>7 DEF m
<1> QED
  BY <1>6, <1>7, <1>8 DEF s

-----------------------------------------------------------------------------
(* The checksum of a log that is closed, and of one that is damaged *)

LEMMA SmallMultiple ==
    ASSUME NEW x \in Int, Multiple(x), -(W - 1) < x, x < W - 1
    PROVE  x = 0
<1> DEFINE m == W - 1
<1>1. m \in Nat /\ m >= 3
  BY Widths
<1>2. PICK q \in Int : x = q * m
  BY DEF Multiple
<1>3. -m < x /\ x < m
  OBVIOUS
<1> HIDE DEF m
<1>4. CASE q >= 1
  <2>1. q * m >= m
    BY <1>1, <1>4
  <2> QED
    BY <1>1, <1>2, <1>3, <2>1
<1>5. CASE q <= -1
  <2>1. q * m <= -m
    BY <1>1, <1>5
  <2> QED
    BY <1>1, <1>2, <1>3, <2>1
<1>6. CASE q = 0
  BY <1>1, <1>2, <1>6
<1> QED
  BY <1>4, <1>5, <1>6

LEMMA MultipleFacts ==
    /\ \A x, y \in Int : Multiple(x) /\ Multiple(y) => Multiple(x - y) /\ Multiple(x + y)
    /\ Multiple(A - 1) /\ Multiple(W - 1)
<1> DEFINE m == W - 1
<1>1. m \in Nat /\ W \in Nat /\ A - 1 = (W + 1) * m
  BY Widths
<1>2. ASSUME NEW x \in Int, NEW y \in Int, Multiple(x), Multiple(y)
      PROVE  Multiple(x - y) /\ Multiple(x + y)
  <2>1. PICK q \in Int : x = q * m
    BY <1>2 DEF Multiple
  <2>2. PICK r \in Int : y = r * m
    BY <1>2 DEF Multiple
  <2> HIDE DEF m
  <2>3. x - y = (q - r) * m /\ x + y = (q + r) * m /\ q - r \in Int /\ q + r \in Int
    BY <1>1, <2>1, <2>2
  <2> QED
    BY <2>3 DEF Multiple, m
<1>3. Multiple(A - 1) /\ Multiple(W - 1)
  <2>1. W - 1 = 1 * (W - 1) /\ W + 1 \in Int /\ A - 1 = (W + 1) * (W - 1) /\ 1 \in Int
    BY <1>1
  <2> QED
    BY <2>1, Zenon DEF Multiple
<1> QED
  BY <1>2, <1>3

\* The accumulator goes over its end or not when the total grows, or shrinks, by e.
LEMMA SumMoves ==
    ASSUME NEW f \in Seq(Byte), NEW g \in Seq(Byte), NEW e \in Int, -A < e, e < A,
           Total(g) = Total(f) + e
    PROVE  Sum(g) = IF Sum(f) + e < 0 THEN Sum(f) + e + A
                    ELSE IF Sum(f) + e < A THEN Sum(f) + e ELSE Sum(f) + e - A
<1> DEFINE s == Sum(f)
           t == Total(f)
           u == Total(g)
<1>1. /\ t \in Nat /\ u \in Nat /\ s \in 0..(A - 1) /\ A \in Nat \ {0} /\ u = t + e
      /\ \E q \in Nat : t = A * q + s
  <2>1. /\ t \in Nat /\ s \in 0..(A - 1) /\ \E q \in Nat : t = A * q + s
    BY TotalIs
  <2>2. u \in Nat
    BY TotalIs
  <2>3. A \in Nat \ {0} /\ u = t + e
    BY Widths
  <2> QED
    BY <2>1, <2>2, <2>3
<1>2. PICK q \in Nat : t = A * q + s
  BY <1>1
<1>3. Sum(g) = u % A
  BY DEF Sum
<1> HIDE DEF s, t, u
<1>4. CASE s + e < 0
  <2>1. q # 0
    BY <1>1, <1>2, <1>4
  <2>2. q - 1 \in Nat /\ s + e + A \in 0..(A - 1) /\ u = A * (q - 1) + (s + e + A)
    BY <1>1, <1>2, <1>4, <2>1
  <2>3. (A * (q - 1) + (s + e + A)) % A = s + e + A
    BY <1>1, <2>2, DivisionOf
  <2> QED
    BY <1>3, <1>4, <2>2, <2>3 DEF s
<1>5. CASE ~(s + e < 0) /\ s + e < A
  <2>1. s + e \in 0..(A - 1) /\ u = A * q + (s + e)
    BY <1>1, <1>2, <1>5
  <2>2. (A * q + (s + e)) % A = s + e
    BY <1>1, <1>2, <2>1, DivisionOf
  <2> QED
    BY <1>3, <1>5, <2>1, <2>2 DEF s
<1>6. CASE ~(s + e < A)
  <2>1. q + 1 \in Nat /\ s + e - A \in 0..(A - 1) /\ u = A * (q + 1) + (s + e - A) /\ ~(s + e < 0)
    BY <1>1, <1>2, <1>6
  <2>2. (A * (q + 1) + (s + e - A)) % A = s + e - A
    BY <1>1, <2>1, DivisionOf
  <2> QED
    BY <1>3, <1>6, <2>1, <2>2 DEF s
<1> QED
  BY <1>4, <1>5, <1>6

\* A checksum behind the bytes adds to their total what their sum lacks of a multiple.
LEMMA SealedTotal ==
    ASSUME NEW f \in Seq(Byte)
    PROVE  /\ f \o <<Checksum(f) \div B, Checksum(f) % B>> \in Seq(Byte)
           /\ Total(f \o <<Checksum(f) \div B, Checksum(f) % B>>)
                = Total(f) + ((W - 1) - Folded[Sum(f)])
<1> DEFINE c == Checksum(f)
           h == c \div B
           l == c % B
           g == f \o <<h, l>>
           x == Folded[Sum(f)]
<1>1. c \in 0..(W - 1) /\ x \in 0..(W - 1) /\ c = (W - 1) - Swap(f, x)
  BY AcceptedIs, FoldedFacts, TotalIs DEF Checksum
<1>2. h \in Byte /\ l \in Byte /\ c = B * h + l /\ Exchanged(c) = B * l + h
  <2>1. h \in Byte /\ l \in Byte /\ c = B * h + l
    BY <1>1, BytesOf
  <2> QED
    BY <2>1 DEF Exchanged
<1>3. PICK k \in Nat : Len(f) = 2 * k \/ Len(f) = 2 * k - 1
  BY SomeWords
<1> HIDE DEF h, l, c, x
<1>4. /\ g \in Seq(Byte) /\ Len(g) = Len(f) + 2 /\ \A i \in 1..Len(f) : g[i] = f[i]
      /\ g[Len(f) + 1] = h /\ g[Len(f) + 2] = l
  BY <1>2
<1>5. Len(f) \in Nat /\ B \in Nat /\ B >= 2 /\ Byte \subseteq Nat
  BY Widths DEF Byte
<1> DEFINE v == Words(f)
           w == Words(g)
<1>6. /\ v \in Seq(Nat) /\ Len(v) = k /\ w \in Seq(Nat) /\ Len(w) = k + 1
      /\ \A i \in 1..k : v[i] = B * At(f, 2 * i - 1) + At(f, 2 * i)
      /\ \A i \in 1..(k + 1) : w[i] = B * At(g, 2 * i - 1) + At(g, 2 * i)
      /\ \A i \in 1..(2 * k) : At(f, i) \in Nat
      /\ (Odd(f) <=> Len(f) = 2 * k - 1)
  <2>1. Len(g) = 2 * (k + 1) \/ Len(g) = 2 * (k + 1) - 1
    BY <1>3, <1>4, <1>5
  <2>2. k + 1 \in Nat /\ g \in Seq(Byte)
    BY <1>4
  <2> HIDE DEF g
  <2>3. /\ v \in Seq(Nat) /\ Len(v) = k
        /\ \A i \in 1..k : v[i] = B * At(f, 2 * i - 1) + At(f, 2 * i)
        /\ \A i \in 1..(2 * k) : At(f, i) \in Byte
        /\ Odd(f) <=> Len(f) = 2 * k - 1
    BY <1>3, WordsAre
  <2>4. /\ w \in Seq(Nat) /\ Len(w) = k + 1
        /\ \A i \in 1..(k + 1) : w[i] = B * At(g, 2 * i - 1) + At(g, 2 * i)
    BY <2>1, <2>2, WordsAre
  <2> QED
    BY <1>5, <2>3, <2>4
<1>7. /\ Total(f) = Sums(v)[k] /\ Total(g) = Sums(w)[k] + w[k + 1]
      /\ Sums(v)[k] \in Nat /\ Sums(w)[k] \in Nat
  <2>1. k + 1 \in 1..(k + 1) /\ (k + 1) - 1 = k /\ k \in 0..k /\ k \in 0..(k + 1)
    OBVIOUS
  <2> HIDE DEF g, v, w
  <2> QED
    BY <1>6, <2>1, SumsFacts DEF Total, v, w
<1> HIDE DEF g, v, w
<1>8. CASE Len(f) = 2 * k
  <2>1. \A i \in 1..(2 * k) : At(g, i) = At(f, i)
    BY <1>4, <1>5, <1>8 DEF At
  <2>2. \A i \in 1..k : w[i] = v[i]
    <3>1. \A i \in 1..k : 2 * i \in 1..(2 * k) /\ 2 * i - 1 \in 1..(2 * k) /\ i \in 1..(k + 1)
      OBVIOUS
    <3> QED
      BY <1>6, <2>1, <3>1
  <2>3. w[k + 1] = B * h + l
    <3>1. At(g, 2 * (k + 1) - 1) = h /\ At(g, 2 * (k + 1)) = l
      BY <1>4, <1>5, <1>8 DEF At
    <3>2. k + 1 \in 1..(k + 1)
      OBVIOUS
    <3> QED
      BY <1>6, <3>1, <3>2
  <2>4. Sums(w)[k] = Sums(v)[k] + 0
    <3>1. k + 1 \in Nat \ {0} /\ ~(k + 1 <= k) /\ k \in 0..k /\ 0 \in Int
      OBVIOUS
    <3>2. Moved(v, w, k, k + 1, 0)
      BY <2>2 DEF Moved
    <3>3. k <= Len(v) /\ k <= Len(w)
      BY <1>6
    <3>4. MovedAlong(v, w, k, k + 1, 0)
      BY <1>6, <3>1, <3>2, <3>3, SumsShift
    <3> QED
      BY <3>1, <3>4 DEF MovedAlong
  <2>5. c = (W - 1) - x
    BY <1>1, <1>6, <1>8, <1>5 DEF Swap
  <2> QED
    BY <1>2, <1>4, <1>7, <2>3, <2>4, <2>5 DEF g, h, l, c, x
<1>9. CASE Len(f) = 2 * k - 1
  <2>1. k >= 1 /\ k \in 1..k /\ k \in Nat \ {0}
    BY <1>5, <1>9
  <2>2. \A i \in 1..(2 * k - 1) : At(g, i) = At(f, i)
    BY <1>4, <1>5, <1>9 DEF At
  <2>3. At(f, 2 * k) = 0 /\ At(g, 2 * k) = h
    BY <1>4, <1>5, <1>9, <2>1 DEF At
  <2>4. At(g, 2 * (k + 1) - 1) = l /\ At(g, 2 * (k + 1)) = 0
    BY <1>4, <1>5, <1>9, <2>1 DEF At
  <2>5. w[k + 1] = B * l
    <3>1. k + 1 \in 1..(k + 1) /\ l \in Nat
      BY <1>2, <1>5
    <3> QED
      BY <1>5, <1>6, <2>4, <3>1
  <2>6. h \in Nat /\ h \in Int /\ k <= Len(v) /\ k <= Len(w) /\ k \in 0..k /\ k <= k
    BY <1>2, <1>5, <1>6
  <2>7. Moved(v, w, k, k, h)
    <3> SUFFICES ASSUME NEW i \in 1..k
                 PROVE  w[i] = IF i = k THEN v[i] + h ELSE v[i]
      BY DEF Moved
    <3>1. /\ 2 * i - 1 \in 1..(2 * k - 1) /\ i \in 1..(k + 1)
          /\ 2 * i - 1 \in 1..(2 * k) /\ 2 * i \in 1..(2 * k)
          /\ (i # k => 2 * i \in 1..(2 * k - 1))
      OBVIOUS
    <3>2. CASE i = k
      <4>1. w[k] = B * At(f, 2 * k - 1) + h /\ v[k] = B * At(f, 2 * k - 1) + 0
        BY <1>6, <2>2, <2>3, <3>1, <3>2
      <4>2. At(f, 2 * k - 1) \in Nat
        BY <1>6, <3>1, <3>2
      <4>3. B * At(f, 2 * k - 1) \in Nat
        BY <1>5, <4>2
      <4> QED
        BY <2>6, <3>2, <4>1, <4>3
    <3>3. CASE i # k
      BY <1>6, <2>2, <3>1, <3>3
    <3> QED
      BY <3>2, <3>3
  <2>8. Sums(w)[k] = Sums(v)[k] + h
    <3>1. MovedAlong(v, w, k, k, h)
      BY <1>6, <2>1, <2>6, <2>7, SumsShift
    <3> QED
      BY <2>6, <3>1 DEF MovedAlong
  <2>9. c = (W - 1) - Exchanged(x) /\ Exchanged(c) = (W - 1) - x
    <3>1. c = (W - 1) - Exchanged(x)
      BY <1>1, <1>6, <1>9 DEF Swap, Exchanged
    <3>2. Exchanged(x) \in 0..(W - 1) /\ Exchanged(Exchanged(x)) = x
      BY <1>1, ExchangedFacts
    <3>3. Exchanged(c) = (W - 1) - Exchanged(Exchanged(x))
      BY <3>1, <3>2, ExchangedFacts
    <3> QED
      BY <3>1, <3>2, <3>3
  <2>10. Total(g) = Total(f) + (B * l + h)
    <3>1. l \in Nat /\ B * l \in Nat
      BY <1>2, <1>5
    <3> QED
      BY <1>7, <2>5, <2>6, <2>8, <3>1
  <2>11. B * l + h = (W - 1) - x
    BY <1>2, <2>9
  <2> QED
    BY <1>4, <2>10, <2>11 DEF g, h, l, c, x
<1> QED
  BY <1>3, <1>8, <1>9

\* What the writer leaves, the reader accepts.
LEMMA SealedAccepted ==
    ASSUME NEW f \in Seq(Byte)
    PROVE  Checksum(f \o <<Checksum(f) \div B, Checksum(f) % B>>) = 0
<1> DEFINE g == f \o <<Checksum(f) \div B, Checksum(f) % B>>
           s == Sum(f)
           x == Folded[s]
           m == W - 1
           e == m - x
<1>1. g \in Seq(Byte) /\ Total(g) = Total(f) + e
  BY SealedTotal
<1>2. /\ s \in 0..(A - 1) /\ x \in 0..(W - 1) /\ (x = 0 <=> s = 0)
      /\ \E q \in Nat : s = x + q * (W - 1)
  BY TotalIs, FoldedFacts
<1>3. PICK q \in Nat : s = x + q * m
  BY <1>2
<1>4. /\ m \in Nat /\ m >= 3 /\ W = m + 1 /\ A \in Nat /\ A = m * (m + 2) + 1 /\ W <= A - 1
  BY Widths
<1> HIDE DEF g, s, x, m
<1>5. s + e = (q + 1) * m
  BY <1>2, <1>3, <1>4
<1>6. q + 1 <= m + 2
  <2>1. CASE q >= m + 2
    <3>1. q * m >= (m + 2) * m
      BY <1>4, <2>1
    <3>2. x = 0
      BY <1>2, <1>3, <1>4, <3>1
    <3>3. s = 0 /\ (m + 2) * m > 0
      BY <1>2, <1>4, <3>2
    <3> QED
      BY <1>2, <1>3, <1>4, <3>1, <3>3
  <2> QED
    BY <1>4, <2>1
<1>7. (q + 1) * m <= (m + 2) * m /\ (q + 1) * m >= m
  BY <1>4, <1>6
<1>8. e \in Int /\ -A < e /\ e < A /\ ~(s + e < 0) /\ s + e < A /\ s + e # 0
  BY <1>2, <1>4, <1>5, <1>7
<1>9. Sum(g) = s + e
  <2> HIDE DEF e
  <2>1. Sum(g) = IF Sum(f) + e < 0 THEN Sum(f) + e + A
                 ELSE IF Sum(f) + e < A THEN Sum(f) + e ELSE Sum(f) + e - A
    BY <1>1, <1>8, SumMoves
  <2> QED
    BY <1>8, <2>1 DEF s
<1>10. Multiple(Sum(g)) /\ Sum(g) # 0
  <2>1. Sum(g) = (q + 1) * (W - 1) /\ q + 1 \in Int
    BY <1>5, <1>9 DEF m
  <2> QED
    BY <1>8, <1>9, <2>1 DEF Multiple
<1>11. Checksum(g) = 0
  BY <1>1, <1>10, AcceptedIs
<1> QED
  BY <1>11 DEF g

\* One byte that is another moves the total by less than a word.
LEMMA DamagedTotal ==
    ASSUME NEW f \in Seq(Byte), NEW p \in 1..Len(f), NEW b \in Byte, b # f[p]
    PROVE  /\ [f EXCEPT ![p] = b] \in Seq(Byte)
           /\ \E e \in Int : /\ e # 0 /\ -(W - 1) < e /\ e < W - 1
                             /\ Total([f EXCEPT ![p] = b]) = Total(f) + e
<1> DEFINE g == [f EXCEPT ![p] = b]
<1>1. /\ g \in Seq(Byte) /\ Len(g) = Len(f) /\ g[p] = b
      /\ \A i \in 1..Len(f) : i # p => g[i] = f[i]
  OBVIOUS
<1>2. PICK k \in Nat : Len(f) = 2 * k \/ Len(f) = 2 * k - 1
  BY SomeWords
<1>3. B \in Nat /\ B >= 2 /\ b \in 0..(B - 1) /\ f[p] \in 0..(B - 1) /\ B * (B - 1) < W - 1
  BY Widths DEF Byte
<1>4. p \in Nat /\ p >= 1 /\ p <= Len(f) /\ Len(f) \in Nat
  OBVIOUS
<1> HIDE DEF g
<1> DEFINE v == Words(f)
           w == Words(g)
<1>5. /\ v \in Seq(Nat) /\ Len(v) = k
      /\ \A i \in 1..k : v[i] = B * At(f, 2 * i - 1) + At(f, 2 * i)
      /\ \A i \in 1..(2 * k) : At(f, i) \in Nat
  <2>1. /\ v \in Seq(Nat) /\ Len(v) = k
        /\ \A i \in 1..k : v[i] = B * At(f, 2 * i - 1) + At(f, 2 * i)
        /\ \A i \in 1..(2 * k) : At(f, i) \in Byte
    BY <1>2, WordsAre
  <2>2. Byte \subseteq Nat
    BY <1>3 DEF Byte
  <2> QED
    BY <2>1, <2>2
<1>6. /\ w \in Seq(Nat) /\ Len(w) = k
      /\ \A i \in 1..k : w[i] = B * At(g, 2 * i - 1) + At(g, 2 * i)
  BY <1>1, <1>2, WordsAre
<1>7. At(g, p) = b /\ At(f, p) = f[p] /\ \A i \in 1..(2 * k) : i # p => At(g, i) = At(f, i)
  BY <1>1, <1>2, <1>4 DEF At
<1>8. Total(f) = Sums(v)[k] /\ Total(g) = Sums(w)[k] /\ Sums(v)[k] \in Nat
  <2>1. k \in 0..k
    OBVIOUS
  <2> HIDE DEF v, w
  <2> QED
    BY <1>5, <1>6, <2>1, SumsFacts DEF Total, v, w
<1> DEFINE j == (p + 1) \div 2
           d == b - f[p]
           e == IF p = 2 * j THEN d ELSE B * d
<1>9. j \in 1..k /\ (p = 2 * j \/ p = 2 * j - 1)
  BY <1>2, <1>4
<1>10. e \in Int /\ e # 0 /\ -(W - 1) < e /\ e < W - 1
  <2>1. d \in Int /\ d # 0 /\ -(B - 1) <= d /\ d <= B - 1
    BY <1>3
  <2> HIDE DEF d
  <2>2. B * d <= B * (B - 1) /\ B * d >= -(B * (B - 1)) /\ B * d # 0 /\ B * d \in Int
    BY <1>3, <2>1
  <2>3. B - 1 <= B * (B - 1)
    BY <1>3
  <2> QED
    BY <1>3, <2>1, <2>2, <2>3, Widths
<1> HIDE DEF v, w, j
<1>11. Moved(v, w, k, j, e)
  <2> SUFFICES ASSUME NEW i \in 1..k
               PROVE  w[i] = IF i = j THEN v[i] + e ELSE v[i]
    BY DEF Moved
  <2>1. /\ 2 * i \in 1..(2 * k) /\ 2 * i - 1 \in 1..(2 * k)
        /\ (i # j => 2 * i # p /\ 2 * i - 1 # p)
        /\ (i = j /\ p = 2 * j => 2 * i - 1 # p) /\ (i = j /\ p = 2 * j - 1 => 2 * i # p)
    BY <1>9
  <2>2. CASE i # j
    BY <1>5, <1>6, <1>7, <2>1, <2>2
  <2>3. CASE i = j /\ p = 2 * j
    <3>1. v[i] = B * At(f, 2 * i - 1) + f[p] /\ w[i] = B * At(f, 2 * i - 1) + b
      BY <1>5, <1>6, <1>7, <2>1, <2>3
    <3>2. At(f, 2 * i - 1) \in Nat /\ B * At(f, 2 * i - 1) \in Nat
      <4>1. At(f, 2 * i - 1) \in Nat
        BY <1>5, <2>1
      <4> QED
        BY <1>3, <4>1
    <3> QED
      BY <1>3, <2>3, <3>1, <3>2
  <2>4. CASE i = j /\ p = 2 * j - 1
    <3>1. v[i] = B * f[p] + At(f, 2 * i) /\ w[i] = B * b + At(f, 2 * i)
      BY <1>5, <1>6, <1>7, <2>1, <2>4
    <3>2. At(f, 2 * i) \in Nat
      BY <1>5, <2>1
    <3>3. e = B * (b - f[p])
      BY <1>9, <2>4
    <3>4. B * b = B * f[p] + B * (b - f[p])
      BY <1>3
    <3>5. B * b \in Nat /\ B * f[p] \in Nat /\ B * (b - f[p]) \in Int
      BY <1>3
    <3> HIDE DEF e
    <3> QED
      BY <2>4, <3>1, <3>2, <3>3, <3>4, <3>5
  <2> QED
    BY <1>9, <2>2, <2>3, <2>4
<1> HIDE DEF e
<1>12. MovedAlong(v, w, k, j, e)
  <2>1. j \in Nat \ {0} /\ k <= Len(v) /\ k <= Len(w)
    BY <1>5, <1>6, <1>9
  <2> QED
    BY <1>5, <1>6, <1>10, <1>11, <2>1, SumsShift
<1>13. Total(g) = Total(f) + e
  <2>1. k \in 0..k /\ j <= k
    BY <1>9
  <2> QED
    BY <1>8, <1>12, <2>1 DEF MovedAlong
<1> QED
  BY <1>1, <1>10, <1>13 DEF g

\* One byte that is another is noticed: the only difference of a byte that the lost carry
\* could make up for is one that makes the sum 0.
LEMMA DamageNoticed ==
    ASSUME NEW f \in Seq(Byte), Checksum(f) = 0, NEW p \in 1..Len(f), NEW b \in Byte, b # f[p]
    PROVE  Checksum([f EXCEPT ![p] = b]) # 0
<1> DEFINE g == [f EXCEPT ![p] = b]
           s == Sum(f)
<1>1. g \in Seq(Byte)
  BY DamagedTotal
<1>2. PICK e \in Int : e # 0 /\ -(W - 1) < e /\ e < W - 1 /\ Total(g) = Total(f) + e
  BY DamagedTotal
<1>3. s # 0 /\ Multiple(s) /\ s \in 0..(A - 1)
  BY AcceptedIs, TotalIs
<1>4. W \in Nat /\ W - 1 \in Nat /\ W - 1 >= 3 /\ A \in Nat /\ W <= A - 1
  BY Widths
<1> HIDE DEF g, s
<1>5. Sum(g) = IF s + e < 0 THEN s + e + A ELSE IF s + e < A THEN s + e ELSE s + e - A
  <2>1. -A < e /\ e < A
    BY <1>2, <1>4
  <2> QED
    BY <1>1, <1>2, <2>1, SumMoves DEF s
<1>6. SUFFICES ASSUME Sum(g) # 0, Multiple(Sum(g))
               PROVE  FALSE
  <2>1. Checksum(g) = 0 <=> Sum(g) # 0 /\ Multiple(Sum(g))
    BY <1>1, AcceptedIs
  <2> QED
    BY <2>1 DEF g
<1> DEFINE t == Sum(g)
<1>7. t \in Int /\ Multiple(t - s) /\ Multiple(A - 1) /\ Multiple(t - s + (A - 1))
      /\ Multiple(t - s - (A - 1))
  <2>1. t \in Int /\ s \in Int /\ A - 1 \in Int
    BY <1>1, <1>3, <1>4, TotalIs
  <2> HIDE DEF t
  <2>2. Multiple(t) /\ Multiple(A - 1)
    BY <1>6, MultipleFacts DEF t
  <2>3. Multiple(t - s) /\ t - s \in Int
    BY <1>3, <2>1, <2>2, MultipleFacts
  <2> DEFINE r == t - s
  <2>4. Multiple(r + (A - 1)) /\ Multiple(r - (A - 1))
    <3>1. r \in Int /\ Multiple(r)
      BY <2>3
    <3> HIDE DEF r
    <3> QED
      BY <2>1, <2>2, <3>1, MultipleFacts
  <2> QED
    BY <2>1, <2>2, <2>3, <2>4
<1> HIDE DEF t
<1>8. CASE s + e < 0
  <2>1. t = s + e + A
    BY <1>5, <1>8 DEF t
  <2>2. t - s - (A - 1) = e + 1
    BY <1>3, <1>4, <2>1
  <2>3. Multiple(e + 1)
    BY <1>7, <2>2
  <2>4. e < 0
    BY <1>3, <1>8
  <2>5. e + 1 = 0
    BY <1>2, <1>4, <2>3, <2>4, SmallMultiple
  <2>6. s < 1
    BY <1>3, <1>8, <2>5
  <2> QED
    BY <1>3, <2>6
<1>9. CASE ~(s + e < 0) /\ s + e < A
  <2>1. t = s + e
    BY <1>5, <1>9 DEF t
  <2>2. t - s = e
    BY <1>3, <2>1
  <2>3. Multiple(e)
    BY <1>7, <2>2
  <2> QED
    BY <1>2, <2>3, SmallMultiple
<1>10. CASE ~(s + e < A)
  <2>1. t = s + e - A /\ e > 0
    BY <1>3, <1>4, <1>5, <1>10 DEF t
  <2>2. t - s + (A - 1) = e - 1
    BY <1>3, <1>4, <2>1
  <2>3. Multiple(e - 1)
    BY <1>7, <2>2
  <2>4. e - 1 = 0
    <3>1. e - 1 \in Int /\ -(W - 1) < e - 1 /\ e - 1 < W - 1
      BY <1>2, <1>4, <2>1
    <3> QED
      BY <2>3, <3>1, SmallMultiple
  <2>5. t = 0
    BY <1>3, <1>4, <1>10, <2>1, <2>4
  <2> QED
    BY <1>6, <2>5 DEF t
<1> QED
  BY <1>8, <1>9, <1>10

\* What is known of a log: its checksum is right until a byte changes, and wrong from then
\* on.
CInv ==
    /\ file \in Seq(Byte)
    /\ verdict \in {"none", "accepted", "refused", "failed"}
    /\ damaged => sealed
    /\ verdict = "failed" => ~sealed
    /\ sealed => (Checksum(file) = 0 <=> ~damaged)
    /\ sealed /\ ~damaged => verdict # "refused"
    /\ damaged => verdict # "accepted"
    /\ sealed \in BOOLEAN /\ damaged \in BOOLEAN

LEMMA ChecksumStep == CInv /\ [ChecksumNext]_checksumVars => CInv'
<1> SUFFICES ASSUME CInv, [ChecksumNext]_checksumVars
             PROVE  CInv'
  OBVIOUS
<1>1. ASSUME NEW b \in Byte, Write(b)
      PROVE  CInv'
  <2>1. file' \in Seq(Byte)
    BY <1>1 DEF CInv, Write
  <2> QED
    BY <1>1, <2>1 DEF CInv, Write
<1>2. CASE WriteChecksum
  <2>1. file' \in Seq(Byte) /\ Checksum(file') = 0
    BY <1>2, SealedTotal, SealedAccepted DEF CInv, WriteChecksum
  <2> QED
    BY <1>2, <2>1 DEF CInv, WriteChecksum
<1>3. CASE WriteChecksumFails
  <2>1. Checksum(file) \div B \in Byte
    BY AcceptedIs, BytesOf DEF CInv
  <2>2. file' \in Seq(Byte)
    BY <1>3, <2>1 DEF CInv, WriteChecksumFails
  <2> QED
    BY <1>3, <2>2 DEF CInv, WriteChecksumFails
<1>4. ASSUME NEW b \in Byte, NEW k \in DOMAIN file, Damage(k, b)
      PROVE  CInv'
  <2>1. k \in 1..Len(file) /\ b # file[k] /\ file \in Seq(Byte) /\ Checksum(file) = 0
    BY <1>4 DEF CInv, Damage
  <2>2. file' \in Seq(Byte) /\ Checksum(file') # 0
    BY <1>4, <2>1, DamagedTotal, DamageNoticed DEF Damage
  <2> QED
    BY <1>4, <2>2 DEF CInv, Damage
<1>5. CASE Open
  BY <1>5 DEF CInv, Open
<1>6. CASE UNCHANGED checksumVars
  BY <1>6 DEF CInv, checksumVars
<1> QED
  BY <1>1, <1>2, <1>3, <1>4, <1>5, <1>6 DEF ChecksumNext

\* For every width of the bytes and every length of the log.
THEOREM ChecksumInvariant == ChecksumSpec => []CInv
<1>1. ChecksumInit => CInv
  <2>1. <<>> \in Seq(Byte)
    OBVIOUS
  <2> QED
    BY <2>1 DEF ChecksumInit, CInv
<1> QED
  BY <1>1, ChecksumStep, PTL DEF ChecksumSpec

\* A log that was closed and not changed is accepted (log.c:365-366), of an odd or an even
\* length and however often its sum goes over the accumulator.
THEOREM GoodIsAccepted == ChecksumSpec => []GoodLogAccepted
<1>1. CInv => GoodLogAccepted
  BY DEF CInv, GoodLogAccepted
<1> QED
  BY <1>1, ChecksumInvariant, PTL

\* A log with one byte changed is refused.
THEOREM DamageIsRefused == ChecksumSpec => []DamageRefused
<1>1. CInv => DamageRefused
  BY DEF CInv, DamageRefused
<1> QED
  BY <1>1, ChecksumInvariant, PTL
===============================================================================
