------------------------- MODULE EstatsSockInfoProofs -------------------------
(***************************************************************************)
(* For any number of connections, processes and descriptors, and of        *)
(* changes and failures during a call: the items of a call are true, and   *)
(* complete for what was there all along, but where something failed that  *)
(* the call says nothing of.                                               *)
(***************************************************************************)
EXTENDS EstatsSockInfo, TLAPS, FiniteSetTheorems, SequenceTheorems, WellFoundedInduction

-----------------------------------------------------------------------------
(* Induction, and what FlattenSeq returns *)

\* A set of naturals has a least element: of the intervals from 0 to one of them, one
\* has none strictly inside it.
LEMMA Least ==
    ASSUME NEW S \in SUBSET Nat, S # {}
    PROVE  \E m \in S : \A x \in S : m <= x
<1> DEFINE T == {0..x : x \in S}
           R == StrictSubsetOrdering(Nat)
<1>1. ASSUME NEW x \in S
      PROVE  0..x \in FiniteSubsetsOf(Nat)
  <2>1. x \in Int /\ 0 \in Int /\ 0..x \in SUBSET Nat
    OBVIOUS
  <2> QED
    BY <2>1, FS_Interval DEF FiniteSubsetsOf
<1>2. T \subseteq FiniteSubsetsOf(Nat) /\ T # {}
  BY <1>1
<1>3. IsWellFoundedOn(R, FiniteSubsetsOf(Nat))
  BY FS_StrictSubsetOrderingWellFounded
<1> HIDE DEF T, R
<1>4. PICK t \in T : \A y \in T : ~(<<y, t>> \in R)
  BY <1>2, <1>3, WFMin
<1>5. PICK m \in S : t = 0..m
  BY DEF T
<1>6. ASSUME NEW x \in S
      PROVE  ~(x < m)
  <2>1. 0..x \in T /\ ~(<<0..x, 0..m>> \in R)
    BY <1>4, <1>5 DEF T
  <2>2. ASSUME x < m
        PROVE  0..x \in SUBSET (0..m) /\ 0..x # 0..m /\ 0..m \in SUBSET Nat
    <3>1. m \in 0..m /\ m \notin 0..x /\ \A j \in 0..x : j \in 0..m
      BY <2>2
    <3> QED
      BY <3>1
  <2> QED
    BY <2>1, <2>2 DEF R, StrictSubsetOrdering
<1> QED
  BY <1>6

\* Induction, for a set of naturals.
LEMMA AllNaturals ==
    ASSUME NEW S \in SUBSET Nat, 0 \in S, \A n \in S : n + 1 \in S
    PROVE  \A n \in Nat : n \in S
<1>1. SUFFICES ASSUME NEW k \in Nat, k \notin S
               PROVE  FALSE
  OBVIOUS
<1> DEFINE T == Nat \ S
<1>2. T \in SUBSET Nat /\ T # {}
  BY <1>1
<1> HIDE DEF T
<1>3. PICK m \in T : \A x \in T : m <= x
  BY <1>2, Least
<1>4. m \in Nat /\ m \notin S /\ m # 0
  BY <1>3 DEF T
<1>5. m - 1 \in Nat /\ ~(m <= m - 1)
  BY <1>4
<1>6. m - 1 \in S
  BY <1>3, <1>5 DEF T
<1>7. (m - 1) + 1 = m
  BY <1>4
<1> QED
  BY <1>4, <1>6, <1>7

\* The function that FlattenSeq is defined by is there.
Flattens(f, ss, n) == f = [i \in 1..n |-> IF i = 1 THEN ss[i] ELSE f[i - 1] \o ss[i]]

LEMMA FlattenExists ==
    ASSUME NEW ss
    PROVE  \A n \in Nat : \E f : Flattens(f, ss, n)
<1> DEFINE S == {n \in Nat : \E f : Flattens(f, ss, n)}
<1>1. 0 \in S
  <2>1. 1..0 = {}
    OBVIOUS
  <2> DEFINE f == [i \in 1..0 |-> i]
  <2>2. f = [i \in 1..0 |-> IF i = 1 THEN ss[i] ELSE f[i - 1] \o ss[i]]
    BY <2>1
  <2> QED
    BY <2>2 DEF Flattens
<1>2. ASSUME NEW n \in S
      PROVE  n + 1 \in S
  <2>1. PICK f : Flattens(f, ss, n)
    OBVIOUS
  <2> DEFINE e(h, i) == IF i = 1 THEN ss[i] ELSE h[i - 1] \o ss[i]
             g == [i \in 1..(n + 1) |-> IF i = n + 1 THEN e(f, i) ELSE f[i]]
  <2>2. ASSUME NEW i \in 1..(n + 1)
        PROVE  g[i] = e(g, i)
    <3>1. CASE i = n + 1
      <4>1. i # 1 => i - 1 \in 1..n /\ i - 1 # n + 1 /\ i - 1 \in 1..(n + 1)
        BY <3>1
      <4>2. i # 1 => g[i - 1] = f[i - 1]
        BY <4>1
      <4>3. g[i] = e(f, i)
        BY <3>1
      <4> QED
        BY <4>2, <4>3
    <3>2. CASE i # n + 1
      <4>1. i \in 1..n
        BY <3>2
      <4>2. f[i] = e(f, i)
        BY <2>1, <4>1 DEF Flattens
      <4>3. i # 1 => i - 1 # n + 1 /\ i - 1 \in 1..(n + 1)
        BY <4>1
      <4>4. i # 1 => g[i - 1] = f[i - 1]
        BY <4>3
      <4> QED
        BY <3>2, <4>2, <4>4
    <3> QED
      BY <3>1, <3>2
  <2>3. g = [i \in 1..(n + 1) |-> e(g, i)]
    <3>1. g = [i \in 1..(n + 1) |-> g[i]]
      OBVIOUS
    <3> HIDE DEF g
    <3> QED
      BY <2>2, <3>1
  <2> HIDE DEF g
  <2>4. Flattens(g, ss, n + 1)
    BY <2>3 DEF Flattens
  <2> QED
    BY <2>4
<1>3. S \in SUBSET Nat
  OBVIOUS
<1>4. \A n \in Nat : n \in S
  <2> HIDE DEF S
  <2> QED
    BY <1>1, <1>2, <1>3, AllNaturals
<1> QED
  BY <1>4

\* The elements of the flattened sequence are those of the sequences in it.
LEMMA FlattenElements ==
    ASSUME NEW E, NEW ss \in Seq(Seq(E))
    PROVE  /\ FlattenSeq(ss) \in Seq(E)
           /\ \A x : x \in ToSet(FlattenSeq(ss)) <=> \E n \in DOMAIN ss : x \in ToSet(ss[n])
           /\ FlattenSeq(ss) = <<>> <=> \A n \in DOMAIN ss : ss[n] = <<>>
<1>1. Len(ss) \in Nat /\ DOMAIN ss = 1..Len(ss) /\ \A n \in 1..Len(ss) : ss[n] \in Seq(E)
  OBVIOUS
<1>2. CASE Len(ss) = 0
  <2>1. FlattenSeq(ss) = <<>>
    BY <1>1, <1>2 DEF FlattenSeq
  <2>2. DOMAIN ss = {} /\ DOMAIN <<>> = {}
    BY <1>1, <1>2
  <2> QED
    BY <2>1, <2>2 DEF ToSet
<1>3. CASE Len(ss) # 0
  <2> DEFINE N == Len(ss)
             g == CHOOSE f : f = [i \in 1..N |-> IF i = 1 THEN ss[i] ELSE f[i - 1] \o ss[i]]
  <2>1. \E f : f = [i \in 1..N |-> IF i = 1 THEN ss[i] ELSE f[i - 1] \o ss[i]]
    BY <1>1, FlattenExists DEF Flattens
  <2>2. g = [i \in 1..N |-> IF i = 1 THEN ss[i] ELSE g[i - 1] \o ss[i]]
    BY <2>1
  <2>3. FlattenSeq(ss) = g[N]
    BY <1>3 DEF FlattenSeq
  <2> HIDE DEF g
  <2> DEFINE In(n) ==
                /\ g[n] \in Seq(E)
                /\ \A x : x \in ToSet(g[n]) <=> \E k \in 1..n : x \in ToSet(ss[k])
                /\ g[n] = <<>> <=> \A k \in 1..n : ss[k] = <<>>
             S == {n \in Nat : n \in 1..N => In(n)}
  <2>4. 0 \in S
    OBVIOUS
  <2>5. ASSUME NEW n \in S
        PROVE  n + 1 \in S
    <3>1. SUFFICES ASSUME n + 1 \in 1..N
                   PROVE  In(n + 1)
      OBVIOUS
    <3>2. ss[n + 1] \in Seq(E) /\ n \in Nat
      BY <1>1, <3>1
    <3>3. CASE n = 0
      <4>1. g[n + 1] = ss[n + 1] /\ 1..(n + 1) = {n + 1}
        BY <2>2, <3>1, <3>3
      <4> QED
        BY <3>2, <4>1
    <3>4. CASE n # 0
      <4>1. n \in 1..N /\ n + 1 # 1 /\ (n + 1) - 1 = n
        BY <3>1, <3>2, <3>4
      <4>2. In(n) /\ g[n + 1] = g[n] \o ss[n + 1]
        BY <2>2, <3>1, <4>1
      <4>3. \A k : k \in 1..(n + 1) <=> k \in 1..n \/ k = n + 1
        BY <3>2
      <4>4. g[n + 1] \in Seq(E)
        BY <3>2, <4>2
      <4>5. ASSUME NEW a \in Seq(E), NEW b \in Seq(E)
            PROVE  /\ \A x : x \in ToSet(a \o b) <=> x \in ToSet(a) \/ x \in ToSet(b)
                   /\ a \o b = <<>> <=> a = <<>> /\ b = <<>>
        <5>1. /\ a \o b \in Seq(E) /\ Len(a \o b) = Len(a) + Len(b)
              /\ Len(a) \in Nat /\ Len(b) \in Nat
              /\ \A i \in 1..Len(a) : (a \o b)[i] = a[i]
              /\ \A i \in 1..Len(b) : (a \o b)[Len(a) + i] = b[i]
          OBVIOUS
        <5>2. /\ DOMAIN a = 1..Len(a) /\ DOMAIN b = 1..Len(b)
              /\ DOMAIN (a \o b) = 1..(Len(a) + Len(b))
          BY <5>1
        <5>3. ASSUME NEW x
              PROVE  x \in ToSet(a \o b) <=> x \in ToSet(a) \/ x \in ToSet(b)
          <6>1. ASSUME NEW i \in 1..(Len(a) + Len(b))
                PROVE  i \in 1..Len(a) \/ \E j \in 1..Len(b) : i = Len(a) + j
            <7>1. i \notin 1..Len(a) => i - Len(a) \in 1..Len(b) /\ i = Len(a) + (i - Len(a))
              BY <5>1
            <7> QED
              BY <7>1
          <6>2. /\ \A i \in 1..Len(a) : i \in 1..(Len(a) + Len(b))
                /\ \A j \in 1..Len(b) : Len(a) + j \in 1..(Len(a) + Len(b))
            BY <5>1
          <6>3. /\ x \in ToSet(a) <=> \E i \in 1..Len(a) : x = a[i]
                /\ x \in ToSet(b) <=> \E i \in 1..Len(b) : x = b[i]
                /\ x \in ToSet(a \o b) <=> \E i \in 1..(Len(a) + Len(b)) : x = (a \o b)[i]
            BY <5>2 DEF ToSet
          <6>4. x \in ToSet(a \o b) => x \in ToSet(a) \/ x \in ToSet(b)
            BY <5>1, <6>1, <6>3
          <6>5. x \in ToSet(a) \/ x \in ToSet(b) => x \in ToSet(a \o b)
            BY <5>1, <6>2, <6>3
          <6> QED
            BY <6>4, <6>5
        <5>4. a \o b = <<>> <=> a = <<>> /\ b = <<>>
          BY <5>1
        <5> QED
          BY <5>3, <5>4
      <4>6. ASSUME NEW x
            PROVE  x \in ToSet(g[n + 1]) <=> \E k \in 1..(n + 1) : x \in ToSet(ss[k])
        BY <3>2, <4>2, <4>3, <4>5
      <4>7. g[n + 1] = <<>> <=> \A k \in 1..(n + 1) : ss[k] = <<>>
        BY <3>2, <4>2, <4>3, <4>5
      <4> QED
        BY <4>4, <4>6, <4>7
    <3> QED
      BY <3>3, <3>4
  <2> HIDE DEF S
  <2>6. N \in S
    <3>1. S \in SUBSET Nat
      BY DEF S
    <3> QED
      BY <1>1, <2>4, <2>5, <3>1, AllNaturals
  <2>7. In(N)
    BY <1>1, <1>3, <2>6 DEF S
  <2> QED
    BY <1>1, <2>3, <2>7
<1> QED
  BY <1>2, <1>3

-----------------------------------------------------------------------------
(* The join *)

ConnEntry == [cid : Cid, conn : Conn, spec : SpecType]
RowEntry == [inode : Conn \cup {NoConn}, conn : Conn, spec : SpecType]
PidEntry == [pid : Pid, inode : Conn]

\* There is an item for each process with the row's socket, and no other.
LEMMA OwnerElements ==
    ASSUME TypeOK, NEW t \in ConnEntry, NEW r \in RowEntry
    PROVE  /\ OwnerItems(t, r) \in Seq(ItemType)
           /\ \A x : x \in ToSet(OwnerItems(t, r)) <=>
                 \E n \in DOMAIN pids : pids[n].inode = r.inode /\ x = Item(t, pids[n].pid, r.conn)
<1> DEFINE e(n) == IF pids[n].inode = r.inode THEN <<Item(t, pids[n].pid, r.conn)>> ELSE <<>>
           ss == [n \in DOMAIN pids |-> e(n)]
<1>1. /\ DOMAIN pids = 1..Len(pids) /\ Len(pids) \in Nat
      /\ \A n \in DOMAIN pids : pids[n].pid \in Pid
  <2>1. pids \in Seq(PidEntry)
    BY DEF TypeOK, PidEntry
  <2>2. /\ DOMAIN pids = 1..Len(pids) /\ Len(pids) \in Nat
        /\ \A n \in DOMAIN pids : pids[n] \in PidEntry
    BY <2>1
  <2> QED
    BY <2>2 DEF PidEntry
<1>2. ASSUME NEW n \in DOMAIN pids
      PROVE  Item(t, pids[n].pid, r.conn) \in ItemType
  BY <1>1 DEF Item, ItemType, ConnEntry, RowEntry
<1>3. ASSUME NEW n \in DOMAIN pids
      PROVE  e(n) \in Seq(ItemType)
  BY <1>2
<1>4. ss \in Seq(Seq(ItemType))
  BY <1>1, <1>3
<1>5. OwnerItems(t, r) = FlattenSeq(ss)
  BY DEF OwnerItems
<1>6. DOMAIN ss = DOMAIN pids /\ \A n \in DOMAIN pids : ss[n] = e(n)
  OBVIOUS
<1>7. ASSUME NEW n \in DOMAIN pids, NEW x
      PROVE  x \in ToSet(e(n)) <=> pids[n].inode = r.inode /\ x = Item(t, pids[n].pid, r.conn)
  <2>1. ToSet(<<>>) = {} /\ \A y : ToSet(<<y>>) = {y}
    BY DEF ToSet
  <2> QED
    BY <2>1
<1> HIDE DEF ss, e
<1>8. /\ FlattenSeq(ss) \in Seq(ItemType)
      /\ \A x : x \in ToSet(FlattenSeq(ss)) <=> \E n \in DOMAIN ss : x \in ToSet(ss[n])
  BY <1>4, FlattenElements
<1>9. ASSUME NEW x
      PROVE  x \in ToSet(OwnerItems(t, r)) <=>
                \E n \in DOMAIN pids : pids[n].inode = r.inode /\ x = Item(t, pids[n].pid, r.conn)
  BY <1>5, <1>6, <1>7, <1>8
<1> QED
  BY <1>5, <1>8, <1>9

\* A row gives an item; an item of it is of a process with its socket, or of none.
LEMMA RowElements ==
    ASSUME TypeOK, NEW t \in ConnEntry, NEW r \in RowEntry
    PROVE  /\ RowItems(t, r) \in Seq(ItemType) /\ RowItems(t, r) # <<>>
           /\ \A x \in ToSet(RowItems(t, r)) :
                 \/ x = Item(t, NoPid, r.conn)
                 \/ \E n \in DOMAIN pids : pids[n].inode = r.inode /\ x = Item(t, pids[n].pid, r.conn)
           /\ \A n \in DOMAIN pids :
                 pids[n].inode = r.inode => Item(t, pids[n].pid, r.conn) \in ToSet(RowItems(t, r))
<1>1. Item(t, NoPid, r.conn) \in ItemType
  BY DEF Item, ItemType, ConnEntry, RowEntry
<1>2. CASE OwnerItems(t, r) = <<>>
  <2>1. ToSet(<<>>) = {} /\ \A y : ToSet(<<y>>) = {y} /\ <<y>> # <<>>
    BY DEF ToSet
  <2>2. RowItems(t, r) = <<Item(t, NoPid, r.conn)>>
    BY <1>2 DEF RowItems
  <2>3. \A n \in DOMAIN pids : pids[n].inode # r.inode
    BY <1>2, <2>1, OwnerElements
  <2> QED
    BY <1>1, <2>1, <2>2, <2>3
<1>3. CASE OwnerItems(t, r) # <<>>
  BY <1>3, OwnerElements DEF RowItems
<1> QED
  BY <1>2, <1>3

\* The items of a connection's rows.
LEMMA MatchElements ==
    ASSUME TypeOK, NEW t \in ConnEntry
    PROVE  /\ MatchItems(t) \in Seq(ItemType)
           /\ \A x : x \in ToSet(MatchItems(t)) <=>
                 \E m \in DOMAIN ino : SpecCompare(ino[m].spec, t.spec) /\ x \in ToSet(RowItems(t, ino[m]))
<1> DEFINE e(m) == IF SpecCompare(ino[m].spec, t.spec) THEN RowItems(t, ino[m]) ELSE <<>>
           ss == [m \in DOMAIN ino |-> e(m)]
<1>1. /\ DOMAIN ino = 1..Len(ino) /\ Len(ino) \in Nat
      /\ \A m \in DOMAIN ino : ino[m] \in RowEntry
  <2>1. ino \in Seq(RowEntry)
    BY DEF TypeOK, RowEntry
  <2> QED
    BY <2>1
<1>2. ASSUME NEW m \in DOMAIN ino
      PROVE  e(m) \in Seq(ItemType)
  BY <1>1, RowElements
<1>3. ss \in Seq(Seq(ItemType))
  BY <1>1, <1>2
<1>4. MatchItems(t) = FlattenSeq(ss)
  BY DEF MatchItems
<1>5. DOMAIN ss = DOMAIN ino /\ \A m \in DOMAIN ino : ss[m] = e(m)
  OBVIOUS
<1>6. ASSUME NEW m \in DOMAIN ino, NEW x
      PROVE  x \in ToSet(e(m)) <=> SpecCompare(ino[m].spec, t.spec) /\ x \in ToSet(RowItems(t, ino[m]))
  <2>1. ToSet(<<>>) = {}
    BY DEF ToSet
  <2> QED
    BY <2>1
<1> HIDE DEF ss, e
<1>7. /\ FlattenSeq(ss) \in Seq(ItemType)
      /\ \A x : x \in ToSet(FlattenSeq(ss)) <=> \E n \in DOMAIN ss : x \in ToSet(ss[n])
  BY <1>3, FlattenElements
<1>8. ASSUME NEW x
      PROVE  x \in ToSet(MatchItems(t)) <=>
                \E m \in DOMAIN ino : SpecCompare(ino[m].spec, t.spec) /\ x \in ToSet(RowItems(t, ino[m]))
  BY <1>4, <1>5, <1>6, <1>7
<1> QED
  BY <1>4, <1>7, <1>8

\* A connection gives an item; an item of it is of a row with its addresses, or of none.
LEMMA ConnElements ==
    ASSUME TypeOK, NEW t \in ConnEntry
    PROVE  /\ ConnItems(t) \in Seq(ItemType) /\ ConnItems(t) # <<>>
           /\ \A x \in ToSet(ConnItems(t)) : x = Item(t, NoPid, NoConn) \/ x \in ToSet(MatchItems(t))
           /\ \A x \in ToSet(MatchItems(t)) : x \in ToSet(ConnItems(t))
<1>1. Item(t, NoPid, NoConn) \in ItemType
  BY DEF Item, ItemType, ConnEntry
<1>2. CASE MatchItems(t) = <<>>
  <2>1. ToSet(<<>>) = {} /\ \A y : ToSet(<<y>>) = {y} /\ <<y>> # <<>>
    BY DEF ToSet
  <2>2. ConnItems(t) = <<Item(t, NoPid, NoConn)>>
    BY <1>2 DEF ConnItems
  <2> QED
    BY <1>1, <1>2, <2>1, <2>2
<1>3. CASE MatchItems(t) # <<>>
  BY <1>3, MatchElements DEF ConnItems
<1> QED
  BY <1>2, <1>3

\* The items of a call are those of the connections.
LEMMA JoinedElements ==
    ASSUME TypeOK
    PROVE  /\ Joined \in Seq(ItemType)
           /\ \A x : x \in ToSet(Joined) <=> \E n \in DOMAIN tcp : x \in ToSet(ConnItems(tcp[n]))
<1> DEFINE ss == [n \in DOMAIN tcp |-> ConnItems(tcp[n])]
<1>1. /\ DOMAIN tcp = 1..Len(tcp) /\ Len(tcp) \in Nat
      /\ \A n \in DOMAIN tcp : tcp[n] \in ConnEntry
  <2>1. tcp \in Seq(ConnEntry)
    BY DEF TypeOK, ConnEntry
  <2> QED
    BY <2>1
<1>2. \A n \in DOMAIN tcp : ConnItems(tcp[n]) \in Seq(ItemType)
  BY <1>1, ConnElements
<1>3. ss \in Seq(Seq(ItemType))
  BY <1>1, <1>2
<1>4. Joined = FlattenSeq(ss)
  BY DEF Joined
<1>5. DOMAIN ss = DOMAIN tcp /\ \A n \in DOMAIN tcp : ss[n] = ConnItems(tcp[n])
  OBVIOUS
<1> HIDE DEF ss
<1>6. /\ FlattenSeq(ss) \in Seq(ItemType)
      /\ \A x : x \in ToSet(FlattenSeq(ss)) <=> \E n \in DOMAIN ss : x \in ToSet(ss[n])
  BY <1>3, FlattenElements
<1> QED
  BY <1>4, <1>5, <1>6

-----------------------------------------------------------------------------
(* The inductive invariant *)

Running == pc \in {"tcp", "ino", "pid", "join"}

\* Between calls the three lists are empty.
Idle == ~Running => tcp = <<>> /\ ino = <<>> /\ pids = <<>>

\* The histories of a call follow the world.
Follows ==
    Running => /\ Pairs(cids) \subseteq hadCid /\ HeldOf(files) \subseteq held
               /\ stayed.cids \subseteq Pairs(cids)
               /\ stayed.rows \subseteq rows
               /\ stayed.files \subseteq Pairs(files)

\* The name whose stat is to come is one of the process whose directory is open.  Behind .
\* the socket that stat has described last is the process's, if nothing failed at . itself.
Scanning ==
    /\ pc = "pid" => seen \subseteq Slot \cup (Pid \X {"dir"})
    /\ pid # NoPid => /\ pc = "pid" /\ <<pid, "dir">> \in seen
                      /\ fd # "." /\ st # NoConn => <<pid, st>> \in held \/ <<pid, ".">> \in failed
    /\ fd # "none" => pid # NoPid /\ (fd \in {".", ".."} \/ <<pid, fd>> \in Slot \cap seen)

\* What has been read was there during the call, but behind a failure at a process's . .
TcpTrue == \A n \in DOMAIN tcp : <<tcp[n].cid, tcp[n].conn>> \in hadCid /\ tcp[n].spec = Tuple[tcp[n].conn]
InoTrue == \A n \in DOMAIN ino : ino[n].inode \in {ino[n].conn, NoConn} /\ ino[n].spec = RowSpec(Tuple[ino[n].conn])
PidsTrue == \A n \in DOMAIN pids :
    <<pids[n].pid, pids[n].inode>> \in held \/ <<pids[n].pid, ".">> \in failed

\* What has stayed has been read, or is still to be, or something failed at its name.
TcpWhole ==
    Running => \A x \in stayed.cids :
        \/ pc = "tcp" /\ x[1] \notin seen
        \/ \E n \in DOMAIN tcp : tcp[n].cid = x[1] /\ tcp[n].conn = x[2]
InoWhole ==
    pc \in {"ino", "pid", "join"} => \A y \in stayed.files :
        y[2] \in stayed.rows /\ Fam[y[2]] \in opened =>
            \/ pc = "ino" /\ y[2] \notin seen
            \/ \E n \in DOMAIN ino : ino[n].inode = y[2] /\ ino[n].conn = y[2]

Looked == {n[1] : n \in seen}
Pending(s) == s[1] \notin Looked \/ (s[1] = pid /\ (s \notin seen \/ s = <<pid, fd>>))
PidsWhole ==
    pc \in {"pid", "join"} => \A y \in stayed.files :
        <<y[1][1], "dir">> \notin failed /\ y[1] \notin failed =>
            \/ pc = "pid" /\ Pending(y[1])
            \/ \E n \in DOMAIN pids : pids[n].pid = y[1][1] /\ pids[n].inode = y[2]

IInv ==
    /\ TypeOK /\ Idle /\ Follows /\ Scanning
    /\ TcpTrue /\ InoTrue /\ PidsTrue
    /\ TcpWhole /\ InoWhole /\ PidsWhole

-----------------------------------------------------------------------------
(* Lemmas about the operators *)

LEMMA PairsFacts ==
    ASSUME NEW D, NEW f \in [D -> Conn \cup {NoConn}]
    PROVE  /\ Pairs(f) \subseteq D \X Conn
           /\ \A x \in Pairs(f) : x[1] \in D /\ x[2] \in Conn /\ f[x[1]] = x[2]
           /\ \A d \in D : f[d] # NoConn => <<d, f[d]>> \in Pairs(f)
<1>1. DOMAIN f = D /\ \A d \in D : f[d] # NoConn => f[d] \in Conn
  OBVIOUS
<1> QED
  BY <1>1 DEF Pairs

LEMMA HeldFacts ==
    ASSUME NEW f \in [Slot -> Conn \cup {NoConn}]
    PROVE  /\ HeldOf(f) \subseteq Pid \X Conn
           /\ \A s \in Slot : f[s] # NoConn => <<s[1], f[s]>> \in HeldOf(f)
<1>1. \A s \in Slot : s[1] \in Pid
  BY SockInfoAssumption
<1>2. /\ \A x \in Pairs(f) : x[1] \in Slot /\ x[2] \in Conn
      /\ \A s \in Slot : f[s] # NoConn => <<s, f[s]>> \in Pairs(f)
  BY PairsFacts
<1>3. ASSUME NEW s \in Slot, f[s] # NoConn
      PROVE  <<s[1], f[s]>> \in HeldOf(f)
  <2> DEFINE x == <<s, f[s]>>
  <2>1. x \in Pairs(f) /\ x[1][1] = s[1] /\ x[2] = f[s]
    BY <1>2, <1>3
  <2> HIDE DEF x
  <2>2. <<x[1][1], x[2]>> \in HeldOf(f)
    BY <2>1 DEF HeldOf
  <2> QED
    BY <2>1, <2>2
<1> QED
  BY <1>1, <1>2, <1>3 DEF HeldOf

LEMMA Appended ==
    ASSUME NEW E, NEW s \in Seq(E), NEW e \in E
    PROVE  /\ Append(s, e) \in Seq(E)
           /\ DOMAIN Append(s, e) = DOMAIN s \cup {Len(s) + 1}
           /\ \A n \in DOMAIN s : Append(s, e)[n] = s[n]
           /\ Append(s, e)[Len(s) + 1] = e
<1>1. Len(s) \in Nat /\ DOMAIN s = 1..Len(s) /\ Len(Append(s, e)) = Len(s) + 1
  OBVIOUS
<1>2. Append(s, e) \in Seq(E) /\ DOMAIN Append(s, e) = 1..(Len(s) + 1)
  BY <1>1
<1>3. 1..(Len(s) + 1) = 1..Len(s) \cup {Len(s) + 1}
  BY <1>1
<1>4. /\ \A n \in 1..Len(s) : Append(s, e)[n] = s[n]
      /\ Append(s, e)[Len(s) + 1] = e
  BY <1>1
<1> QED
  BY <1>1, <1>2, <1>3, <1>4

LEMMA RowTypes ==
    ASSUME NEW k \in Conn
    PROVE  RowSpec(Tuple[k]) \in SpecType
<1> DEFINE s == Tuple[k]
           r == RowSpec(s)
<1>1. s \in SpecType /\ 0 \in Byte
  BY SockInfoAssumption, ConnSpecAssumption
<1> HIDE DEF s
<1>2. ASSUME NEW a \in Addr
      PROVE  [a EXCEPT ![AddrLen] = 0] \in Addr
  BY <1>1, ConnSpecAssumption DEF Addr
<1>3. s.src \in Addr /\ s.dst \in Addr /\ s.sport \in Port /\ s.dport \in Port
  BY <1>1 DEF SpecType
<1>4. /\ r.src = [s.src EXCEPT ![AddrLen] = 0] /\ r.dst = [s.dst EXCEPT ![AddrLen] = 0]
      /\ r.sport = s.sport /\ r.dport = s.dport
      /\ r = [src |-> r.src, dst |-> r.dst, sport |-> r.sport, dport |-> r.dport]
  <2> DEFINE q == [src |-> [s.src EXCEPT ![AddrLen] = 0], dst |-> [s.dst EXCEPT ![AddrLen] = 0],
                   sport |-> s.sport, dport |-> s.dport]
  <2>1. s = [src |-> s.src, dst |-> s.dst, sport |-> s.sport, dport |-> s.dport]
    BY <1>1 DEF SpecType
  <2>2. r = [s EXCEPT !.src = [s.src EXCEPT ![AddrLen] = 0], !.dst = [s.dst EXCEPT ![AddrLen] = 0]]
    BY DEF RowSpec
  <2>3. r = q
    BY <2>1, <2>2
  <2> HIDE DEF r
  <2> QED
    BY <2>3
<1> HIDE DEF r
<1>5. r.src \in Addr /\ r.dst \in Addr
  <2>1. [s.src EXCEPT ![AddrLen] = 0] \in Addr /\ [s.dst EXCEPT ![AddrLen] = 0] \in Addr
    BY <1>2, <1>3
  <2> QED
    BY <1>4, <2>1
<1>6. r \in SpecType
  BY <1>3, <1>4, <1>5 DEF SpecType
<1> QED
  BY <1>6 DEF r, s

-----------------------------------------------------------------------------
(* What the invariant says of the items *)

\* What a call adds is true, where strcmp tells the connections' addresses apart
\* (sockinfo.c:486).
LEMMA IInvItemsTrue ==
    ASSUME IInv,
           \A j, k \in Conn : SpecCompare(RowSpec(Tuple[k]), Tuple[j]) => Tuple[j] = Tuple[k]
    PROVE  ItemsTrue
<1> SUFFICES ASSUME NEW it \in ToSet(Joined)
             PROVE  /\ <<it.cid, it.conn>> \in hadCid
                    /\ it.pid # NoPid /\ <<it.pid, ".">> \notin failed =>
                          \E k \in Conn : <<it.pid, k>> \in held /\ Tuple[k] = it.spec
  BY DEF ItemsTrue
<1>1. TypeOK /\ TcpTrue /\ InoTrue /\ PidsTrue
  BY DEF IInv
<1>2. PICK n \in DOMAIN tcp : it \in ToSet(ConnItems(tcp[n]))
  BY <1>1, JoinedElements
<1> DEFINE t == tcp[n]
<1>3. t \in ConnEntry
  <2>1. tcp \in Seq(ConnEntry)
    BY <1>1 DEF TypeOK, ConnEntry
  <2> QED
    BY <2>1
<1>4. <<t.cid, t.conn>> \in hadCid /\ t.spec = Tuple[t.conn] /\ t.conn \in Conn
  BY <1>1, <1>3 DEF TcpTrue, ConnEntry
<1> HIDE DEF t
<1>5. it = Item(t, NoPid, NoConn) \/ it \in ToSet(MatchItems(t))
  BY <1>1, <1>2, <1>3, ConnElements DEF t
<1>6. CASE it = Item(t, NoPid, NoConn)
  BY <1>4, <1>6 DEF Item
<1>7. CASE it \in ToSet(MatchItems(t))
  <2>1. PICK m \in DOMAIN ino : SpecCompare(ino[m].spec, t.spec) /\ it \in ToSet(RowItems(t, ino[m]))
    BY <1>1, <1>3, <1>7, MatchElements
  <2>2. ino[m] \in RowEntry
    <3>1. ino \in Seq(RowEntry)
      BY <1>1 DEF TypeOK, RowEntry
    <3> QED
      BY <3>1
  <2>3. \/ it = Item(t, NoPid, ino[m].conn)
        \/ \E l \in DOMAIN pids : pids[l].inode = ino[m].inode /\ it = Item(t, pids[l].pid, ino[m].conn)
    BY <1>1, <1>3, <2>1, <2>2, RowElements
  <2>4. CASE it = Item(t, NoPid, ino[m].conn)
    BY <1>4, <2>4 DEF Item
  <2>5. ASSUME NEW l \in DOMAIN pids, pids[l].inode = ino[m].inode, it = Item(t, pids[l].pid, ino[m].conn)
        PROVE  <<it.cid, it.conn>> \in hadCid /\ (<<it.pid, ".">> \notin failed => \E k \in Conn : <<it.pid, k>> \in held /\ Tuple[k] = it.spec)
    <3>1. pids[l] \in PidEntry
      <4>1. pids \in Seq(PidEntry)
        BY <1>1 DEF TypeOK, PidEntry
      <4> QED
        BY <4>1
    <3>2. /\ pids[l].inode \in Conn /\ pids[l].inode # NoConn
          /\ <<pids[l].pid, pids[l].inode>> \in held \/ <<pids[l].pid, ".">> \in failed
      BY <1>1, <3>1, SockInfoAssumption DEF PidEntry, PidsTrue
    <3>3. ino[m].conn = pids[l].inode /\ ino[m].spec = RowSpec(Tuple[pids[l].inode])
      BY <1>1, <2>5, <3>2 DEF InoTrue
    <3>4. Tuple[pids[l].inode] = t.spec
      BY <1>4, <2>1, <3>2, <3>3
    <3>5. it.pid = pids[l].pid /\ it.spec = t.spec /\ it.cid = t.cid /\ it.conn = t.conn
      BY <2>5 DEF Item
    <3> QED
      BY <1>4, <3>2, <3>4, <3>5
  <2> QED
    BY <2>3, <2>4, <2>5
<1> QED
  BY <1>5, <1>6, <1>7

\* Every connection that was there all along has an item (sockinfo.c:303).
LEMMA IInvConnsListed ==
    ASSUME IInv
    PROVE  ConnsListed
<1> SUFFICES ASSUME pc = "join", NEW x \in stayed.cids
             PROVE  \E it \in ToSet(Joined) : it.cid = x[1] /\ it.conn = x[2]
  BY DEF ConnsListed
<1>1. TypeOK /\ TcpWhole
  BY DEF IInv
<1>2. PICK n \in DOMAIN tcp : tcp[n].cid = x[1] /\ tcp[n].conn = x[2]
  BY <1>1 DEF TcpWhole, Running
<1> DEFINE t == tcp[n]
<1>3. t \in ConnEntry
  <2>1. tcp \in Seq(ConnEntry)
    BY <1>1 DEF TypeOK, ConnEntry
  <2> QED
    BY <2>1
<1> HIDE DEF t
<1>4. /\ ConnItems(t) \in Seq(ItemType) /\ ConnItems(t) # <<>>
      /\ \A y \in ToSet(ConnItems(t)) : y = Item(t, NoPid, NoConn) \/ y \in ToSet(MatchItems(t))
  BY <1>1, <1>3, ConnElements
<1>5. ConnItems(t)[1] \in ToSet(ConnItems(t))
  <2>1. 1 \in DOMAIN ConnItems(t)
    BY <1>4
  <2> QED
    BY <2>1 DEF ToSet
<1>6. ASSUME NEW y \in ToSet(ConnItems(t))
      PROVE  y.cid = t.cid /\ y.conn = t.conn
  <2>1. \A p, k : Item(t, p, k).cid = t.cid /\ Item(t, p, k).conn = t.conn
    BY DEF Item
  <2>2. CASE y = Item(t, NoPid, NoConn)
    BY <2>1, <2>2
  <2>3. CASE y \in ToSet(MatchItems(t))
    <3>1. PICK m \in DOMAIN ino : y \in ToSet(RowItems(t, ino[m]))
      BY <1>1, <1>3, <2>3, MatchElements
    <3>2. ino[m] \in RowEntry
      <4>1. ino \in Seq(RowEntry)
        BY <1>1 DEF TypeOK, RowEntry
      <4> QED
        BY <4>1
    <3> QED
      BY <1>1, <1>3, <2>1, <3>1, <3>2, RowElements
  <2> QED
    BY <1>4, <2>2, <2>3
<1>7. ConnItems(t)[1] \in ToSet(Joined)
  BY <1>1, <1>5, JoinedElements DEF t
<1> QED
  BY <1>2, <1>5, <1>6, <1>7 DEF t

\* So has every process that had the connection's socket all along and at whose names
\* nothing failed.
LEMMA IInvOwnersListed ==
    ASSUME IInv
    PROVE  OwnersListed
<1> SUFFICES ASSUME pc = "join", NEW x \in stayed.cids, NEW y \in stayed.files,
                    x[2] = y[2], y[2] \in stayed.rows, Fam[y[2]] \in opened,
                    SpecCompare(RowSpec(Tuple[y[2]]), Tuple[y[2]]),
                    <<y[1][1], "dir">> \notin failed, y[1] \notin failed
             PROVE  \E it \in ToSet(Joined) : it.cid = x[1] /\ it.pid = y[1][1]
  BY DEF OwnersListed
<1>1. TypeOK /\ TcpTrue /\ InoTrue /\ TcpWhole /\ InoWhole /\ PidsWhole
  BY DEF IInv
<1>2. PICK n \in DOMAIN tcp : tcp[n].cid = x[1] /\ tcp[n].conn = x[2]
  BY <1>1 DEF TcpWhole, Running
<1>3. PICK m \in DOMAIN ino : ino[m].inode = y[2] /\ ino[m].conn = y[2]
  BY <1>1 DEF InoWhole
<1>4. PICK l \in DOMAIN pids : pids[l].pid = y[1][1] /\ pids[l].inode = y[2]
  BY <1>1 DEF PidsWhole
<1> DEFINE t == tcp[n]
           it == Item(t, pids[l].pid, ino[m].conn)
<1>5. t \in ConnEntry /\ ino[m] \in RowEntry
  <2>1. tcp \in Seq(ConnEntry) /\ ino \in Seq(RowEntry)
    BY <1>1 DEF TypeOK, ConnEntry, RowEntry
  <2> QED
    BY <2>1
<1>6. t.conn \in Conn /\ t.spec = Tuple[t.conn] /\ ino[m].spec = RowSpec(Tuple[t.conn])
  BY <1>1, <1>2, <1>3, <1>5 DEF TcpTrue, InoTrue, ConnEntry
<1>7. SpecCompare(ino[m].spec, t.spec)
  BY <1>2, <1>6
<1>8. it.cid = x[1] /\ it.pid = y[1][1]
  BY <1>2, <1>4 DEF Item
<1> HIDE DEF t
<1>9. it \in ToSet(RowItems(t, ino[m]))
  BY <1>1, <1>3, <1>4, <1>5, RowElements
<1>10. it \in ToSet(MatchItems(t))
  BY <1>1, <1>5, <1>7, <1>9, MatchElements
<1>11. it \in ToSet(ConnItems(t))
  BY <1>1, <1>5, <1>10, ConnElements
<1>12. it \in ToSet(Joined)
  BY <1>1, <1>11, JoinedElements DEF t
<1> QED
  BY <1>8, <1>12

-----------------------------------------------------------------------------
(* Every step preserves the invariant *)

LEMMA InitIInv == Init => IInv
<1> SUFFICES ASSUME Init PROVE IInv
  OBVIOUS
<1> USE DEF Init
<1>1. TypeOK
  <2>1. <<>> \in Seq(ItemType) /\ <<>> \in Seq(ConnEntry) /\ <<>> \in Seq(RowEntry) /\ <<>> \in Seq(PidEntry)
    OBVIOUS
  <2> QED
    BY <2>1, SockInfoAssumption DEF TypeOK, ConnEntry, RowEntry, PidEntry
<1>2. Idle /\ Follows /\ Scanning /\ TcpWhole /\ InoWhole /\ PidsWhole
  BY DEF Idle, Follows, Scanning, TcpWhole, InoWhole, PidsWhole, Running
<1>3. TcpTrue /\ InoTrue /\ PidsTrue
  BY DEF TcpTrue, InoTrue, PidsTrue
<1> QED
  BY <1>1, <1>2, <1>3 DEF IInv

\* The tables keep their types.
LEMMA WorldTypes ==
    ASSUME TypeOK, World
    PROVE  /\ cids' \in [Cid -> Conn \cup {NoConn}] /\ rows' \subseteq Conn
           /\ files' \in [Slot -> Conn \cup {NoConn}] /\ used' \subseteq Conn
<1>1. /\ cids \in [Cid -> Conn \cup {NoConn}] /\ rows \subseteq Conn
      /\ files \in [Slot -> Conn \cup {NoConn}] /\ used \subseteq Conn
  BY DEF TypeOK
<1>2. ASSUME NEW c \in Cid, NEW k \in Conn, NEW s \in Slot, Connect(c, k, s)
      PROVE  /\ cids' \in [Cid -> Conn \cup {NoConn}] /\ rows' \subseteq Conn
             /\ files' \in [Slot -> Conn \cup {NoConn}] /\ used' \subseteq Conn
  BY <1>1, <1>2 DEF Connect
<1>3. ASSUME NEW s \in Slot, NEW t \in Slot, Share(s, t)
      PROVE  files' \in [Slot -> Conn \cup {NoConn}] /\ UNCHANGED <<cids, rows, used>>
  BY <1>1, <1>3 DEF Share
<1>4. ASSUME NEW s \in Slot, CloseFile(s)
      PROVE  files' \in [Slot -> Conn \cup {NoConn}] /\ UNCHANGED <<cids, rows, used>>
  BY <1>1, <1>4 DEF CloseFile
<1>5. ASSUME NEW c \in Cid, EndStats(c)
      PROVE  cids' \in [Cid -> Conn \cup {NoConn}] /\ UNCHANGED <<rows, files, used>>
  BY <1>1, <1>5 DEF EndStats
<1>6. ASSUME NEW k \in Conn, EndRow(k)
      PROVE  rows' \subseteq Conn /\ UNCHANGED <<cids, files, used>>
  BY <1>1, <1>6 DEF EndRow
<1> QED
  BY <1>1, <1>2, <1>3, <1>4, <1>5, <1>6 DEF World

\* The histories only grow, and what has stayed only shrinks.
LEMMA WorldIInv == IInv /\ World => IInv'
<1> SUFFICES ASSUME IInv, World PROVE IInv'
  OBVIOUS
<1>1. /\ TypeOK /\ Idle /\ Follows /\ Scanning /\ TcpTrue /\ InoTrue /\ PidsTrue
      /\ TcpWhole /\ InoWhole /\ PidsWhole
  BY DEF IInv
<1>2. WorldStep
  BY DEF World, Connect, Share, CloseFile, EndStats, EndRow
<1>3. /\ sinfo' = sinfo /\ items' = items /\ tcp' = tcp /\ ino' = ino /\ pids' = pids /\ pc' = pc
      /\ opened' = opened /\ seen' = seen /\ pid' = pid /\ fd' = fd /\ st' = st
      /\ leaked' = leaked /\ err' = err /\ calls' = calls
  BY <1>2 DEF WorldStep, lists, scan
<1>4. /\ cids' \in [Cid -> Conn \cup {NoConn}] /\ rows' \subseteq Conn
      /\ files' \in [Slot -> Conn \cup {NoConn}] /\ used' \subseteq Conn
  BY <1>1, WorldTypes
<1>5. Pairs(cids') \subseteq Cid \X Conn /\ HeldOf(files') \subseteq Pid \X Conn
      /\ Pairs(files') \subseteq Slot \X Conn
  BY <1>4, PairsFacts, HeldFacts
<1>6. CASE pc = "idle"
  <2>1. changes' = changes + 1 /\ hadCid' = hadCid /\ held' = held /\ stayed' = stayed /\ failed' = failed
    BY <1>2, <1>6 DEF WorldStep
  <2>2. TypeOK'
    BY <1>1, <1>3, <1>4, <2>1 DEF TypeOK
  <2>3. Idle' /\ Follows' /\ Scanning' /\ TcpWhole' /\ InoWhole' /\ PidsWhole'
    BY <1>1, <1>3, <1>6, <2>1 DEF Idle, Follows, Scanning, TcpWhole, InoWhole, PidsWhole, Running
  <2>4. TcpTrue' /\ InoTrue' /\ PidsTrue'
    BY <1>1, <1>3, <2>1 DEF TcpTrue, InoTrue, PidsTrue
  <2> QED
    BY <2>2, <2>3, <2>4 DEF IInv
<1>7. CASE pc # "idle"
  <2>1. /\ changes' = changes + 1 /\ failed' = failed
        /\ hadCid' = hadCid \cup Pairs(cids') /\ held' = held \cup HeldOf(files')
        /\ stayed' = [cids |-> stayed.cids \cap Pairs(cids'), rows |-> stayed.rows \cap rows',
                       files |-> stayed.files \cap Pairs(files')]
    BY <1>2, <1>7 DEF WorldStep
  <2>2. /\ stayed'.cids = stayed.cids \cap Pairs(cids')
        /\ stayed'.rows = stayed.rows \cap rows'
        /\ stayed'.files = stayed.files \cap Pairs(files')
    BY <2>1
  <2>3. changes' \in Nat
    BY <1>1, <2>1 DEF TypeOK
  <2>4. /\ hadCid' \subseteq Cid \X Conn /\ held' \subseteq Pid \X Conn
        /\ stayed' \in [cids : SUBSET (Cid \X Conn), rows : SUBSET Conn, files : SUBSET (Slot \X Conn)]
    BY <1>1, <1>4, <1>5, <2>1 DEF TypeOK
  <2>5. TypeOK'
    BY <1>1, <1>3, <1>4, <2>1, <2>3, <2>4 DEF TypeOK
  <2>6. Idle' /\ Follows' /\ Scanning'
    BY <1>1, <1>3, <2>1, <2>2 DEF Idle, Follows, Scanning, Running
  <2>7. TcpTrue' /\ InoTrue' /\ PidsTrue'
    BY <1>1, <1>3, <2>1 DEF TcpTrue, InoTrue, PidsTrue
  <2>8. TcpWhole' /\ InoWhole' /\ PidsWhole'
    BY <1>1, <1>3, <2>1, <2>2 DEF TcpWhole, InoWhole, PidsWhole, Running, Pending, Looked
  <2> QED
    BY <2>5, <2>6, <2>7, <2>8 DEF IInv
<1> QED
  BY <1>6, <1>7

\* However a call ends, its lists go.
LEMMA ReturnIInv ==
    ASSUME IInv, NEW e \in {"OK", "fail"}, Return(e), pc' \in {"idle", "dead"},
           UNCHANGED <<world, sinfo, calls>>, items' \in Seq(ItemType), leaked' \in Nat
    PROVE  IInv'
<1>1. TypeOK
  BY DEF IInv
<1>2. /\ tcp' = <<>> /\ ino' = <<>> /\ pids' = <<>> /\ err' = e
      /\ seen' = {} /\ opened' = {} /\ pid' = NoPid /\ fd' = "none" /\ st' = NoConn
      /\ changes' = 0 /\ hadCid' = {} /\ held' = {} /\ failed' = {}
      /\ stayed' = [cids |-> {}, rows |-> {}, files |-> {}]
      /\ cids' = cids /\ rows' = rows /\ files' = files /\ used' = used
      /\ sinfo' = sinfo /\ calls' = calls
  BY DEF Return, world
<1>3. TypeOK'
  <2>1. <<>> \in Seq(ConnEntry) /\ <<>> \in Seq(RowEntry) /\ <<>> \in Seq(PidEntry)
    OBVIOUS
  <2>2. /\ tcp' \in Seq([cid : Cid, conn : Conn, spec : SpecType])
        /\ ino' \in Seq([inode : Conn \cup {NoConn}, conn : Conn, spec : SpecType])
        /\ pids' \in Seq([pid : Pid, inode : Conn])
    BY <1>2, <2>1 DEF ConnEntry, RowEntry, PidEntry
  <2> QED
    BY <1>1, <1>2, <2>2 DEF TypeOK
<1>4. Idle' /\ Follows' /\ Scanning' /\ TcpWhole' /\ InoWhole' /\ PidsWhole'
  BY <1>2 DEF Idle, Follows, Scanning, TcpWhole, InoWhole, PidsWhole, Running
<1>5. TcpTrue' /\ InoTrue' /\ PidsTrue'
  BY <1>2 DEF TcpTrue, InoTrue, PidsTrue
<1> QED
  BY <1>3, <1>4, <1>5 DEF IInv

\* The names in a process's directory.
Name == Fd \cup {"dir", ".", ".."}

\* What a step that leaves the world and the histories alone, but for a failure, preserves.
Still ==
    /\ UNCHANGED <<world, changes, hadCid, held, stayed>>
    /\ failed' = failed \/ \E p \in Pid, f \in Name : failed' = failed \cup {<<p, f>>}

LEMMA StillFacts ==
    ASSUME IInv, Still
    PROVE  /\ cids' = cids /\ rows' = rows /\ files' = files /\ used' = used
           /\ changes' = changes /\ hadCid' = hadCid /\ held' = held /\ stayed' = stayed
           /\ failed \subseteq failed' /\ failed' \subseteq Pid \X (Fd \cup {"dir", ".", ".."})
           /\ (Running' => Running) => Follows'
           /\ tcp' = tcp => TcpTrue'
           /\ ino' = ino => InoTrue'
           /\ pids' = pids => PidsTrue'
<1>1. /\ cids' = cids /\ rows' = rows /\ files' = files /\ used' = used
      /\ changes' = changes /\ hadCid' = hadCid /\ held' = held /\ stayed' = stayed
      /\ failed \subseteq failed' /\ failed' \subseteq Pid \X (Fd \cup {"dir", ".", ".."})
  BY DEF Still, world, Name, IInv, TypeOK
<1>2. Follows /\ TcpTrue /\ InoTrue /\ PidsTrue
  BY DEF IInv
<1> QED
  BY <1>1, <1>2 DEF Follows, TcpTrue, InoTrue, PidsTrue

LEMMA QuietIInv == IInv /\ (New \/ FreeInfo \/ UNCHANGED vars) => IInv'
<1> SUFFICES ASSUME IInv, New \/ FreeInfo \/ UNCHANGED vars PROVE IInv'
  OBVIOUS
<1>1. /\ TypeOK /\ Idle /\ Scanning /\ TcpWhole /\ InoWhole /\ PidsWhole
  BY DEF IInv
<1>2. /\ tcp' = tcp /\ ino' = ino /\ pids' = pids /\ pc' = pc /\ opened' = opened /\ seen' = seen
      /\ pid' = pid /\ fd' = fd /\ st' = st /\ leaked' = leaked /\ err' = err /\ calls' = calls
      /\ Still
  BY DEF New, FreeInfo, vars, lists, scan, Still, history
<1>3. sinfo' \in {"none", "up"} /\ items' \in Seq(ItemType)
  <2>1. <<>> \in Seq(ItemType)
    OBVIOUS
  <2> QED
    BY <1>1, <2>1 DEF TypeOK, New, FreeInfo, vars
<1>4. TypeOK'
  BY <1>1, <1>2, <1>3, StillFacts DEF TypeOK
<1>5. Idle' /\ Scanning' /\ TcpWhole' /\ InoWhole' /\ PidsWhole'
  BY <1>1, <1>2, StillFacts DEF Idle, Scanning, TcpWhole, InoWhole, PidsWhole, Running, Pending, Looked
<1>6. Follows' /\ TcpTrue' /\ InoTrue' /\ PidsTrue'
  BY <1>2, StillFacts DEF Running
<1> QED
  BY <1>4, <1>5, <1>6 DEF IInv

\* A call begins: nothing has been read, and everything has stayed.
LEMMA GetListHeadIInv == IInv /\ GetListHead => IInv'
<1> SUFFICES ASSUME IInv, GetListHead PROVE IInv'
  OBVIOUS
<1>1. TypeOK /\ Idle /\ Scanning
  BY DEF IInv
<1>2. /\ pc = "idle" /\ calls < CallMax /\ calls' = calls + 1 /\ pc' = "tcp" /\ seen' = {}
      /\ changes' = 0 /\ hadCid' = Pairs(cids) /\ held' = HeldOf(files) /\ failed' = {}
      /\ stayed' = [cids |-> Pairs(cids), rows |-> rows, files |-> Pairs(files)]
      /\ cids' = cids /\ rows' = rows /\ files' = files /\ used' = Live
      /\ sinfo' = sinfo /\ items' = items /\ tcp' = tcp /\ ino' = ino /\ pids' = pids
      /\ opened' = opened /\ pid' = pid /\ fd' = fd /\ st' = st /\ leaked' = leaked /\ err' = err
  BY DEF GetListHead, lists
<1>3. /\ stayed'.cids = Pairs(cids) /\ stayed'.rows = rows /\ stayed'.files = Pairs(files)
      /\ tcp' = <<>> /\ ino' = <<>> /\ pids' = <<>> /\ pid' = NoPid /\ fd' = "none"
  BY <1>1, <1>2 DEF Idle, Scanning, Running
<1>4. Pairs(cids) \subseteq Cid \X Conn /\ HeldOf(files) \subseteq Pid \X Conn
      /\ Pairs(files) \subseteq Slot \X Conn
  BY <1>1, PairsFacts, HeldFacts DEF TypeOK
<1>5. TypeOK'
  <2>1. calls' \in 0..CallMax /\ changes' \in Nat /\ Live \subseteq Conn
    BY <1>1, <1>2, SockInfoAssumption DEF TypeOK, Live
  <2>2. /\ hadCid' \subseteq Cid \X Conn /\ held' \subseteq Pid \X Conn
        /\ stayed' \in [cids : SUBSET (Cid \X Conn), rows : SUBSET Conn, files : SUBSET (Slot \X Conn)]
    BY <1>1, <1>2, <1>4 DEF TypeOK
  <2> QED
    BY <1>1, <1>2, <2>1, <2>2 DEF TypeOK
<1>6. Idle' /\ Follows' /\ Scanning' /\ InoWhole' /\ PidsWhole'
  BY <1>2, <1>3 DEF Idle, Follows, Scanning, InoWhole, PidsWhole, Running
<1>7. TcpWhole'
  BY <1>2 DEF TcpWhole
<1>8. TcpTrue' /\ InoTrue' /\ PidsTrue'
  BY <1>3 DEF TcpTrue, InoTrue, PidsTrue
<1> QED
  BY <1>5, <1>6, <1>7, <1>8 DEF IInv

\* An entry is of the connection that the cid has now.
LEMMA ReadConnIInv == ASSUME NEW c \in Cid PROVE IInv /\ ReadConn(c) => IInv'
<1> SUFFICES ASSUME IInv, ReadConn(c) PROVE IInv'
  OBVIOUS
<1>1. TypeOK /\ Follows /\ Scanning /\ TcpTrue /\ TcpWhole
  BY DEF IInv
<1> DEFINE e == [cid |-> c, conn |-> cids[c], spec |-> Tuple[cids[c]]]
<1>2. /\ pc = "tcp" /\ pc' = "tcp" /\ seen' = seen \cup {c}
      /\ tcp' = IF cids[c] = NoConn THEN tcp ELSE Append(tcp, e)
      /\ ino' = ino /\ pids' = pids /\ sinfo' = sinfo /\ items' = items
      /\ opened' = opened /\ pid' = pid /\ fd' = fd /\ st' = st /\ leaked' = leaked /\ err' = err
      /\ calls' = calls /\ Still
  BY DEF ReadConn, Still, history
<1>3. /\ tcp \in Seq(ConnEntry) /\ Len(tcp) \in Nat
      /\ cids \in [Cid -> Conn \cup {NoConn}]
  <2>1. tcp \in Seq(ConnEntry) /\ cids \in [Cid -> Conn \cup {NoConn}]
    BY <1>1 DEF TypeOK, ConnEntry
  <2> QED
    BY <2>1
<1>4. cids[c] # NoConn => e \in ConnEntry /\ <<c, cids[c]>> \in hadCid
  <2>1. cids[c] # NoConn => cids[c] \in Conn /\ Tuple[cids[c]] \in SpecType
    BY <1>3, SockInfoAssumption
  <2>2. cids[c] # NoConn => <<c, cids[c]>> \in hadCid
    BY <1>1, <1>2, <1>3, PairsFacts DEF Follows, Running
  <2> QED
    BY <2>1, <2>2 DEF ConnEntry
<1>5. /\ tcp' \in Seq(ConnEntry)
      /\ \A n \in DOMAIN tcp : n \in DOMAIN tcp' /\ tcp'[n] = tcp[n]
      /\ \A n \in DOMAIN tcp' : n \in DOMAIN tcp \/ (cids[c] # NoConn /\ tcp'[n] = e)
      /\ cids[c] # NoConn => \E n \in DOMAIN tcp' : tcp'[n] = e
  <2> HIDE DEF e
  <2>1. CASE cids[c] = NoConn
    BY <1>2, <1>3, <2>1
  <2>2. CASE cids[c] # NoConn
    BY <1>2, <1>3, <1>4, <2>2, Appended
  <2> QED
    BY <2>1, <2>2
<1>6. TypeOK'
  <2>1. tcp' \in Seq([cid : Cid, conn : Conn, spec : SpecType])
    BY <1>5 DEF ConnEntry
  <2> QED
    BY <1>1, <1>2, <2>1, StillFacts DEF TypeOK
<1>7. Follows' /\ InoTrue' /\ PidsTrue'
  BY <1>2, StillFacts DEF Running
<1>8. Idle' /\ Scanning' /\ InoWhole' /\ PidsWhole'
  BY <1>1, <1>2 DEF Idle, Scanning, InoWhole, PidsWhole, Running
<1>9. TcpTrue'
  <2>1. e.cid = c /\ e.conn = cids[c] /\ e.spec = Tuple[cids[c]]
    OBVIOUS
  <2> HIDE DEF e
  <2> QED
    BY <1>1, <1>2, <1>4, <1>5, <2>1, StillFacts DEF TcpTrue
<1>10. TcpWhole'
  <2>1. e.cid = c /\ e.conn = cids[c]
    OBVIOUS
  <2> HIDE DEF e
  <2> SUFFICES ASSUME NEW x \in stayed.cids, x[1] \in seen \cup {c}
               PROVE  \E n \in DOMAIN tcp' : tcp'[n].cid = x[1] /\ tcp'[n].conn = x[2]
    BY <1>2, StillFacts DEF TcpWhole
  <2>2. CASE x[1] \in seen
    BY <1>1, <1>2, <1>5, <2>2 DEF TcpWhole, Running
  <2>3. CASE x[1] = c
    <3>1. cids[c] = x[2] /\ x[2] # NoConn
      <4>1. x \in Pairs(cids)
        BY <1>1, <1>2 DEF Follows, Running
      <4> QED
        BY <1>3, <2>3, <4>1, PairsFacts, SockInfoAssumption
    <3> QED
      BY <1>5, <2>1, <2>3, <3>1
  <2> QED
    BY <2>2, <2>3
<1> QED
  BY <1>6, <1>7, <1>8, <1>9, <1>10 DEF IInv

\* Every cid has been read.
LEMMA StartRowsIInv == IInv /\ StartRows => IInv'
<1> SUFFICES ASSUME IInv, StartRows PROVE IInv'
  OBVIOUS
<1>1. TypeOK /\ Idle /\ Follows /\ Scanning /\ TcpWhole
  BY DEF IInv
<1>2. /\ pc = "tcp" /\ Cid \subseteq seen /\ opened' \in SUBSET {Fam[k] : k \in Conn}
      /\ pc' = "ino" /\ seen' = {}
      /\ tcp' = tcp /\ ino' = ino /\ pids' = pids /\ sinfo' = sinfo /\ items' = items
      /\ pid' = pid /\ fd' = fd /\ st' = st /\ leaked' = leaked /\ err' = err
      /\ calls' = calls /\ Still
  BY DEF StartRows, Still, history, lists
<1>3. TypeOK'
  <2>1. opened' \subseteq {"v4", "v6"}
    BY <1>2, SockInfoAssumption
  <2> QED
    BY <1>1, <1>2, <2>1, StillFacts DEF TypeOK
<1>4. Follows' /\ TcpTrue' /\ InoTrue' /\ PidsTrue'
  BY <1>2, StillFacts DEF Running
<1>5. Idle' /\ Scanning' /\ PidsWhole'
  BY <1>1, <1>2 DEF Idle, Scanning, PidsWhole, Running
<1>6. TcpWhole'
  <2>1. \A x \in stayed.cids : x[1] \in Cid
    BY <1>1, <1>2, PairsFacts DEF TypeOK, Follows, Running
  <2> QED
    BY <1>1, <1>2, <2>1, StillFacts DEF TcpWhole, Running
<1>7. InoWhole'
  BY <1>2 DEF InoWhole
<1> QED
  BY <1>3, <1>4, <1>5, <1>6, <1>7 DEF IInv

\* A row that stayed and whose socket a process has kept gives an entry with its inode.
LEMMA ReadRowIInv == ASSUME NEW k \in Conn PROVE IInv /\ ReadRow(k) => IInv'
<1> SUFFICES ASSUME IInv, ReadRow(k) PROVE IInv'
  OBVIOUS
<1>1. TypeOK /\ Idle /\ Follows /\ Scanning /\ InoTrue /\ TcpWhole /\ InoWhole
  BY DEF IInv
<1> DEFINE e == [inode |-> IF Owned(k) THEN k ELSE NoConn, conn |-> k, spec |-> RowSpec(Tuple[k])]
           new == k \in rows /\ Fam[k] \in opened
<1>2. /\ pc = "ino" /\ pc' = "ino" /\ k \notin seen /\ seen' = seen \cup {k}
      /\ ino' = IF new THEN Append(ino, e) ELSE ino
      /\ tcp' = tcp /\ pids' = pids /\ sinfo' = sinfo /\ items' = items
      /\ opened' = opened /\ pid' = pid /\ fd' = fd /\ st' = st /\ leaked' = leaked /\ err' = err
      /\ calls' = calls /\ Still
  BY DEF ReadRow, Still, history
<1>3. ino \in Seq(RowEntry)
  BY <1>1 DEF TypeOK, RowEntry
<1>4. e \in RowEntry /\ e.inode \in {e.conn, NoConn}
  BY RowTypes DEF RowEntry
<1>5. e.inode = (IF Owned(k) THEN k ELSE NoConn) /\ e.conn = k /\ e.spec = RowSpec(Tuple[k])
  OBVIOUS
<1> HIDE DEF e, new
<1>6. /\ ino' \in Seq(RowEntry)
      /\ \A n \in DOMAIN ino : n \in DOMAIN ino' /\ ino'[n] = ino[n]
      /\ \A n \in DOMAIN ino' : n \in DOMAIN ino \/ ino'[n] = e
      /\ new => \E n \in DOMAIN ino' : ino'[n] = e
  <2>1. CASE ~new
    BY <1>2, <1>3, <2>1
  <2>2. CASE new
    BY <1>2, <1>3, <1>4, <2>2, Appended
  <2> QED
    BY <2>1, <2>2
<1>7. TypeOK'
  <2>1. ino' \in Seq([inode : Conn \cup {NoConn}, conn : Conn, spec : SpecType])
    BY <1>6 DEF RowEntry
  <2> QED
    BY <1>1, <1>2, <2>1, StillFacts DEF TypeOK
<1>8. Follows' /\ TcpTrue' /\ PidsTrue'
  BY <1>2, StillFacts DEF Running
<1>9. Idle' /\ Scanning' /\ TcpWhole' /\ PidsWhole'
  BY <1>1, <1>2, StillFacts DEF Idle, Scanning, TcpWhole, PidsWhole, Running
<1>10. InoTrue'
  BY <1>1, <1>4, <1>5, <1>6 DEF InoTrue
<1>11. InoWhole'
  <2> SUFFICES ASSUME NEW y \in stayed.files, y[2] \in stayed.rows, Fam[y[2]] \in opened,
                      y[2] \in seen \cup {k}
               PROVE  \E n \in DOMAIN ino' : ino'[n].inode = y[2] /\ ino'[n].conn = y[2]
    BY <1>2, StillFacts DEF InoWhole
  <2>1. CASE y[2] \in seen
    BY <1>1, <1>2, <1>6, <2>1 DEF InoWhole
  <2>2. CASE y[2] = k
    <3>1. new
      BY <1>1, <1>2, <2>2 DEF new, Follows, Running
    <3>2. Owned(k)
      <4>1. y \in Pairs(files) /\ files \in [Slot -> Conn \cup {NoConn}]
        BY <1>1, <1>2 DEF Follows, Running, TypeOK
      <4>2. y[1] \in Slot /\ files[y[1]] = k
        BY <2>2, <4>1, PairsFacts
      <4> QED
        BY <4>2 DEF Owned
    <3> QED
      BY <1>5, <1>6, <2>2, <3>1, <3>2
  <2> QED
    BY <2>1, <2>2
<1> QED
  BY <1>7, <1>8, <1>9, <1>10, <1>11 DEF IInv

\* Every row has been read.
LEMMA StartPidsIInv == IInv /\ StartPids => IInv'
<1> SUFFICES ASSUME IInv, StartPids PROVE IInv'
  OBVIOUS
<1>1. TypeOK /\ Idle /\ Follows /\ Scanning /\ TcpWhole /\ InoWhole
  BY DEF IInv
<1>2. /\ pc = "ino" /\ Conn \subseteq seen /\ pc' = "pid" /\ seen' = {}
      /\ st' \in Conn \cup {NoConn}
      /\ tcp' = tcp /\ ino' = ino /\ pids' = pids /\ sinfo' = sinfo /\ items' = items
      /\ opened' = opened /\ pid' = pid /\ fd' = fd /\ leaked' = leaked /\ err' = err
      /\ calls' = calls /\ Still
  BY DEF StartPids, Still, history, lists
<1>3. TypeOK'
  BY <1>1, <1>2, StillFacts DEF TypeOK
<1>4. Follows' /\ TcpTrue' /\ InoTrue' /\ PidsTrue'
  BY <1>2, StillFacts DEF Running
<1>5. Idle' /\ Scanning' /\ TcpWhole'
  BY <1>1, <1>2, StillFacts DEF Idle, Scanning, TcpWhole, Running
<1>6. InoWhole'
  BY <1>1, <1>2, StillFacts DEF InoWhole, TypeOK
<1>7. PidsWhole'
  BY <1>2 DEF PidsWhole, Pending, Looked
<1> QED
  BY <1>3, <1>4, <1>5, <1>6, <1>7 DEF IInv

\* The descriptors of a directory are to come, or it could not be opened.
LEMMA NextPidIInv == ASSUME NEW p \in Pid PROVE IInv /\ NextPid(p) => IInv'
<1> SUFFICES ASSUME IInv, NextPid(p) PROVE IInv'
  OBVIOUS
<1>1. TypeOK /\ Idle /\ Follows /\ Scanning /\ TcpWhole /\ InoWhole /\ PidsWhole
  BY DEF IInv
<1>2. /\ pc = "pid" /\ pc' = "pid" /\ pid = NoPid /\ p \notin Looked /\ seen' = seen \cup {<<p, "dir">>}
      /\ \/ pid' = pid /\ fd' = fd /\ failed' = failed \cup {<<p, "dir">>}
         \/ pid' = p /\ fd' = "." /\ failed' = failed
      /\ tcp' = tcp /\ ino' = ino /\ pids' = pids /\ sinfo' = sinfo /\ items' = items
      /\ opened' = opened /\ st' = st /\ leaked' = leaked /\ err' = err
      /\ calls' = calls /\ Still
  BY DEF NextPid, Fail, Name, Still, lists, Looked
<1>3. TypeOK'
  BY <1>1, <1>2, StillFacts DEF TypeOK
<1>4. Follows' /\ TcpTrue' /\ InoTrue' /\ PidsTrue'
  BY <1>2, StillFacts DEF Running
<1>5. Idle' /\ TcpWhole' /\ InoWhole'
  BY <1>1, <1>2, StillFacts DEF Idle, TcpWhole, InoWhole, Running
<1>6. Scanning'
  BY <1>1, <1>2, SockInfoAssumption, StillFacts DEF Scanning, TypeOK
<1>7. PidsWhole'
  <2> SUFFICES ASSUME NEW y \in stayed.files, <<y[1][1], "dir">> \notin failed', y[1] \notin failed
               PROVE  \/ Pending(y[1])'
                      \/ \E n \in DOMAIN pids : pids[n].pid = y[1][1] /\ pids[n].inode = y[2]
    BY <1>2, StillFacts DEF PidsWhole
  <2> DEFINE s == y[1]
  <2>1. s \in Slot /\ s[1] \in Pid /\ s[1] # NoPid /\ s # <<p, "dir">>
    <3>1. s \in Slot
      BY <1>1, <1>2, PairsFacts DEF Follows, Running, TypeOK
    <3> QED
      BY <3>1, SockInfoAssumption
  <2>2. CASE Pending(s)
    <3>1. s[1] \notin Looked
      BY <1>2, <2>1, <2>2 DEF Pending
    <3>2. \A q \in seen : q # s /\ q[1] # s[1]
      BY <3>1 DEF Looked
    <3>3. CASE s[1] = p
      <4>1. pid' = s[1] /\ s \notin seen'
        BY <1>2, <2>1, <3>2, <3>3
      <4> QED
        BY <4>1 DEF Pending
    <3>4. CASE s[1] # p
      <4>1. \A q \in seen' : q[1] # s[1]
        BY <1>2, <3>2, <3>4
      <4>2. s[1] \notin Looked'
        BY <4>1 DEF Looked
      <4> QED
        BY <4>2 DEF Pending
    <3> QED
      BY <3>3, <3>4
  <2>3. CASE ~Pending(s)
    BY <1>1, <1>2, <2>3 DEF PidsWhole
  <2> QED
    BY <2>2, <2>3
<1> QED
  BY <1>3, <1>4, <1>5, <1>6, <1>7 DEF IInv

LEMMA NextFdIInv == ASSUME NEW f \in Fd PROVE IInv /\ NextFd(f) => IInv'
<1> SUFFICES ASSUME IInv, NextFd(f) PROVE IInv'
  OBVIOUS
<1>1. TypeOK /\ Idle /\ Follows /\ Scanning /\ TcpWhole /\ InoWhole /\ PidsWhole
  BY DEF IInv
<1>2. /\ pc = "pid" /\ pc' = "pid" /\ pid # NoPid /\ fd = "none" /\ <<pid, f>> \in Slot \ seen
      /\ fd' = f /\ seen' = seen \cup {<<pid, f>>}
      /\ tcp' = tcp /\ ino' = ino /\ pids' = pids /\ sinfo' = sinfo /\ items' = items
      /\ opened' = opened /\ pid' = pid /\ st' = st /\ leaked' = leaked /\ err' = err
      /\ calls' = calls /\ Still
  BY DEF NextFd, Still, history, lists
<1>3. TypeOK'
  BY <1>1, <1>2, StillFacts DEF TypeOK
<1>4. Follows' /\ TcpTrue' /\ InoTrue' /\ PidsTrue'
  BY <1>2, StillFacts DEF Running
<1>5. Idle' /\ TcpWhole' /\ InoWhole'
  BY <1>1, <1>2, StillFacts DEF Idle, TcpWhole, InoWhole, Running
<1>6. Scanning'
  BY <1>1, <1>2, StillFacts DEF Scanning
<1>7. \A s : Pending(s) => Pending(s)'
  <2>1. <<pid, "dir">> \in seen
    BY <1>1, <1>2 DEF Scanning
  <2>2. \A x : x \in Looked' => x \in Looked
    BY <1>2, <2>1 DEF Looked
  <2>3. ASSUME NEW s, Pending(s)
        PROVE  Pending(s)'
    <3>1. CASE s[1] \notin Looked
      BY <2>2, <3>1 DEF Pending
    <3>2. CASE s[1] = pid /\ s \notin seen
      BY <1>2, <3>2 DEF Pending
    <3>3. CASE s = <<pid, "none">>
      <4>1. s \notin seen
        BY <1>1, <1>2, <3>3, SockInfoAssumption DEF Scanning
      <4> QED
        BY <1>2, <3>3, <4>1 DEF Pending
    <3> QED
      BY <1>2, <2>3, <3>1, <3>2, <3>3 DEF Pending
  <2> QED
    BY <2>3
<1>8. PidsWhole'
  BY <1>1, <1>2, <1>7, StillFacts DEF PidsWhole
<1> QED
  BY <1>3, <1>4, <1>5, <1>6, <1>8 DEF IInv

\* What stat describes is a socket the process has, or the one it described last; a
\* descriptor that stayed is described.
LEMMA StatFdIInv == IInv /\ StatFd => IInv'
<1> SUFFICES ASSUME IInv, StatFd PROVE IInv'
  OBVIOUS
<1>1. TypeOK /\ Idle /\ Follows /\ Scanning /\ PidsTrue /\ TcpWhole /\ InoWhole /\ PidsWhole
  BY DEF IInv
<1> DEFINE s == <<pid, fd>>
           e == [pid |-> pid, inode |-> st']
<1>2. /\ pc = "pid" /\ pc' = "pid" /\ fd # "none" /\ st' \in {Kind, st}
      /\ fd' = IF fd = "." THEN ".." ELSE "none"
      /\ \/ /\ pids' = IF st' = NoConn THEN pids ELSE Append(pids, e)
            /\ IF st' = Kind THEN failed' = failed ELSE failed' = failed \cup {s}
         \/ st' # NoConn /\ pids' = pids /\ failed' = failed \cup {s}
      /\ tcp' = tcp /\ ino' = ino /\ sinfo' = sinfo /\ items' = items
      /\ opened' = opened /\ seen' = seen /\ pid' = pid /\ leaked' = leaked /\ err' = err
      /\ calls' = calls /\ UNCHANGED <<world, changes, hadCid, held, stayed>>
  BY DEF StatFd, Fail
<1>3. /\ pid # NoPid /\ pid \in Pid /\ (fd \in {".", ".."} \/ s \in Slot \cap seen)
      /\ files \in [Slot -> Conn \cup {NoConn}] /\ HeldOf(files) \subseteq held
      /\ st \in Conn \cup {NoConn}
      /\ fd # "." /\ st # NoConn => <<pid, st>> \in held \/ <<pid, ".">> \in failed
  BY <1>1, <1>2 DEF Scanning, TypeOK, Follows, Running
<1>4. Still
  <2>1. failed' = failed \/ failed' = failed \cup {<<pid, fd>>}
    BY <1>2
  <2>2. fd \in Name
    BY <1>1, <1>2 DEF TypeOK, Name
  <2> QED
    BY <1>2, <1>3, <2>1, <2>2 DEF Still
<1>5. Kind \in Conn \cup {NoConn} /\ (Kind # NoConn => <<pid, Kind>> \in held)
  BY <1>2, <1>3, HeldFacts, SockInfoAssumption DEF Kind
<1>6. /\ st' \in Conn \cup {NoConn}
      /\ st' # NoConn => <<pid, st'>> \in held \/ <<pid, ".">> \in failed'
  <2>1. CASE st' = Kind
    BY <1>5, <2>1
  <2>2. CASE st' # Kind /\ fd = "."
    BY <1>2, <1>3, <2>2
  <2>3. CASE st' # Kind /\ fd # "."
    BY <1>2, <1>3, <1>4, <2>3, StillFacts
  <2> QED
    BY <2>1, <2>2, <2>3
<1>7. st' # NoConn => e \in PidEntry
  BY <1>3, <1>6 DEF PidEntry
<1>8. e.pid = pid /\ e.inode = st' /\ s[1] = pid
  OBVIOUS
<1> HIDE DEF e, s
<1>9. /\ pids' \in Seq(PidEntry)
      /\ \A n \in DOMAIN pids : n \in DOMAIN pids' /\ pids'[n] = pids[n]
      /\ \A n \in DOMAIN pids' : n \in DOMAIN pids \/ (st' # NoConn /\ pids'[n] = e)
      /\ s \notin failed' /\ Kind # NoConn => \E n \in DOMAIN pids' : pids'[n] = e
  <2>1. pids \in Seq(PidEntry)
    BY <1>1 DEF TypeOK, PidEntry
  <2>2. CASE pids' = pids /\ (st' = NoConn \/ s \in failed')
    <3>1. s \in failed' \/ Kind = NoConn
      BY <1>2, <2>2
    <3> QED
      BY <2>1, <2>2, <3>1
  <2>3. CASE pids' = Append(pids, e) /\ st' # NoConn
    BY <1>7, <2>1, <2>3, Appended
  <2> QED
    BY <1>2, <2>2, <2>3
<1>10. TypeOK'
  <2>1. pids' \in Seq([pid : Pid, inode : Conn])
    BY <1>9 DEF PidEntry
  <2> QED
    BY <1>1, <1>2, <1>6, <1>4, <2>1, StillFacts DEF TypeOK
<1>11. Follows' /\ TcpTrue' /\ InoTrue'
  BY <1>2, <1>4, StillFacts DEF Running
<1>12. Idle' /\ TcpWhole' /\ InoWhole'
  BY <1>1, <1>2, <1>4, StillFacts DEF Idle, TcpWhole, InoWhole, Running
<1>13. Scanning'
  BY <1>1, <1>2, <1>3, <1>6, <1>4, StillFacts DEF Scanning
<1>14. PidsTrue'
  <2>1. held' = held /\ failed \subseteq failed'
    BY <1>4, StillFacts
  <2>2. ASSUME NEW n \in DOMAIN pids'
        PROVE  <<pids'[n].pid, pids'[n].inode>> \in held \/ <<pids'[n].pid, ".">> \in failed'
    <3>1. CASE n \in DOMAIN pids
      BY <1>1, <1>9, <2>1, <3>1 DEF PidsTrue
    <3>2. CASE st' # NoConn /\ pids'[n] = e
      BY <1>6, <1>8, <3>2
    <3> QED
      BY <1>9, <3>1, <3>2
  <2> QED
    BY <2>1, <2>2 DEF PidsTrue
<1>15. PidsWhole'
  <2> SUFFICES ASSUME NEW y \in stayed.files, <<y[1][1], "dir">> \notin failed, y[1] \notin failed',
                      ~Pending(y[1])'
               PROVE  \E n \in DOMAIN pids' : pids'[n].pid = y[1][1] /\ pids'[n].inode = y[2]
    BY <1>2, <1>4, StillFacts DEF PidsWhole
  <2>1. CASE Pending(y[1])
    <3>1. y[1] = s
      BY <1>2, <2>1 DEF Pending, Looked, s
    <3>2. Kind = y[2] /\ y[2] # NoConn
      <4>1. y \in Pairs(files)
        BY <1>1, <1>2 DEF Follows, Running
      <4>2. files[s] = y[2] /\ y[2] # NoConn /\ s \in Slot
        BY <1>3, <3>1, <4>1, PairsFacts, SockInfoAssumption
      <4>3. fd \notin {".", ".."}
        BY <4>2, SockInfoAssumption DEF s
      <4> QED
        BY <4>2, <4>3 DEF Kind, s
    <3> QED
      BY <1>2, <1>8, <1>9, <3>1, <3>2
  <2>2. CASE ~Pending(y[1])
    BY <1>1, <1>2, <1>9, <2>2 DEF PidsWhole
  <2> QED
    BY <2>1, <2>2
<1> QED
  BY <1>10, <1>11, <1>12, <1>13, <1>14, <1>15 DEF IInv

\* Every descriptor of the process that stayed has been returned.
LEMMA EndFdsIInv == IInv /\ EndFds => IInv'
<1> SUFFICES ASSUME IInv, EndFds PROVE IInv'
  OBVIOUS
<1>1. TypeOK /\ Idle /\ Follows /\ Scanning /\ TcpWhole /\ InoWhole /\ PidsWhole
  BY DEF IInv
<1>2. /\ pc = "pid" /\ pc' = "pid" /\ pid # NoPid /\ fd = "none" /\ pid' = NoPid
      /\ \A s \in Slot \ seen : s[1] # pid \/ files[s] = NoConn
      /\ tcp' = tcp /\ ino' = ino /\ pids' = pids /\ sinfo' = sinfo /\ items' = items
      /\ opened' = opened /\ seen' = seen /\ fd' = fd /\ st' = st /\ leaked' = leaked /\ err' = err
      /\ calls' = calls /\ Still
  BY DEF EndFds, Still, history, lists
<1>3. TypeOK'
  BY <1>1, <1>2, StillFacts DEF TypeOK
<1>4. Follows' /\ TcpTrue' /\ InoTrue' /\ PidsTrue'
  BY <1>2, StillFacts DEF Running
<1>5. Idle' /\ TcpWhole' /\ InoWhole'
  BY <1>1, <1>2, StillFacts DEF Idle, TcpWhole, InoWhole, Running
<1>6. Scanning'
  BY <1>1, <1>2, StillFacts DEF Scanning
<1>7. PidsWhole'
  <2> SUFFICES ASSUME NEW y \in stayed.files, <<y[1][1], "dir">> \notin failed, y[1] \notin failed',
                      ~Pending(y[1])'
               PROVE  \E n \in DOMAIN pids : pids[n].pid = y[1][1] /\ pids[n].inode = y[2]
    BY <1>2, StillFacts DEF PidsWhole
  <2>1. y[1] \in Slot /\ files[y[1]] # NoConn
    <3>1. y \in Pairs(files) /\ files \in [Slot -> Conn \cup {NoConn}]
      BY <1>1, <1>2 DEF Follows, Running, TypeOK
    <3> QED
      BY <3>1, PairsFacts, SockInfoAssumption
  <2>2. ~Pending(y[1])
    <3>1. y[1][1] \in Looked
      BY <1>2 DEF Pending, Looked
    <3>2. y[1] # <<pid, "none">>
      BY <2>1, SockInfoAssumption
    <3>3. y[1][1] = pid => y[1] \in seen
      BY <1>2, <2>1
    <3> QED
      BY <1>2, <3>1, <3>2, <3>3 DEF Pending
  <2> QED
    BY <1>1, <1>2, <2>2, StillFacts DEF PidsWhole
<1> QED
  BY <1>3, <1>4, <1>5, <1>6, <1>7 DEF IInv

\* Every process has been looked at.
LEMMA EndPidsIInv == IInv /\ EndPids => IInv'
<1> SUFFICES ASSUME IInv, EndPids PROVE IInv'
  OBVIOUS
<1>1. TypeOK /\ Idle /\ Follows /\ Scanning /\ TcpWhole /\ InoWhole /\ PidsWhole
  BY DEF IInv
<1>2. /\ pc = "pid" /\ pc' = "join" /\ pid = NoPid /\ \A p \in Pid : p \in Looked
      /\ tcp' = tcp /\ ino' = ino /\ pids' = pids /\ sinfo' = sinfo /\ items' = items
      /\ opened' = opened /\ seen' = seen /\ pid' = pid /\ fd' = fd /\ st' = st
      /\ leaked' = leaked /\ err' = err /\ calls' = calls /\ Still
  BY DEF EndPids, Still, history, lists, scan, Looked
<1>3. TypeOK'
  BY <1>1, <1>2, StillFacts DEF TypeOK
<1>4. Follows' /\ TcpTrue' /\ InoTrue' /\ PidsTrue'
  BY <1>2, StillFacts DEF Running
<1>5. Idle' /\ Scanning' /\ TcpWhole' /\ InoWhole'
  BY <1>1, <1>2, StillFacts DEF Idle, Scanning, TcpWhole, InoWhole, Running
<1>6. PidsWhole'
  <2> SUFFICES ASSUME NEW y \in stayed.files, <<y[1][1], "dir">> \notin failed, y[1] \notin failed
               PROVE  \E n \in DOMAIN pids : pids[n].pid = y[1][1] /\ pids[n].inode = y[2]
    BY <1>2, StillFacts DEF PidsWhole
  <2>1. y[1][1] \in Pid
    <3>1. y[1] \in Slot
      BY <1>1, <1>2, PairsFacts DEF Follows, Running, TypeOK
    <3> QED
      BY <3>1, SockInfoAssumption
  <2>2. ~Pending(y[1])
    BY <1>2, <2>1, SockInfoAssumption DEF Pending
  <2> QED
    BY <1>1, <1>2, <2>2 DEF PidsWhole
<1> QED
  BY <1>3, <1>4, <1>5, <1>6 DEF IInv

\* The ways a call fails, and its end.
LEMMA EndIInv == IInv /\ (TcpFails \/ RowsFail \/ NoProc \/ PidsFail \/ Join) => IInv'
<1> SUFFICES ASSUME IInv PROVE TcpFails \/ RowsFail \/ NoProc \/ PidsFail \/ Join => IInv'
  OBVIOUS
<1>1. /\ TypeOK /\ items \in Seq(ItemType) /\ leaked \in Nat /\ opened \subseteq {"v4", "v6"}
  BY DEF IInv, TypeOK
<1>2. ASSUME TcpFails
      PROVE  IInv'
  <2>1. Return("fail") /\ pc' \in {"idle", "dead"} /\ UNCHANGED <<world, sinfo, items, leaked, calls>>
    BY <1>2 DEF TcpFails, ReturnUninitialised
  <2> QED
    BY <1>1, <2>1, ReturnIInv
<1>3. ASSUME RowsFail
      PROVE  IInv'
  <2>1. Return("fail") /\ pc' \in {"idle", "dead"} /\ UNCHANGED <<world, sinfo, items, calls>>
    BY <1>3 DEF RowsFail, ReturnUninitialised
  <2>2. leaked' \in Nat
    <3>1. Cardinality(opened) \in Nat
      <4>1. IsFiniteSet({"v4", "v6"})
        <5>1. IsFiniteSet({"v4"})
          BY FS_Singleton
        <5>2. {"v4", "v6"} = {"v4"} \cup {"v6"}
          OBVIOUS
        <5> QED
          BY <5>1, <5>2, FS_AddElement
      <4> QED
        BY <1>1, <4>1, FS_Subset, FS_CardinalityType
    <3> QED
      BY <1>1, <1>3, <3>1 DEF RowsFail
  <2> QED
    BY <1>1, <2>1, <2>2, ReturnIInv
<1>4. ASSUME NoProc
      PROVE  IInv'
  <2>1. Return("fail") /\ pc' \in {"idle", "dead"} /\ UNCHANGED <<world, sinfo, items, leaked, calls>>
    BY <1>4 DEF NoProc
  <2> QED
    BY <1>1, <2>1, ReturnIInv
<1>5. ASSUME PidsFail
      PROVE  IInv'
  <2>1. /\ Return("fail") /\ pc' \in {"idle", "dead"} /\ UNCHANGED <<world, sinfo, items, calls>>
        /\ leaked' = leaked + 3
    BY <1>5 DEF PidsFail
  <2> QED
    BY <1>1, <2>1, ReturnIInv
<1>6. ASSUME Join
      PROVE  IInv'
  <2>1. PICK n \in 0..Len(Joined) :
          /\ items' = items \o SubSeq(Joined, 1, n)
          /\ Return(IF n = Len(Joined) THEN "OK" ELSE "fail")
    BY <1>6 DEF Join
  <2>2. pc' \in {"idle", "dead"} /\ UNCHANGED <<world, sinfo, leaked, calls>>
    BY <1>6 DEF Join
  <2>3. items' \in Seq(ItemType)
    <3>1. Joined \in Seq(ItemType)
      BY <1>1, JoinedElements
    <3>2. SubSeq(Joined, 1, n) \in Seq(ItemType)
      BY <3>1, SubSeqProperties
    <3> QED
      BY <1>1, <2>1, <3>2
  <2>4. (IF n = Len(Joined) THEN "OK" ELSE "fail") \in {"OK", "fail"}
    OBVIOUS
  <2> QED
    BY <1>1, <2>1, <2>2, <2>3, <2>4, ReturnIInv
<1> QED
  BY <1>2, <1>3, <1>4, <1>5, <1>6

LEMMA NextIInv == IInv /\ [Next]_vars => IInv'
<1> SUFFICES ASSUME IInv, [Next]_vars PROVE IInv'
  OBVIOUS
<1>1. CASE UNCHANGED vars
  BY <1>1, QuietIInv
<1>2. CASE World
  BY <1>2, WorldIInv
<1>3. CASE Library
  BY <1>3, QuietIInv, GetListHeadIInv, ReadConnIInv, StartRowsIInv, ReadRowIInv, StartPidsIInv,
     NextPidIInv, NextFdIInv, StatFdIInv, EndFdsIInv, EndPidsIInv, EndIInv DEF Library
<1> QED
  BY <1>1, <1>2, <1>3 DEF Next

-----------------------------------------------------------------------------
(* The theorems *)

\* The inductive invariant: what the lists hold was there during the call, but for the
\* sockets of a process behind whose . stat failed; and what was there all along has been
\* read, or is still to be, or something failed at its name (sockinfo.c:215).
THEOREM SockInvariant == Spec => []IInv
<1>1. Init => IInv
  BY InitIInv
<1>2. IInv /\ [Next]_vars => IInv'
  BY NextIInv
<1> QED
  BY <1>1, <1>2, PTL DEF Spec

\* The lists of sockinfo.c hold entries of their types.
THEOREM SockTypeCorrect == Spec => []TypeOK
<1>1. IInv => TypeOK
  BY DEF IInv
<1> QED
  BY <1>1, SockInvariant, PTL

\* Every connection that the agent could return throughout a call has an item, also when
\* it has no row (sockinfo.c:303), whatever opens, closes or passes on meanwhile.
THEOREM SockConnsListed == Spec => []ConnsListed
<1>1. IInv => ConnsListed
  BY IInvConnsListed
<1> QED
  BY <1>1, SockInvariant, PTL

\* Every process that had the socket of such a connection throughout the call has an item
\* for it, as the search goes on behind the first (sockinfo.c:258), unless opendir, stat or
\* its status failed at its own names (:480-498), the table of rows could not be opened, or
\* the connection's address has no zero byte, so that the row never equals it.
THEOREM SockOwnersListed == Spec => []OwnersListed
<1>1. IInv => OwnersListed
  BY IInvOwnersListed
<1> QED
  BY <1>1, SockInvariant, PTL

\* The process of an item had a socket with the item's addresses during the call, although
\* the result of stat is not looked at (sockinfo.c:486), where strcmp tells the addresses
\* of the connections apart; only a process at whose . stat failed may have had none.
THEOREM SockItemsTrue ==
    ASSUME \A j, k \in Conn : SpecCompare(RowSpec(Tuple[k]), Tuple[j]) => Tuple[j] = Tuple[k]
    PROVE  Spec => []ItemsTrue
<1>1. IInv => ItemsTrue
  BY IInvItemsTrue
<1> QED
  BY <1>1, SockInvariant, PTL

\* FILEs and DIRs are lost by calls that fail only (sockinfo.c:422, :496).
THEOREM SockLeakOnlyOnError == Spec => LeakOnlyOnError
<1>1. ASSUME leaked \in Nat, [Next]_vars
      PROVE  leaked' > leaked => err' = "fail"
  <2>1. CASE leaked' = leaked
    BY <1>1, <2>1
  <2>2. CASE RowsFail \/ PidsFail
    BY <2>2 DEF RowsFail, PidsFail, ReturnUninitialised, Return
  <2>3. World => leaked' = leaked
    BY DEF World, Connect, Share, CloseFile, EndStats, EndRow, WorldStep
  <2>4. Library => leaked' = leaked \/ RowsFail \/ PidsFail
    BY DEF Library, New, FreeInfo, GetListHead, ReadConn, TcpFails, StartRows, ReadRow, StartPids,
       NoProc, NextPid, NextFd, StatFd, EndFds, EndPids, Join
  <2> QED
    BY <1>1, <2>1, <2>2, <2>3, <2>4 DEF Next, vars
<1>2. TypeOK => leaked \in Nat
  BY DEF TypeOK
<1>3. TypeOK /\ [Next]_vars => [leaked' > leaked => err' = "fail"]_vars
  BY <1>1, <1>2
<1> QED
  BY <1>3, SockTypeCorrect, PTL DEF Spec, LeakOnlyOnError
=============================================================================
