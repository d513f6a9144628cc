--------------------------- MODULE EstatsSnapshotProofs ---------------------------
(***************************************************************************)
(* For every number of connections, cids and variables, every width and    *)
(* every bound on the counters and the time: the snapshots of deltavar are *)
(* of the connection it looked up while that one lives, they are in the    *)
(* order of their times, and the differences it prints add up.  And for    *)
(* every number of objects and attributes: what a Python program reads     *)
(* through the objects of its latest scan is of their own connections, its *)
(* snapshots are too, and the matches that it is given are exact.          *)
(***************************************************************************)
EXTENDS DeltaVar, Web10G, Integers, TLAPS

LEMMA ModSmall ==
    ASSUME NEW M \in Nat \ {0}, NEW a \in 0..(M - 1)
    PROVE  a % M = a
OBVIOUS

LEMMA ModOnce ==
    ASSUME NEW M \in Nat \ {0}, NEW a \in M..(2 * M - 1)
    PROVE  a % M = a - M
OBVIOUS

LEMMA ModBounds ==
    ASSUME NEW M \in Nat \ {0}, NEW a \in Int
    PROVE  a % M \in 0..(M - 1)
OBVIOUS

LEMMA ModSum ==
    ASSUME NEW M \in Nat \ {0}, NEW a \in 0..(M - 1), NEW b \in 0..(M - 1)
    PROVE  (a + b) % M = IF a + b < M THEN a + b ELSE a + b - M
<1>1. CASE a + b < M
  <2>1. a + b \in 0..(M - 1)
    BY <1>1
  <2> QED
    BY <1>1, <2>1, ModSmall
<1>2. CASE ~(a + b < M)
  <2>1. a + b \in M..(2 * M - 1)
    BY <1>2
  <2>2. (a + b) % M = a + b - M
    BY <2>1, ModOnce
  <2> QED
    BY <1>2, <2>2
<1> QED
  BY <1>1, <1>2

\* A difference at the width of the values leads from one to the other.
LEMMA DifferenceLeads ==
    ASSUME NEW M \in Nat \ {0}, NEW b \in 0..(M - 1), NEW s \in 0..(M - 1),
           NEW n \in 0..(M - 1), NEW o \in 0..(M - 1), (b + s) % M = o
    PROVE  (b + ((s + ((n + M - o) % M)) % M)) % M = n
<1> DEFINE d == (n + M - o) % M
           t == (s + d) % M
<1>1. d = IF n >= o THEN n - o ELSE n - o + M
  <2>1. CASE n >= o
    BY <2>1, ModOnce
  <2>2. CASE n < o
    BY <2>2, ModSmall
  <2> QED
    BY <2>1, <2>2
<1>2. d \in 0..(M - 1)
  BY <1>1
<1>3. t = IF s + d < M THEN s + d ELSE s + d - M
  <2> HIDE DEF d
  <2> QED
    BY <1>2, ModSum
<1> HIDE DEF d
<1>4. t \in 0..(M - 1)
  BY <1>2, <1>3
<1> HIDE DEF t
<1>5. o = IF b + s < M THEN b + s ELSE b + s - M
  BY ModSum
<1>6. (b + t) % M = IF b + t < M THEN b + t ELSE b + t - M
  BY <1>4, ModSum
<1>7. (b + t) % M = n
  BY <1>1, <1>2, <1>3, <1>4, <1>5, <1>6
<1> QED
  BY <1>7 DEF t, d

LEMMA Constants ==
    /\ Modulus \in Nat \ {0} /\ NoConn \notin Conn /\ 0 \in 0..(Modulus - 1)
    /\ ClockMax \in Nat /\ NoSnap \notin SnapType
BY SnapshotAssumption, NoSnapAssumption DEF SnapshotAssumption, NoSnapAssumption

LEMMA SnapFacts ==
    ASSUME SnapshotTypeOK, NEW s \in Snap, snap[s] # NoSnap
    PROVE  /\ snap[s] \in SnapType /\ snap[s].spec \in Conn /\ snap[s].data \in [Var -> 0..(Modulus - 1)]
           /\ snap[s].of \in Conn \cup {NoConn} /\ snap[s].at \in [Var -> Nat]
           /\ snap[s].tv \in Nat /\ snap[s].tv \in 0..ClockMax /\ snap[s].cid \in Cid
           /\ snap[s].good \in BOOLEAN
<1>1. snap[s] \in SnapType
  BY DEF SnapshotTypeOK
<1> QED
  BY <1>1, Constants DEF SnapType

LEMMA ReadingFacts ==
    ASSUME SnapshotTypeOK, NEW k \in Conn
    PROVE  Reading(k) \in [Var -> 0..(Modulus - 1)] /\ count[k] \in [Var -> Nat]
<1>1. count[k] \in [Var -> Nat]
  BY DEF SnapshotTypeOK
<1>2. \A v \in Var : count[k][v] % Modulus \in 0..(Modulus - 1)
  BY <1>1, Constants, ModBounds
<1> QED
  BY <1>1, <1>2 DEF Reading

\* Connections come and go, and their counters and the clock only go on.
LEMMA KernelEffect ==
    ASSUME SnapshotTypeOK, Kernel
    PROVE  /\ SnapshotTypeOK' /\ UNCHANGED <<snap, pc, cur>>
           /\ \A k \in Conn, v \in Var : count[k][v] <= count'[k][v]
           /\ clock <= clock' /\ ended \subseteq ended'
           /\ \A c \in Cid, k \in Conn : proc[c] = k => proc'[c] = k \/ k \in ended'
<1>1. UNCHANGED <<snap, pc, cur>>
  BY DEF Kernel, takeVars
<1>2. /\ proc' \in [Cid -> Conn \cup {NoConn}] /\ ended' \subseteq Conn
      /\ count' \in [Conn -> [Var -> Nat]] /\ clock' \in 0..ClockMax
  <2>1. CASE \E c \in Cid, k \in Conn : KernelOpen(c, k)
    BY <2>1 DEF KernelOpen, SnapshotTypeOK
  <2>2. CASE \E c \in Cid : KernelClose(c)
    BY <2>2 DEF KernelClose, SnapshotTypeOK
  <2>3. CASE \E c \in Cid, v \in Var : KernelCount(c, v)
    <3>1. PICK c \in Cid, v \in Var : KernelCount(c, v)
      BY <2>3
    <3>2. count[proc[c]] \in [Var -> Nat] /\ proc[c] \in Conn
      BY <3>1 DEF KernelCount, SnapshotTypeOK
    <3>3. [count[proc[c]] EXCEPT ![v] = @ + 1] \in [Var -> Nat]
      BY <3>2
    <3> QED
      BY <3>1, <3>2, <3>3 DEF KernelCount, SnapshotTypeOK
  <2>4. CASE Tick
    BY <2>4, Constants DEF Tick, SnapshotTypeOK
  <2> QED
    BY <2>1, <2>2, <2>3, <2>4 DEF Kernel
<1>3. \A k \in Conn, v \in Var : count[k][v] <= count'[k][v]
  <2>1. CASE count' = count
    BY <2>1, ReadingFacts
  <2>2. CASE \E c \in Cid, v \in Var : KernelCount(c, v)
    <3>1. PICK c \in Cid, v \in Var : KernelCount(c, v)
      BY <2>2
    <3> SUFFICES ASSUME NEW k \in Conn, NEW w \in Var
                 PROVE  count[k][w] <= count'[k][w]
      OBVIOUS
    <3>2. count \in [Conn -> [Var -> Nat]] /\ count[k] \in [Var -> Nat] /\ count[k][w] \in Nat
      BY DEF SnapshotTypeOK
    <3>3. count' = [count EXCEPT ![proc[c]][v] = @ + 1]
      BY <3>1 DEF KernelCount
    <3>4. count'[k][w] = count[k][w] \/ count'[k][w] = count[k][w] + 1
      BY <3>2, <3>3
    <3> QED
      BY <3>2, <3>4
  <2> QED
    BY <2>1, <2>2 DEF Kernel, KernelOpen, KernelClose, Tick
<1>4. clock <= clock' /\ ended \subseteq ended'
  <2>1. clock \in Nat
    BY Constants DEF SnapshotTypeOK
  <2>2. clock' = clock \/ clock' = clock + 1
    BY DEF Kernel, KernelOpen, KernelClose, KernelCount, Tick
  <2>3. ended' = ended \/ \E c \in Cid : ended' = ended \cup {proc[c]}
    BY DEF Kernel, KernelOpen, KernelClose, KernelCount, Tick
  <2>4. clock <= clock'
    BY <2>1, <2>2
  <2>5. ended \subseteq ended'
    BY <2>3
  <2> QED
    BY <2>4, <2>5
<1>5. ASSUME NEW c \in Cid, NEW k \in Conn, proc[c] = k
      PROVE  proc'[c] = k \/ k \in ended'
  <2>1. NoConn \notin Conn /\ proc \in [Cid -> Conn \cup {NoConn}]
    BY Constants DEF SnapshotTypeOK
  <2>2. CASE \E d \in Cid, j \in Conn : KernelOpen(d, j)
    BY <1>5, <2>1, <2>2 DEF KernelOpen
  <2>3. CASE \E d \in Cid : KernelClose(d)
    BY <1>5, <2>1, <2>3 DEF KernelClose
  <2>4. CASE proc' = proc
    BY <1>5, <2>4
  <2> QED
    BY <2>2, <2>3, <2>4 DEF Kernel, KernelCount, Tick
<1> QED
  BY <1>1, <1>2, <1>3, <1>4, <1>5 DEF SnapshotTypeOK

\* What a read takes is of the connection that has the cid now.
LEMMA ReadEffect ==
    ASSUME SnapshotTypeOK, TakeRead, UNCHANGED kernel
    PROVE  /\ SnapshotTypeOK' /\ pc = "opened" /\ pc' = "read" /\ cur' = cur
           /\ cur \in Snap /\ snap[cur] # NoSnap /\ snap'[cur] # NoSnap
           /\ proc[snap[cur].cid] \in Conn
           /\ snap'[cur].of = proc[snap[cur].cid] /\ snap'[cur].at = count[proc[snap[cur].cid]]
           /\ ~snap'[cur].good
           /\ snap'[cur].cid = snap[cur].cid /\ snap'[cur].spec = snap[cur].spec
           /\ snap'[cur].tv = snap[cur].tv
           /\ \A s \in Snap : s # cur => snap'[s] = snap[s]
<1> DEFINE k == proc[snap[cur].cid]
           r == [snap[cur] EXCEPT !.data = Reading(k), !.of = k, !.at = count[k], !.good = FALSE]
<1>1. /\ pc = "opened" /\ k # NoConn /\ pc' = "read" /\ cur' = cur
      /\ UNCHANGED <<proc, ended, count, clock>>
  BY DEF TakeRead, kernel
<1>2. /\ cur \in Snap /\ snap[cur] # NoSnap /\ snap[cur] \in SnapType
  BY <1>1, SnapFacts DEF SnapshotTypeOK
<1>3. k \in Conn
  BY <1>1, <1>2, SnapFacts DEF SnapshotTypeOK
<1>4. snap' = [snap EXCEPT ![cur] = r]
  BY <1>2 DEF TakeRead, SnapType
<1>5. /\ r \in SnapType /\ r.of = k /\ r.at = count[k] /\ r.good = FALSE
      /\ r.cid = snap[cur].cid /\ r.spec = snap[cur].spec /\ r.tv = snap[cur].tv
  <2>1. Reading(k) \in [Var -> 0..(Modulus - 1)] /\ count[k] \in [Var -> Nat]
    BY <1>3, ReadingFacts
  <2> HIDE DEF k
  <2> QED
    BY <1>2, <1>3, <2>1 DEF SnapType
<1> HIDE DEF r, k
<1>6. snap'[cur] = r /\ \A s \in Snap : s # cur => snap'[s] = snap[s]
  BY <1>2, <1>4 DEF SnapshotTypeOK
<1>7. snap' \in [Snap -> SnapType \cup {NoSnap}] /\ r # NoSnap
  BY <1>2, <1>4, <1>5, Constants DEF SnapshotTypeOK
<1>8. SnapshotTypeOK'
  BY <1>1, <1>2, <1>6, <1>7 DEF SnapshotTypeOK
<1> QED
  BY <1>1, <1>2, <1>3, <1>5, <1>6, <1>7, <1>8 DEF k

\* A read that comes up short changes at most the data, which are then of no take.
LEMMA ShortEffect ==
    ASSUME SnapshotTypeOK, TakeShort, UNCHANGED kernel
    PROVE  /\ SnapshotTypeOK' /\ pc = "opened" /\ pc' = "idle" /\ cur' = cur
           /\ cur \in Snap /\ snap[cur] # NoSnap /\ snap'[cur] # NoSnap
           /\ snap'[cur].of = snap[cur].of /\ snap'[cur].at = snap[cur].at
           /\ snap'[cur].good => snap[cur].good
           /\ snap'[cur].cid = snap[cur].cid /\ snap'[cur].spec = snap[cur].spec
           /\ snap'[cur].tv = snap[cur].tv
           /\ \A s \in Snap : s # cur => snap'[s] = snap[s]
<1> DEFINE k == proc[snap[cur].cid]
<1>1. pc = "opened" /\ pc' = "idle" /\ cur' = cur /\ UNCHANGED <<proc, ended, count, clock>>
  BY DEF TakeShort, kernel
<1>2. cur \in Snap /\ snap[cur] # NoSnap /\ snap[cur] \in SnapType
  BY <1>1, SnapFacts DEF SnapshotTypeOK
<1>3. PICK n \in 0..(Vars - 1) :
          /\ n > 0 => k # NoConn
          /\ snap' = [snap EXCEPT
                 ![cur].data = [v \in Var |-> IF v <= n THEN Reading(k)[v] ELSE @[v]],
                 ![cur].good = @ /\ n = 0]
  BY DEF TakeShort
<1> DEFINE d == [v \in Var |-> IF v <= n THEN Reading(k)[v] ELSE snap[cur].data[v]]
           r == [snap[cur] EXCEPT !.data = d, !.good = @ /\ n = 0]
<1>4. snap' = [snap EXCEPT ![cur] = r]
  BY <1>2, <1>3 DEF SnapType
<1>5. d \in [Var -> 0..(Modulus - 1)]
  <2>1. k \in Conn \cup {NoConn} /\ snap[cur].data \in [Var -> 0..(Modulus - 1)]
    BY <1>2, SnapFacts DEF SnapshotTypeOK
  <2>2. CASE n > 0
    <3>1. Reading(k) \in [Var -> 0..(Modulus - 1)]
      BY <1>3, <2>1, <2>2, ReadingFacts
    <3> HIDE DEF k
    <3> QED
      BY <2>1, <3>1
  <2>3. CASE ~(n > 0)
    <3>1. \A v \in Var : ~(v <= n)
      BY <2>3 DEF Var
    <3> HIDE DEF k
    <3> QED
      BY <2>1, <3>1
  <2> QED
    BY <2>2, <2>3
<1> HIDE DEF d, k
<1>6. /\ r \in SnapType /\ r.of = snap[cur].of /\ r.at = snap[cur].at
      /\ r.good => snap[cur].good
      /\ r.cid = snap[cur].cid /\ r.spec = snap[cur].spec /\ r.tv = snap[cur].tv
  <2>1. (snap[cur].good /\ n = 0) \in BOOLEAN
    OBVIOUS
  <2> QED
    BY <1>2, <1>5, <2>1 DEF SnapType
<1> HIDE DEF r
<1>7. snap'[cur] = r /\ \A s \in Snap : s # cur => snap'[s] = snap[s]
  BY <1>2, <1>4 DEF SnapshotTypeOK
<1>8. snap' \in [Snap -> SnapType \cup {NoSnap}] /\ r # NoSnap
  BY <1>2, <1>4, <1>6, Constants DEF SnapshotTypeOK
<1>9. SnapshotTypeOK'
  BY <1>1, <1>2, <1>7, <1>8 DEF SnapshotTypeOK
<1> QED
  BY <1>1, <1>2, <1>6, <1>7, <1>8, <1>9

\* The take gets its time.
LEMMA StampEffect ==
    ASSUME SnapshotTypeOK, TakeStamp, UNCHANGED kernel
    PROVE  /\ SnapshotTypeOK' /\ pc = "read" /\ pc' = "idle" /\ cur' = cur
           /\ cur \in Snap /\ snap[cur] # NoSnap /\ snap'[cur] # NoSnap
           /\ snap'[cur].of = snap[cur].of /\ snap'[cur].at = snap[cur].at
           /\ snap'[cur].good /\ snap'[cur].tv = clock /\ clock \in Nat
           /\ snap'[cur].cid = snap[cur].cid /\ snap'[cur].spec = snap[cur].spec
           /\ snap'[cur].data = snap[cur].data
           /\ \A s \in Snap : s # cur => snap'[s] = snap[s]
<1> DEFINE r == [snap[cur] EXCEPT !.tv = clock, !.good = TRUE]
<1>1. /\ pc = "read" /\ pc' = "idle" /\ cur' = cur
      /\ snap' = [snap EXCEPT ![cur].tv = clock, ![cur].good = TRUE]
      /\ UNCHANGED <<proc, ended, count, clock>>
  BY DEF TakeStamp, kernel
<1>2. /\ cur \in Snap /\ snap[cur] # NoSnap /\ snap[cur] \in SnapType
      /\ clock \in 0..ClockMax /\ clock \in Nat
  BY <1>1, SnapFacts, Constants DEF SnapshotTypeOK
<1>3. snap' = [snap EXCEPT ![cur] = r]
  BY <1>1, <1>2 DEF SnapType
<1>4. /\ r \in SnapType /\ r.of = snap[cur].of /\ r.at = snap[cur].at /\ r.good = TRUE
      /\ r.tv = clock /\ r.data = snap[cur].data
      /\ r.cid = snap[cur].cid /\ r.spec = snap[cur].spec
  BY <1>2 DEF SnapType
<1> HIDE DEF r
<1>5. snap'[cur] = r /\ \A s \in Snap : s # cur => snap'[s] = snap[s]
  BY <1>2, <1>3 DEF SnapshotTypeOK
<1>6. snap' \in [Snap -> SnapType \cup {NoSnap}] /\ r # NoSnap
  BY <1>2, <1>3, <1>4, Constants DEF SnapshotTypeOK
<1>7. SnapshotTypeOK'
  BY <1>1, <1>2, <1>5, <1>6 DEF SnapshotTypeOK
<1> QED
  BY <1>1, <1>2, <1>4, <1>5, <1>6, <1>7

\* The connection a snapshot was made for has the cid, or is gone; and so has or is the
\* one that was read.
Owner(s) ==
    /\ snap[s].spec = proc[snap[s].cid] \/ snap[s].spec \in ended
    /\ snap[s].of # NoConn /\ snap[s].of # snap[s].spec => snap[s].spec \in ended
    /\ snap[s].good \/ (pc = "read" /\ cur = s) => snap[s].of # NoConn

Owned == \A s \in Snap : snap[s] # NoSnap => Owner(s)

LEMMA KernelOwned == SnapshotTypeOK /\ Owned /\ Kernel => Owned'
<1> SUFFICES ASSUME SnapshotTypeOK, Owned, Kernel, NEW s \in Snap, snap'[s] # NoSnap
             PROVE  Owner(s)'
  BY DEF Owned
<1>1. UNCHANGED <<snap, pc, cur>> /\ Owner(s) /\ snap[s].spec \in Conn /\ snap[s].cid \in Cid
  BY KernelEffect, SnapFacts DEF Owned
<1> QED
  BY <1>1, KernelEffect DEF Owner

LEMMA TakeOwned ==
    SnapshotTypeOK /\ Owned /\ (TakeRead \/ TakeShort \/ TakeStamp) /\ UNCHANGED kernel => Owned'
<1> SUFFICES ASSUME SnapshotTypeOK, Owned, TakeRead \/ TakeShort \/ TakeStamp, UNCHANGED kernel,
                    NEW s \in Snap, snap'[s] # NoSnap
             PROVE  Owner(s)'
  BY DEF Owned
<1>1. UNCHANGED <<proc, ended>> /\ cur' = cur /\ cur \in Snap /\ snap[cur] # NoSnap
  BY ReadEffect, ShortEffect, StampEffect DEF kernel
<1>2. CASE s # cur
  <2>1. snap'[s] = snap[s] /\ Owner(s)
    BY <1>2, ReadEffect, ShortEffect, StampEffect DEF Owned
  <2> QED
    BY <1>1, <1>2, <2>1 DEF Owner
<1>3. CASE s = cur
  <2>1. Owner(cur) /\ snap'[cur].cid = snap[cur].cid /\ snap'[cur].spec = snap[cur].spec
    BY <1>1, ReadEffect, ShortEffect, StampEffect DEF Owned
  <2>2. CASE TakeRead
    BY <1>1, <1>3, <2>1, <2>2, ReadEffect, Constants DEF Owner
  <2>3. CASE TakeShort \/ TakeStamp
    BY <1>1, <1>3, <2>1, <2>3, ShortEffect, StampEffect DEF Owner
  <2> QED
    BY <2>2, <2>3
<1> QED
  BY <1>2, <1>3

-----------------------------------------------------------------------------
(* deltavar *)

Working == dpc \in {"first", "second", "round"}

\* Outside its three phases the program is not in a take; in them it has both snapshots.
Phases ==
    /\ Working => \A s \in Structs : snap[s] # NoSnap
    /\ ~Working => pc = "idle"
    /\ dpc = "begin" => \A s \in Snap : snap[s] = NoSnap

\* A snapshot is not ahead of its connection or of the clock.
NotAhead(s) ==
    /\ snap[s].of # NoConn => \A v \in Var : snap[s].at[v] <= count[snap[s].of][v]
    /\ snap[s].good => snap[s].tv <= clock
    /\ pc = "read" /\ cur = s => ~snap[s].good

\* What has been read and not yet stamped is later than all the others.
ReadIsLatest ==
    pc = "read" => \A s \in Snap :
        snap[s] # NoSnap /\ snap[s].good /\ snap[s].of = snap[cur].of =>
            \A v \in Var : snap[s].at[v] <= snap[cur].at[v]

\* The differences so far lead to the snapshot that the next one is taken from.
Sums ==
    /\ dpc \in {"begin", "first", "second"} => sum = 0
    /\ dpc = "second" /\ pc # "idle" => cur = new
    /\ dpc = "round" /\ pc # "idle" => cur = new
    /\ dpc = "round" =>
          (base + sum) % Modulus = snap[IF pc = "idle" THEN new ELSE old].data[MyVar]

DInv ==
    /\ DeltaTypeOK /\ Phases /\ Owned /\ ReadIsLatest /\ Chronology /\ Sums
    /\ \A s \in Snap : snap[s] # NoSnap => NotAhead(s)

LEMMA Arguments == MyCid \in Cid /\ MyVar \in Var /\ Structs \subseteq Snap /\ First # Second
BY DeltaVarAssumption DEF DeltaVarAssumption

LEMMA InitKeeps == DeltaInit => DInv
<1> SUFFICES ASSUME DeltaInit
             PROVE  DInv
  OBVIOUS
<1>1. DeltaTypeOK
  BY Constants, Arguments, SnapshotAssumption
     DEF DeltaInit, SnapshotInit, DeltaTypeOK, SnapshotTypeOK, Zero, SnapshotAssumption, Structs
<1>2. \A s \in Snap : snap[s] = NoSnap
  BY DEF DeltaInit, SnapshotInit
<1> QED
  BY <1>1, <1>2 DEF DeltaInit, SnapshotInit, DInv, Owned, Phases, Working, ReadIsLatest, Chronology,
     Taken, Sums

\* What the kernel does takes nothing away from what is known of the snapshots.
LEMMA KernelKeeps == DInv /\ Kernel /\ UNCHANGED <<dpc, programVars>> => DInv'
<1> SUFFICES ASSUME DInv, Kernel, UNCHANGED <<dpc, programVars>>
             PROVE  DInv'
  OBVIOUS
<1>1. SnapshotTypeOK /\ Owned /\ UNCHANGED <<dpc, old, new, shown, sum, base>>
  BY DEF programVars, DInv, DeltaTypeOK
<1>2. /\ SnapshotTypeOK' /\ UNCHANGED <<snap, pc, cur>> /\ clock <= clock'
      /\ \A k \in Conn, v \in Var : count[k][v] <= count'[k][v]
  BY <1>1, KernelEffect
<1>3. DeltaTypeOK' /\ Owned'
  BY <1>1, <1>2, KernelOwned DEF DInv, DeltaTypeOK
<1>4. Phases' /\ ReadIsLatest' /\ Chronology' /\ Sums'
  BY <1>1, <1>2 DEF DInv, Phases, Working, ReadIsLatest, Chronology, Taken, Sums
<1>5. ASSUME NEW s \in Snap, snap'[s] # NoSnap
      PROVE  NotAhead(s)'
  <2>1. NotAhead(s) /\ snap[s] # NoSnap
    BY <1>2, <1>5 DEF DInv
  <2>2. snap[s].of \in Conn \cup {NoConn} /\ snap[s].tv \in Nat /\ snap[s].at \in [Var -> Nat]
    BY <1>1, <2>1, SnapFacts
  <2>3. ASSUME snap[s].of # NoConn, NEW v \in Var
        PROVE  snap[s].at[v] <= count'[snap[s].of][v]
    <3>1. /\ snap[s].at[v] <= count[snap[s].of][v] /\ snap[s].of \in Conn
          /\ count[snap[s].of][v] <= count'[snap[s].of][v]
      BY <1>2, <2>1, <2>2, <2>3 DEF NotAhead
    <3>2. snap[s].at[v] \in Nat /\ count[snap[s].of][v] \in Nat /\ count'[snap[s].of][v] \in Nat
      BY <1>1, <1>2, <2>2, <3>1 DEF SnapshotTypeOK
    <3> QED
      BY <3>1, <3>2
  <2>4. snap[s].good => snap[s].tv <= clock'
    <3>1. clock \in Nat /\ clock' \in Nat
      BY <1>1, <1>2, Constants DEF SnapshotTypeOK
    <3> QED
      BY <1>2, <2>1, <2>2, <3>1 DEF NotAhead
  <2> QED
    BY <1>2, <2>1, <2>3, <2>4 DEF NotAhead
<1> QED
  BY <1>3, <1>4, <1>5 DEF DInv

\* Both snapshots are made for the connection that the cid has.
LEMMA BeginKeeps == DInv /\ Begin => DInv'
<1> SUFFICES ASSUME DInv, Begin
             PROVE  DInv'
  OBVIOUS
<1>1. PICK t \in [Snap -> 0..ClockMax] :
          snap' = [s \in Snap |-> IF s \in Structs THEN Allocated(MyCid, proc[MyCid], t[s]) ELSE NoSnap]
  BY DEF Begin
<1>2. /\ dpc = "begin" /\ dpc' = "first" /\ pc = "idle" /\ proc[MyCid] \in Conn
      /\ UNCHANGED <<proc, ended, count, clock, pc, cur, old, new, shown, sum, base>>
  BY Constants, Arguments
     DEF Begin, kernel, programVars, DInv, Phases, Working, DeltaTypeOK, SnapshotTypeOK
<1>3. ASSUME NEW s \in Structs
      PROVE  /\ snap'[s] \in SnapType /\ snap'[s].cid = MyCid /\ snap'[s].spec = proc[MyCid]
             /\ snap'[s].of = NoConn /\ ~snap'[s].good
  <2>1. snap'[s] = Allocated(MyCid, proc[MyCid], t[s]) /\ t[s] \in 0..ClockMax
    BY <1>1, Arguments
  <2>2. Zero \in [Var -> 0..(Modulus - 1)] /\ Zero \in [Var -> Nat]
    BY Constants DEF Zero
  <2> QED
    BY <1>2, <2>1, <2>2, Constants, Arguments DEF Allocated, SnapType
<1>4. /\ \A s \in Structs : snap'[s] # NoSnap
      /\ \A s \in Snap : s \notin Structs => snap'[s] = NoSnap
  BY <1>1, <1>3, Constants
<1>5. DeltaTypeOK'
  <2>1. snap' \in [Snap -> SnapType \cup {NoSnap}]
    BY <1>1, <1>3, <1>4
  <2> QED
    BY <1>2, <2>1 DEF DInv, DeltaTypeOK, SnapshotTypeOK
<1>6. Phases' /\ ReadIsLatest' /\ Chronology' /\ Sums'
  BY <1>2, <1>3, <1>4 DEF DInv, Phases, Working, ReadIsLatest, Chronology, Taken, Sums
<1>7. \A s \in Snap : snap'[s] # NoSnap => Owner(s)' /\ NotAhead(s)'
  BY <1>2, <1>3, <1>4 DEF Owner, NotAhead
<1> QED
  BY <1>5, <1>6, <1>7 DEF DInv, Owned

\* A take of s begins.
LEMMA OpenKeeps ==
    ASSUME DInv, NEW s \in Snap, TakeOpen(s), {old', new'} = Structs,
           dpc = "second" => s = new', dpc = "round" => s = new' /\ old' = new,
           UNCHANGED <<kernel, dpc, shown, sum, base>>, Working
    PROVE  DInv'
<1>1. /\ pc = "idle" /\ pc' = "opened" /\ cur' = s /\ snap[s] # NoSnap
      /\ UNCHANGED <<snap, proc, ended, count, clock, dpc, shown, sum, base>>
  BY DEF TakeOpen, kernel
<1>2. DeltaTypeOK'
  BY <1>1 DEF DInv, DeltaTypeOK, SnapshotTypeOK
<1>3. Phases' /\ ReadIsLatest' /\ Chronology'
  BY <1>1 DEF DInv, Phases, Working, ReadIsLatest, Chronology, Taken
<1>4. Sums'
  BY <1>1 DEF DInv, Sums, Working
<1>5. \A t \in Snap : snap'[t] # NoSnap => Owner(t)' /\ NotAhead(t)'
  BY <1>1 DEF DInv, Owned, Owner, NotAhead
<1> QED
  BY <1>2, <1>3, <1>4, <1>5 DEF DInv, Owned

LEMMA OpenNextKeeps == DInv /\ OpenNext => DInv'
<1> SUFFICES ASSUME DInv, OpenNext
             PROVE  DInv'
  OBVIOUS
<1>1. {old, new} = Structs /\ old \in Snap /\ new \in Snap
  BY Arguments DEF DInv, DeltaTypeOK
<1>2. UNCHANGED <<kernel, dpc, shown, sum, base>>
  BY DEF OpenNext
<1>3. CASE dpc = "first" /\ TakeOpen(old) /\ UNCHANGED <<old, new>>
  BY <1>1, <1>2, <1>3, OpenKeeps DEF Working
<1>4. CASE dpc = "second" /\ TakeOpen(new) /\ UNCHANGED <<old, new>>
  BY <1>1, <1>2, <1>4, OpenKeeps DEF Working
<1>5. CASE dpc = "round" /\ TakeOpen(old) /\ old' = new /\ new' = old
  <2>1. {old', new'} = Structs /\ old = new'
    BY <1>1, <1>5
  <2> QED
    BY <1>1, <1>2, <1>5, <2>1, OpenKeeps DEF Working
<1> QED
  BY <1>3, <1>4, <1>5 DEF OpenNext

\* The program gives up; the snapshots stay.
LEMMA NextRefusedKeeps == DInv /\ NextRefused => DInv'
<1> SUFFICES ASSUME DInv, NextRefused
             PROVE  DInv'
  OBVIOUS
<1>1. /\ pc = "idle" /\ dpc' = "cleanup"
      /\ UNCHANGED <<snap, pc, cur, proc, ended, count, clock, old, new, shown, sum, base>>
  BY DEF NextRefused, TakeRefused, takeVars, kernel, programVars
<1> QED
  BY <1>1 DEF DInv, DeltaTypeOK, SnapshotTypeOK, Phases, Working, ReadIsLatest, Chronology, Taken,
              Sums, Owned, Owner, NotAhead

LEMMA BeginFailsKeeps == DInv /\ BeginFails => DInv'
<1> SUFFICES ASSUME DInv, BeginFails
             PROVE  DInv'
  OBVIOUS
<1>1. /\ dpc = "begin" /\ dpc' = "cleanup"
      /\ UNCHANGED <<snap, pc, cur, proc, ended, count, clock, old, new, shown, sum, base>>
  BY DEF BeginFails, takeVars, kernel, programVars
<1> QED
  BY <1>1 DEF DInv, DeltaTypeOK, SnapshotTypeOK, Phases, Working, ReadIsLatest, Chronology, Taken,
              Sums, Owned, Owner, NotAhead

\* What is read is not behind anything read before.
LEMMA ReadKeeps == DInv /\ ReadGroup => DInv'
<1> SUFFICES ASSUME DInv, ReadGroup
             PROVE  DInv'
  OBVIOUS
<1> DEFINE k == proc[snap[cur].cid]
<1>1. /\ TakeRead /\ SnapshotTypeOK /\ UNCHANGED kernel
      /\ UNCHANGED <<proc, ended, count, clock, dpc, old, new, shown, sum, base>>
  BY DEF ReadGroup, kernel, programVars, DInv, DeltaTypeOK
<1>2. /\ SnapshotTypeOK' /\ pc = "opened" /\ pc' = "read" /\ cur' = cur
      /\ cur \in Snap /\ snap[cur] # NoSnap /\ snap'[cur] # NoSnap /\ k \in Conn
      /\ snap'[cur].of = k /\ snap'[cur].at = count[k] /\ ~snap'[cur].good
      /\ \A s \in Snap : s # cur => snap'[s] = snap[s]
  BY <1>1, ReadEffect
<1> HIDE DEF k
<1>3. DeltaTypeOK' /\ Owned'
  BY <1>1, <1>2, TakeOwned DEF DInv, DeltaTypeOK
<1>4. Phases'
  <2>1. Working
    BY <1>2 DEF DInv, Phases
  <2> QED
    BY <1>1, <1>2, <2>1, Arguments DEF DInv, Phases, Working
<1>5. ReadIsLatest'
  <2> SUFFICES ASSUME NEW s \in Snap, snap'[s] # NoSnap, snap'[s].good,
                      snap'[s].of = snap'[cur].of, NEW v \in Var
               PROVE  snap'[s].at[v] <= snap'[cur].at[v]
    BY <1>2 DEF ReadIsLatest
  <2>1. s # cur /\ snap'[s] = snap[s]
    BY <1>2
  <2>2. NotAhead(s) /\ snap[s].of = k
    BY <1>2, <2>1 DEF DInv
  <2> QED
    BY <1>2, <2>1, <2>2, Constants DEF NotAhead
<1>6. Chronology'
  <2>1. \A s \in Taken' : s # cur /\ s \in Taken /\ snap'[s] = snap[s]
    BY <1>2 DEF Taken
  <2> QED
    BY <2>1 DEF DInv, Chronology
<1>7. Sums'
  <2>1. old # new /\ old \in Snap
    <3>1. {old, new} = {First, Second}
      BY DEF DInv, DeltaTypeOK, Structs
    <3>2. First \in {old, new} /\ Second \in {old, new}
      BY <3>1
    <3> QED
      BY <3>1, <3>2, Arguments DEF Structs
  <2>2. dpc = "round" => cur = new
    BY <1>2 DEF DInv, Sums
  <2> QED
    BY <1>1, <1>2, <2>1, <2>2 DEF DInv, Sums
<1>8. ASSUME NEW s \in Snap, snap'[s] # NoSnap
      PROVE  NotAhead(s)'
  <2>1. CASE s = cur
    <3>1. \A v \in Var : count[k][v] <= count[k][v]
      BY <1>1, <1>2, ReadingFacts
    <3> QED
      BY <1>1, <1>2, <2>1, <3>1 DEF NotAhead
  <2>2. CASE s # cur
    <3>1. NotAhead(s) /\ snap'[s] = snap[s]
      BY <1>2, <1>8, <2>2 DEF DInv
    <3> QED
      BY <1>1, <1>2, <2>2, <3>1 DEF NotAhead
  <2> QED
    BY <2>1, <2>2
<1> QED
  BY <1>3, <1>4, <1>5, <1>6, <1>7, <1>8 DEF DInv

\* A read that comes up short ends the program.
LEMMA ReadFailsKeeps == DInv /\ ReadFails => DInv'
<1> SUFFICES ASSUME DInv, ReadFails
             PROVE  DInv'
  OBVIOUS
<1>1. /\ TakeShort /\ SnapshotTypeOK /\ dpc' = "cleanup" /\ UNCHANGED kernel
      /\ UNCHANGED <<proc, ended, count, clock, old, new, shown, sum, base>>
  BY DEF ReadFails, kernel, programVars, DInv, DeltaTypeOK
<1>2. /\ SnapshotTypeOK' /\ pc' = "idle" /\ cur' = cur
      /\ cur \in Snap /\ snap[cur] # NoSnap /\ snap'[cur] # NoSnap
      /\ \A s \in Snap : s # cur => snap'[s] = snap[s]
      /\ snap'[cur].of = snap[cur].of /\ snap'[cur].at = snap[cur].at
      /\ snap'[cur].good => snap[cur].good
      /\ snap'[cur].tv = snap[cur].tv
  BY <1>1, ShortEffect
<1>3. DeltaTypeOK' /\ Owned'
  BY <1>1, <1>2, TakeOwned DEF DInv, DeltaTypeOK
<1>4. Phases' /\ ReadIsLatest' /\ Sums'
  BY <1>1, <1>2 DEF DInv, Phases, Working, ReadIsLatest, Sums
<1>5. Chronology'
  <2>1. \A s \in Taken' : s \in Taken /\ snap'[s].of = snap[s].of /\ snap'[s].tv = snap[s].tv
                             /\ snap'[s].at = snap[s].at
    BY <1>2 DEF Taken
  <2> QED
    BY <2>1 DEF DInv, Chronology
<1>6. ASSUME NEW s \in Snap, snap'[s] # NoSnap
      PROVE  NotAhead(s)'
  <2>1. /\ snap[s] # NoSnap /\ snap'[s].of = snap[s].of /\ snap'[s].tv = snap[s].tv
        /\ snap'[s].at = snap[s].at /\ (snap'[s].good => snap[s].good)
    BY <1>2, <1>6
  <2>2. NotAhead(s)
    BY <2>1 DEF DInv
  <2> QED
    BY <1>1, <1>2, <2>1, <2>2 DEF NotAhead
<1> QED
  BY <1>3, <1>4, <1>5, <1>6 DEF DInv

\* The take gets its time.  The program then begins to sum, or adds a difference, or ends.
LEMMA StampKeeps == DInv /\ Stamp => DInv'
<1> SUFFICES ASSUME DInv, Stamp
             PROVE  DInv'
  OBVIOUS
<1>1. /\ TakeStamp /\ SnapshotTypeOK /\ UNCHANGED kernel
      /\ UNCHANGED <<proc, ended, count, clock>>
      /\ Taken1 \/ Taken2 \/ Printed \/ Unprintable
  BY DEF Stamp, kernel, DInv, DeltaTypeOK
<1>2. /\ SnapshotTypeOK' /\ pc = "read" /\ pc' = "idle" /\ cur' = cur
      /\ cur \in Snap /\ snap[cur] # NoSnap /\ snap'[cur] # NoSnap
      /\ snap'[cur].of = snap[cur].of /\ snap'[cur].at = snap[cur].at
      /\ snap'[cur].good /\ snap'[cur].tv = clock /\ clock \in Nat
      /\ snap'[cur].data = snap[cur].data
      /\ \A s \in Snap : s # cur => snap'[s] = snap[s]
  BY <1>1, StampEffect
<1>3. Working
  BY <1>2 DEF DInv, Phases
<1>7. \A s \in Snap : snap'[s].data = snap[s].data
  BY <1>2
<1>8. /\ old \in Snap /\ new \in Snap /\ snap[old] # NoSnap /\ snap[new] # NoSnap
      /\ snap[old].data[MyVar] \in 0..(Modulus - 1)
      /\ snap[new].data[MyVar] \in 0..(Modulus - 1)
      /\ sum \in 0..(Modulus - 1) /\ base \in 0..(Modulus - 1)
  <2>1. old \in Structs /\ new \in Structs /\ old \in Snap /\ new \in Snap
    BY Arguments DEF DInv, DeltaTypeOK
  <2>2. snap[old] # NoSnap /\ snap[new] # NoSnap
    BY <1>3, <2>1 DEF DInv, Phases
  <2>3. /\ snap[old].data \in [Var -> 0..(Modulus - 1)]
        /\ snap[new].data \in [Var -> 0..(Modulus - 1)]
    BY <1>1, <2>1, <2>2, SnapFacts
  <2> QED
    BY <2>1, <2>2, <2>3, Arguments DEF DInv, DeltaTypeOK
<1>9. /\ dpc' \in {"second", "round", "cleanup"} /\ {old', new'} = Structs
      /\ shown' \in 0..(Modulus - 1) /\ sum' \in 0..(Modulus - 1) /\ base' \in 0..(Modulus - 1)
  <2>1. CASE Taken1 \/ Taken2 \/ Unprintable
    BY <1>8, <2>1 DEF Taken1, Taken2, Unprintable, programVars, DInv, DeltaTypeOK
  <2>2. CASE Printed
    <3> DEFINE d == Delta(snap'[new], snap'[old], MyVar)
    <3>1. snap[new].data[MyVar] + Modulus - snap[old].data[MyVar] \in Int
      BY <1>8, Constants
    <3>2. Delta(snap[new], snap[old], MyVar) \in 0..(Modulus - 1)
      BY <3>1, Constants, ModBounds DEF Delta
    <3>3. sum + Delta(snap[new], snap[old], MyVar) \in Int
      BY <1>8, <3>2
    <3>4. sum' \in 0..(Modulus - 1)
      BY <2>2, <3>3, Constants, ModBounds DEF Printed
    <3> QED
      BY <2>2, <3>4 DEF Printed, DInv, DeltaTypeOK
  <2> QED
    BY <1>1, <2>1, <2>2
<1>10. DeltaTypeOK' /\ Owned'
  BY <1>1, <1>2, <1>9, TakeOwned DEF DInv, DeltaTypeOK
<1>11. Phases'
  BY <1>1, <1>2, <1>3, <1>8, <1>9, Arguments DEF DInv, Phases, Working
<1>12. ReadIsLatest'
  BY <1>2 DEF ReadIsLatest
<1>13. Chronology'
  <2> SUFFICES ASSUME NEW s \in Snap, snap'[s] # NoSnap, snap'[s].good,
                      NEW t \in Snap, snap'[t] # NoSnap, snap'[t].good,
                      snap'[s].of = snap'[t].of, snap'[s].tv < snap'[t].tv, NEW v \in Var
               PROVE  snap'[s].at[v] <= snap'[t].at[v]
    BY DEF Chronology, Taken
  <2>1. CASE s # cur /\ t # cur
    <3>1. snap'[s] = snap[s] /\ snap'[t] = snap[t]
      BY <1>2, <2>1
    <3> QED
      BY <3>1 DEF DInv, Chronology, Taken
  <2>2. CASE s = cur /\ t # cur
    <3>1. snap[t].tv <= clock /\ snap'[t] = snap[t] /\ snap[t].tv \in Nat /\ snap'[s].tv = clock
      BY <1>1, <1>2, <2>2, SnapFacts DEF DInv, NotAhead
    <3> QED
      BY <1>2, <3>1
  <2>3. CASE s # cur /\ t = cur
    <3>1. snap'[s] = snap[s] /\ snap'[t].of = snap[cur].of /\ snap'[t].at = snap[cur].at
      BY <1>2, <2>3
    <3> QED
      BY <1>2, <3>1 DEF DInv, ReadIsLatest
  <2>4. CASE s = cur /\ t = cur
    <3>1. clock < clock
      BY <1>2, <2>4
    <3> QED
      BY <1>2, <3>1
  <2> QED
    BY <2>1, <2>2, <2>3, <2>4
<1>14. Sums'
  <2>1. CASE Taken1
    BY <1>2, <2>1 DEF Taken1, programVars, DInv, Sums
  <2>2. CASE Taken2
    <3>1. sum' = 0 /\ new' = new /\ base' = snap[new].data[MyVar] /\ dpc' = "round"
      BY <2>2 DEF Taken2, DInv, Sums
    <3>2. (base' + sum') % Modulus = base'
      BY <1>8, <3>1, Constants, ModSmall
    <3> QED
      BY <1>1, <1>2, <1>7, <1>8, <3>1, <3>2 DEF Sums
  <2>3. CASE Printed
    <3>1. /\ (base + sum) % Modulus = snap[old].data[MyVar]
          /\ sum' = (sum + Delta(snap[new], snap[old], MyVar)) % Modulus
          /\ dpc' = "round" /\ new' = new /\ base' = base
      BY <1>2, <2>3 DEF Printed, DInv, Sums
    <3>2. (base' + sum') % Modulus = snap[new].data[MyVar]
      BY <1>8, <3>1, Constants, DifferenceLeads DEF Delta
    <3> QED
      BY <1>1, <1>2, <1>7, <1>8, <3>1, <3>2 DEF Sums
  <2>4. CASE Unprintable
    BY <1>1, <2>4 DEF Unprintable, Sums
  <2> QED
    BY <1>1, <2>1, <2>2, <2>3, <2>4
<1>15. ASSUME NEW s \in Snap, snap'[s] # NoSnap
       PROVE  NotAhead(s)'
  <2>1. snap[s] # NoSnap
    BY <1>2, <1>15
  <2>2. NotAhead(s)
    BY <2>1 DEF DInv
  <2>3. CASE s = cur
    <3>1. clock <= clock
      BY <1>2
    <3> QED
      BY <1>1, <1>2, <2>2, <2>3, <3>1 DEF NotAhead
  <2>4. CASE s # cur
    <3>1. snap'[s] = snap[s]
      BY <1>2, <2>4
    <3> QED
      BY <1>1, <1>2, <2>2, <3>1 DEF NotAhead
  <2> QED
    BY <2>3, <2>4
<1> QED
  BY <1>10, <1>11, <1>12, <1>13, <1>14, <1>15 DEF DInv

LEMMA CleanupKeeps == DInv /\ Cleanup => DInv'
<1> SUFFICES ASSUME DInv, Cleanup
             PROVE  DInv'
  OBVIOUS
<1>1. /\ dpc = "cleanup" /\ dpc' = "end" /\ snap' = [s \in Snap |-> NoSnap] /\ pc = "idle"
      /\ UNCHANGED <<pc, cur, proc, ended, count, clock, old, new, shown, sum, base>>
  BY DEF Cleanup, FreeAll, kernel, programVars, DInv, Phases, Working
<1>2. \A s \in Snap : snap'[s] = NoSnap
  BY <1>1
<1> QED
  BY <1>1, <1>2 DEF DInv, DeltaTypeOK, SnapshotTypeOK, Phases, Working, ReadIsLatest, Chronology, Taken, Sums, Owned

LEMMA StutterKeeps == DInv /\ UNCHANGED deltaVars => DInv'
BY DEF DInv, DeltaTypeOK, SnapshotTypeOK, Phases, Working, ReadIsLatest, Chronology, Taken, Sums,
       Owned, Owner, NotAhead, deltaVars, kernel, takeVars, programVars

\* What deltavar and the kernel keep to between them.
THEOREM DeltaVarInvariant == DeltaSpec => []DInv
<1>1. DInv /\ [DeltaNext]_deltaVars => DInv'
  BY KernelKeeps, BeginKeeps, BeginFailsKeeps, OpenNextKeeps, NextRefusedKeeps, ReadKeeps,
     ReadFailsKeeps, StampKeeps, CleanupKeeps, StutterKeeps DEF DeltaNext, Program
<1> QED
  BY <1>1, InitKeeps, PTL DEF DeltaSpec

\* The variables of deltavar and of the snapshots have their types; in particular no take
\* is under way on a snapshot that is not there.
THEOREM DeltaVarTypeCorrect == DeltaSpec => []DeltaTypeOK
<1>1. DInv => DeltaTypeOK
  BY DEF DInv
<1> QED
  BY <1>1, DeltaVarInvariant, PTL

\* A snapshot that was taken (snapshot.c:77-109) has the values of the connection it was
\* made for, as long as that one lives.
THEOREM SnapshotIsOwn == DeltaSpec => []OwnWhileAlive
<1>1. DInv => OwnWhileAlive
  BY DEF DInv, Owned, Owner, OwnWhileAlive, Taken
<1> QED
  BY <1>1, DeltaVarInvariant, PTL

\* Of two snapshots of a connection the one with the later time has the later values.
THEOREM SnapshotsInOrder == DeltaSpec => []Chronology
<1>1. DInv => Chronology
  BY DEF DInv
<1> QED
  BY <1>1, DeltaVarInvariant, PTL

\* The differences that deltavar.c:57-66 prints add up, at every width of the values and
\* over any number of wraps and exchanges of the two snapshots.
THEOREM SumIsExact == DeltaSpec => []DifferencesAddUp
<1>1. DInv => DifferencesAddUp
  BY DEF DInv, Sums, DifferencesAddUp
<1> QED
  BY <1>1, DeltaVarInvariant, PTL
-----------------------------------------------------------------------------
(* Web10G *)

Walking == op \in {"all_connections", "connection_match"}
Matching == Walking \/ op = "compare"

WebTypeOK ==
    /\ SnapshotTypeOK
    /\ rec \in [Block -> Record \cup {Free}] /\ list \subseteq Block
    /\ ptr \in [Snap -> Block \cup {NoPtr}] /\ latest \subseteq Snap
    /\ op \in {"none", "all_connections", "connection_match", "compare", "readall", "dead"}
    /\ todo \subseteq list /\ conns \subseteq latest /\ match \subseteq latest
    /\ who \in conns \cup {NoSnap} /\ equal \in 0..(Attrs - 1)

\* A take is under way in readall only; what a call keeps of the objects it keeps until it
\* returns, and a walk has compared nothing yet.
Calls ==
    /\ pc = "idle" <=> op # "readall"
    /\ op \in {"none", "readall", "dead"} => conns = {}
    /\ op # "compare" => match = {} /\ who = NoSnap
    /\ ~Walking => todo = {}
    /\ who = NoSnap => equal = 0
    /\ op \notin {"none", "dead"} => got = NoRead

\* The connection of a record has the cid of the record, or is gone.
Records ==
    /\ \A b \in list : rec[b] # Free
    /\ \A b \in Block : rec[b] # Free => rec[b].spec = proc[rec[b].cid] \/ rec[b].spec \in ended

\* An object of the latest scan is for the connection of the record it points to.
LatestRecords ==
    \A o \in latest :
        /\ snap[o] # NoSnap /\ ptr[o] \in list
        /\ rec[ptr[o]] = [cid |-> snap[o].cid, spec |-> snap[o].spec]

Steady(c, k) == held[c] = {k}
For(o, c, k) == snap[o].cid = c /\ snap[o].spec = k
EqualSoFar(o) == \A a \in 1..equal : Is[snap[o].spec][a] = Asked[a]

\* A cid that kept its connection during the call is not lost on the way from the records
\* to the objects, and from those to the matches; and what has been compared for it was
\* its connection's.
Tracked ==
    /\ Matching => \A c \in Cid : proc[c] \in held[c]
    /\ Walking => \A c \in Cid, k \in Conn : Steady(c, k) =>
          \/ \E b \in todo : rec[b].cid = c /\ rec[b].spec = k
          \/ \E o \in conns : For(o, c, k)
    /\ op = "compare" => \A c \in Cid, k \in Conn : Steady(c, k) =>
          \/ \E o \in conns : For(o, c, k)
          \/ Fits(k) => \E o \in match : For(o, c, k)
    /\ \A o \in match : Steady(snap[o].cid, snap[o].spec) => Fits(snap[o].spec)
    /\ who # NoSnap /\ Steady(snap[who].cid, snap[who].spec) => EqualSoFar(who)

WInv ==
    /\ WebTypeOK /\ Owned /\ Calls /\ Records /\ LatestRecords /\ Tracked /\ ReadOwn

LEMMA WebConstants ==
    /\ NoPtr \notin Block /\ Free \notin Record /\ NoSnap \notin Snap
    /\ Attrs \in Nat \ {0} /\ 0 \in 0..(Attrs - 1)
BY Web10GAssumption DEF Web10GAssumption

\* A scan leaves a record for each of its cids, of the connection that has the cid.
LEMMA ScanEffect ==
    ASSUME WebTypeOK, NEW cids \in SUBSET Open, Scanned(cids)
    PROVE  /\ list' \subseteq Block /\ rec' \in [Block -> Record \cup {Free}]
           /\ \A b \in list' : rec'[b] # Free
           /\ \A b \in Block : rec'[b] # Free => rec'[b].spec = proc[rec'[b].cid]
           /\ \A c \in cids : \E b \in list' : rec'[b].cid = c /\ rec'[b].spec = proc[c]
<1>1. PICK f \in [cids -> Block] :
          /\ \A c, d \in cids : f[c] = f[d] => c = d
          /\ list' = {f[c] : c \in cids}
          /\ rec' = [b \in Block |-> IF b \notin list' THEN Free
                        ELSE LET c == CHOOSE c \in cids : f[c] = b
                             IN  [cid |-> c, spec |-> proc[c]]]
  BY DEF Scanned
<1>2. \A c \in cids : c \in Cid /\ proc[c] \in Conn /\ [cid |-> c, spec |-> proc[c]] \in Record
  BY DEF Open, Record, WebTypeOK, SnapshotTypeOK
<1>3. list' \subseteq Block
  BY <1>1
<1>4. ASSUME NEW c \in cids
      PROVE  f[c] \in list' /\ rec'[f[c]] = [cid |-> c, spec |-> proc[c]]
  <2>1. f[c] \in Block /\ f[c] \in list'
    BY <1>1
  <2>2. (CHOOSE d \in cids : f[d] = f[c]) = c
    BY <1>1
  <2> QED
    BY <1>1, <2>1, <2>2
<1>5. ASSUME NEW b \in list'
      PROVE  \E c \in cids : rec'[b] = [cid |-> c, spec |-> proc[c]]
  <2>1. PICK c \in cids : b = f[c]
    BY <1>1
  <2> QED
    BY <1>4, <2>1
<1>6. \A b \in Block : b \notin list' => rec'[b] = Free
  BY <1>1
<1>7. \A b \in Block : rec'[b] \in Record \cup {Free}
  BY <1>2, <1>5, <1>6
<1>8. rec' \in [Block -> Record \cup {Free}]
  BY <1>1, <1>7
<1>9. ASSUME NEW b \in list'
      PROVE  rec'[b] # Free /\ rec'[b].spec = proc[rec'[b].cid]
  <2>1. PICK c \in cids : rec'[b] = [cid |-> c, spec |-> proc[c]]
    BY <1>5
  <2> QED
    BY <1>2, <2>1, WebConstants
<1>10. \A b \in Block : rec'[b] # Free => rec'[b].spec = proc[rec'[b].cid]
  <2> SUFFICES ASSUME NEW b \in Block, rec'[b] # Free
               PROVE  rec'[b].spec = proc[rec'[b].cid]
    OBVIOUS
  <2>1. b \in list'
    BY <1>6
  <2> QED
    BY <1>9, <2>1
<1>11. \A c \in cids : \E b \in list' : rec'[b].cid = c /\ rec'[b].spec = proc[c]
  <2> SUFFICES ASSUME NEW c \in cids
               PROVE  \E b \in list' : rec'[b].cid = c /\ rec'[b].spec = proc[c]
    OBVIOUS
  <2>1. rec'[f[c]] = [cid |-> c, spec |-> proc[c]] /\ f[c] \in list'
    BY <1>4
  <2>2. rec'[f[c]].cid = c /\ rec'[f[c]].spec = proc[c]
    BY <2>1
  <2> QED
    BY <2>1, <2>2
<1> QED
  BY <1>3, <1>8, <1>9, <1>10, <1>11

\* What the invariant says of the snapshots alone, when they and the kernel stay.
LEMMA SnapshotsStay ==
    ASSUME SnapshotTypeOK, Owned, UNCHANGED <<kernel, takeVars>>
    PROVE  SnapshotTypeOK' /\ Owned' /\ UNCHANGED <<proc, ended, count, clock, snap, pc, cur>>
<1>1. UNCHANGED <<proc, ended, count, clock, snap, pc, cur>>
  BY DEF kernel, takeVars
<1>2. SnapshotTypeOK'
  BY <1>1 DEF SnapshotTypeOK
<1>3. Owned'
  BY <1>1 DEF Owned, Owner
<1> QED
  BY <1>1, <1>2, <1>3

LEMMA WebInitKeeps == WebInit => WInv
<1> SUFFICES ASSUME WebInit
             PROVE  WInv
  OBVIOUS
<1>1. SnapshotTypeOK
  BY Constants, SnapshotAssumption
     DEF WebInit, SnapshotInit, SnapshotTypeOK, Zero, SnapshotAssumption
<1>2. \A s \in Snap : snap[s] = NoSnap
  BY DEF WebInit, SnapshotInit
<1>3. WebTypeOK
  BY <1>1, WebConstants DEF WebInit, WebTypeOK
<1>4. Owned
  BY <1>2 DEF Owned
<1>5. Calls /\ Records /\ LatestRecords /\ Tracked
  BY WebConstants
     DEF WebInit, SnapshotInit, Calls, Records, LatestRecords, Tracked, Matching, Walking
<1>6. ReadOwn
  BY DEF WebInit, ReadOwn, NoRead
<1> QED
  BY <1>3, <1>4, <1>5, <1>6 DEF WInv

\* Connections come and go under a call.
LEMMA KernelStepKeeps == WInv /\ KernelStep => WInv'
<1> SUFFICES ASSUME WInv, KernelStep
             PROVE  WInv'
  OBVIOUS
<1>1. /\ Kernel /\ SnapshotTypeOK /\ Owned
      /\ UNCHANGED <<rec, list, ptr, latest, op, todo, conns, who, equal, match, got>>
      /\ held' = IF op = "none" THEN held ELSE [c \in Cid |-> held[c] \cup {proc'[c]}]
  BY DEF KernelStep, heap, matchVars, WInv, WebTypeOK
<1>2. /\ SnapshotTypeOK' /\ UNCHANGED <<snap, pc, cur>> /\ ended \subseteq ended'
      /\ \A c \in Cid, k \in Conn : proc[c] = k => proc'[c] = k \/ k \in ended'
  BY <1>1, KernelEffect
<1>3. WebTypeOK' /\ Owned' /\ Calls' /\ LatestRecords'
  <2>1. WebTypeOK'
    BY <1>1, <1>2 DEF WInv, WebTypeOK
  <2>2. Calls'
    BY <1>1, <1>2 DEF WInv, Calls, Walking
  <2>3. LatestRecords'
    BY <1>1, <1>2 DEF WInv, LatestRecords
  <2> QED
    BY <1>1, <2>1, <2>2, <2>3, KernelOwned
<1>4. Records'
  <2> SUFFICES ASSUME NEW b \in Block, rec[b] # Free
               PROVE  rec[b].spec = proc'[rec[b].cid] \/ rec[b].spec \in ended'
    BY <1>1 DEF WInv, Records
  <2>1. rec[b] \in Record
    BY DEF WInv, WebTypeOK
  <2>2. rec[b].cid \in Cid /\ rec[b].spec \in Conn
    BY <2>1 DEF Record
  <2> QED
    BY <1>2, <2>2 DEF WInv, Records
<1>5. \A c \in Cid, k \in Conn : Matching /\ Steady(c, k)' => Steady(c, k)
  <2> SUFFICES ASSUME NEW c \in Cid, NEW k \in Conn, Matching, held'[c] = {k}
               PROVE  held[c] = {k}
    BY DEF Steady
  <2>1. proc[c] \in held[c] /\ op # "none"
    BY DEF WInv, Tracked, Matching, Walking
  <2>2. held'[c] = held[c] \cup {proc'[c]}
    BY <1>1, <2>1
  <2> QED
    BY <2>1, <2>2
<1>6. Matching' => Matching
  BY <1>1 DEF Matching, Walking
<1>7. Tracked'
  <2>1. Matching' => \A c \in Cid : proc'[c] \in held'[c]
    <3>1. Matching => op # "none"
      BY DEF Matching, Walking
    <3> QED
      BY <1>1, <1>6, <3>1
  <2>2. (Walking => \A c \in Cid, k \in Conn : Steady(c, k) =>
            \/ \E b \in todo : rec[b].cid = c /\ rec[b].spec = k
            \/ \E o \in conns : For(o, c, k))'
    BY <1>1, <1>2, <1>5 DEF WInv, Tracked, Walking, Matching, For
  <2>3. (op = "compare" => \A c \in Cid, k \in Conn : Steady(c, k) =>
            \/ \E o \in conns : For(o, c, k)
            \/ Fits(k) => \E o \in match : For(o, c, k))'
    BY <1>1, <1>2, <1>5 DEF WInv, Tracked, Matching, For
  <2>4. (\A o \in match : Steady(snap[o].cid, snap[o].spec) => Fits(snap[o].spec))'
    <3> SUFFICES ASSUME NEW o \in match, Steady(snap[o].cid, snap[o].spec)'
                 PROVE  Fits(snap[o].spec)
      BY <1>1, <1>2
    <3>1. Matching /\ o \in latest /\ o \in Snap /\ snap[o] # NoSnap
      BY DEF WInv, Calls, Matching, WebTypeOK, LatestRecords
    <3>2. snap[o].cid \in Cid /\ snap[o].spec \in Conn
      BY <1>1, <3>1, SnapFacts
    <3>3. Steady(snap[o].cid, snap[o].spec)
      BY <1>2, <1>5, <3>1, <3>2 DEF Steady
    <3> QED
      BY <3>3 DEF WInv, Tracked
  <2>5. (who # NoSnap /\ Steady(snap[who].cid, snap[who].spec) => EqualSoFar(who))'
    <3> SUFFICES ASSUME who # NoSnap, Steady(snap[who].cid, snap[who].spec)'
                 PROVE  EqualSoFar(who)
      BY <1>1, <1>2 DEF EqualSoFar
    <3>1. Matching /\ who \in latest /\ who \in Snap /\ snap[who] # NoSnap
      BY DEF WInv, Calls, Matching, WebTypeOK, LatestRecords
    <3>2. snap[who].cid \in Cid /\ snap[who].spec \in Conn
      BY <1>1, <3>1, SnapFacts
    <3>3. Steady(snap[who].cid, snap[who].spec)
      BY <1>1, <1>2, <1>5, <3>1, <3>2 DEF Steady
    <3> QED
      BY <3>3 DEF WInv, Tracked
  <2> QED
    BY <2>1, <2>2, <2>3, <2>4, <2>5 DEF Tracked
<1>8. ReadOwn'
  BY <1>1, <1>2 DEF WInv, ReadOwn
<1> QED
  BY <1>3, <1>4, <1>7, <1>8 DEF WInv

\* What a call knew is gone when it returns.
LEMMA ReturnKeeps ==
    ASSUME Return, pc' = "idle", todo' = {}
    PROVE  Calls' /\ Tracked' /\ ReadOwn'
<1>1. /\ op' = "none" /\ got' = NoRead /\ conns' = {} /\ who' = NoSnap /\ equal' = 0
      /\ match' = {}
  BY DEF Return
<1>2. Calls'
  BY <1>1 DEF Calls, Walking
<1>3. Tracked'
  BY <1>1 DEF Tracked, Matching, Walking
<1>4. ReadOwn'
  BY <1>1 DEF ReadOwn, NoRead
<1> QED
  BY <1>2, <1>3, <1>4

\* A scan begins a call, or fails and ends it.
LEMMA CallKeeps ==
    ASSUME WInv, NEW call \in {"all_connections", "connection_match"}, Call(call)
    PROVE  WInv'
<1>1. op = "none" /\ latest' = {} /\ UNCHANGED <<kernel, takeVars, ptr>>
  BY DEF Call
<1>2. SnapshotTypeOK' /\ Owned' /\ UNCHANGED <<proc, ended, count, clock, snap, pc, cur>>
  BY <1>1, SnapshotsStay DEF WInv, WebTypeOK
<1>3. PICK cids \in SUBSET Open : Scanned(cids)
  BY DEF Call
<1>4. Records' /\ list' \subseteq Block /\ rec' \in [Block -> Record \cup {Free}]
  BY <1>2, <1>3, ScanEffect DEF WInv, Records
<1>5. LatestRecords'
  BY <1>1 DEF LatestRecords
<1>6. CASE /\ Scanned(Open)
           /\ todo' = list' /\ op' = call /\ got' = NoRead
           /\ held' = [c \in Cid |-> {proc[c]}]
           /\ UNCHANGED matchVars
  <2>1. /\ conns = {} /\ match = {} /\ who = NoSnap /\ equal = 0 /\ pc = "idle"
        /\ UNCHANGED <<conns, match, who, equal>>
    BY <1>1, <1>6 DEF WInv, Calls, matchVars
  <2>2. WebTypeOK'
    <3>1. op' \in {"all_connections", "connection_match"} /\ todo' \subseteq list'
      BY <1>6
    <3>2. conns' = {} /\ match' = {} /\ who' = NoSnap /\ equal' = 0 /\ latest' = {}
      BY <1>1, <2>1
    <3>3. ptr' \in [Snap -> Block \cup {NoPtr}]
      BY <1>1 DEF WInv, WebTypeOK
    <3> QED
      BY <1>2, <1>4, <3>1, <3>2, <3>3, WebConstants DEF WebTypeOK
  <2>3. Calls'
    BY <1>2, <1>6, <2>1 DEF Calls, Walking
  <2>4. Tracked'
    <3>1. (Walking => \A c \in Cid, k \in Conn : Steady(c, k) =>
              \/ \E b \in todo : rec[b].cid = c /\ rec[b].spec = k
              \/ \E o \in conns : For(o, c, k))'
      <4> SUFFICES ASSUME NEW c \in Cid, NEW k \in Conn, held'[c] = {k}
                   PROVE  \E b \in list' : rec'[b].cid = c /\ rec'[b].spec = k
        BY <1>6 DEF Steady
      <4>1. proc[c] = k /\ c \in Open
        BY <1>6, Constants DEF Open
      <4> QED
        BY <1>6, <4>1, ScanEffect DEF WInv
    <3>2. \A c \in Cid : proc'[c] \in held'[c]
      BY <1>2, <1>6
    <3> QED
      BY <1>6, <2>1, <3>1, <3>2 DEF Tracked
  <2>5. ReadOwn'
    BY <1>6 DEF ReadOwn, NoRead
  <2> QED
    BY <1>2, <1>4, <1>5, <2>2, <2>3, <2>4, <2>5 DEF WInv
<1>7. CASE Return /\ UNCHANGED todo
  <2>1. pc' = "idle" /\ todo' = {}
    BY <1>1, <1>2, <1>7 DEF WInv, Calls, Walking
  <2>2. WebTypeOK'
    BY <1>1, <1>2, <1>4, <1>7, <2>1, WebConstants DEF WebTypeOK, WInv, Return
  <2> QED
    BY <1>2, <1>4, <1>5, <1>7, <2>1, <2>2, ReturnKeeps DEF WInv
<1> QED
  BY <1>6, <1>7 DEF Call

\* An object is made for a record.
LEMMA WalkKeeps == ASSUME WInv, NEW b \in Block, NEW o \in Snap, Walk(b, o) PROVE WInv'
<1> DEFINE r == rec[b]
           new_o == Allocated(r.cid, r.spec, 0)
<1>1. /\ Walking /\ b \in todo /\ b \in list /\ snap[o] = NoSnap
      /\ ptr' = [ptr EXCEPT ![o] = b] /\ snap' = [snap EXCEPT ![o] = new_o]
      /\ conns' = conns \cup {o} /\ todo' = todo \ {b} /\ latest' = latest \cup {o}
      /\ UNCHANGED <<proc, ended, count, clock, pc, cur, rec, list, op, who, equal, match, got, held>>
  BY DEF Walk, Walking, kernel, WInv, WebTypeOK
<1>2. /\ SnapshotTypeOK /\ ptr \in [Snap -> Block \cup {NoPtr}]
      /\ snap \in [Snap -> SnapType \cup {NoSnap}] /\ op # "compare" /\ op # "readall" /\ op # "none"
  BY <1>1 DEF WInv, WebTypeOK, SnapshotTypeOK, Walking
<1>3. /\ r \in Record /\ r.cid \in Cid /\ r.spec \in Conn /\ r = [cid |-> r.cid, spec |-> r.spec]
      /\ r.spec = proc[r.cid] \/ r.spec \in ended
  <2>1. r \in Record
    BY <1>1 DEF WInv, WebTypeOK, Records
  <2> QED
    BY <1>1, <2>1 DEF Record, WInv, Records
<1>4. /\ new_o \in SnapType /\ new_o.cid = r.cid /\ new_o.spec = r.spec
      /\ new_o.of = NoConn /\ ~new_o.good
  <2>1. Zero \in [Var -> 0..(Modulus - 1)] /\ Zero \in [Var -> Nat] /\ 0 \in 0..ClockMax
    BY Constants DEF Zero
  <2> HIDE DEF r
  <2> QED
    BY <1>3, <2>1, Constants DEF Allocated, SnapType
<1> HIDE DEF r, new_o
<1>5. /\ snap'[o] = new_o /\ new_o # NoSnap /\ ptr'[o] = b
      /\ \A p \in Snap : p # o => snap'[p] = snap[p] /\ ptr'[p] = ptr[p]
      /\ snap' \in [Snap -> SnapType \cup {NoSnap}] /\ ptr' \in [Snap -> Block \cup {NoPtr}]
  BY <1>1, <1>2, <1>4, Constants
<1>6. \A p \in latest : p \in Snap /\ p # o
  BY <1>1 DEF WInv, LatestRecords, WebTypeOK
<1>7. WebTypeOK'
  <2>1. SnapshotTypeOK'
    BY <1>1, <1>2, <1>5 DEF SnapshotTypeOK
  <2> QED
    BY <1>1, <1>5, <2>1 DEF WebTypeOK, WInv
<1>8. Owned'
  <2> SUFFICES ASSUME NEW p \in Snap, snap'[p] # NoSnap
               PROVE  Owner(p)'
    BY DEF Owned
  <2>1. pc = "idle"
    BY <1>2 DEF WInv, Calls
  <2>2. CASE p = o
    BY <1>1, <1>3, <1>4, <1>5, <2>1, <2>2 DEF Owner
  <2>3. CASE p # o
    BY <1>1, <1>5, <2>1, <2>3 DEF Owner, Owned, WInv
  <2> QED
    BY <2>2, <2>3
<1>9. Calls' /\ Records'
  BY <1>1, <1>2 DEF WInv, Calls, Records, Walking
<1>10. LatestRecords'
  <2> SUFFICES ASSUME NEW p \in latest'
               PROVE  /\ snap'[p] # NoSnap /\ ptr'[p] \in list
                      /\ rec[ptr'[p]] = [cid |-> snap'[p].cid, spec |-> snap'[p].spec]
    BY <1>1 DEF LatestRecords
  <2>1. CASE p = o
    BY <1>1, <1>3, <1>4, <1>5, <2>1 DEF r
  <2>2. CASE p # o
    BY <1>1, <1>5, <1>6, <2>2 DEF WInv, LatestRecords
  <2> QED
    BY <2>1, <2>2
<1>11. Tracked'
  <2>1. match' = {} /\ who' = NoSnap /\ op' # "compare"
    BY <1>1, <1>2 DEF WInv, Calls
  <2>2. \A c \in Cid : proc'[c] \in held'[c]
    BY <1>1 DEF WInv, Tracked, Matching
  <2>3. ASSUME NEW c \in Cid, NEW k \in Conn, Steady(c, k)'
        PROVE  \/ \E d \in todo' : rec'[d].cid = c /\ rec'[d].spec = k
               \/ \E p \in conns' : For(p, c, k)'
    <3>1. \/ \E d \in todo : rec[d].cid = c /\ rec[d].spec = k
          \/ \E p \in conns : For(p, c, k)
      BY <1>1, <2>3 DEF WInv, Tracked, Steady
    <3>2. CASE \E p \in conns : For(p, c, k)
      <4>1. \A p \in conns : p \in latest
        BY DEF WInv, WebTypeOK
      <4> QED
        BY <1>1, <1>5, <1>6, <3>2, <4>1 DEF For
    <3>3. CASE \E d \in todo : d # b /\ rec[d].cid = c /\ rec[d].spec = k
      BY <1>1, <3>3
    <3>4. CASE rec[b].cid = c /\ rec[b].spec = k
      BY <1>1, <1>4, <1>5, <3>4 DEF For, r
    <3> QED
      BY <3>1, <3>2, <3>3, <3>4
  <2> QED
    BY <2>1, <2>2, <2>3 DEF Tracked
<1>12. ReadOwn'
  <2>1. got' = NoRead /\ op' # "dead"
    BY <1>1 DEF WInv, Calls, Walking
  <2> QED
    BY <2>1 DEF ReadOwn, NoRead
<1> QED
  BY <1>7, <1>8, <1>9, <1>10, <1>11, <1>12 DEF WInv

\* A record is left out when its cid has no connection any more; then it had none throughout.
LEMMA WalkOverKeeps == ASSUME WInv, NEW b \in Block, WalkOver(b) PROVE WInv'
<1>1. /\ Walking /\ b \in todo /\ proc[rec[b].cid] = NoConn /\ todo' = todo \ {b}
      /\ UNCHANGED <<kernel, takeVars, rec, list, ptr, latest, op, conns, who, equal, match, got, held>>
  BY DEF WalkOver, Walking, heap, matchVars
<1>2. SnapshotTypeOK' /\ Owned' /\ UNCHANGED <<proc, ended, count, clock, snap, pc, cur>>
  BY <1>1, SnapshotsStay DEF WInv, WebTypeOK
<1>3. WebTypeOK' /\ Calls' /\ Records' /\ LatestRecords' /\ ReadOwn'
  BY <1>1, <1>2 DEF WInv, WebTypeOK, Calls, Walking, Records, LatestRecords, ReadOwn
<1>4. Tracked'
  <2>1. match' = {} /\ who' = NoSnap /\ op' # "compare"
    BY <1>1 DEF WInv, Calls, Walking
  <2>2. \A c \in Cid : proc'[c] \in held'[c]
    BY <1>1, <1>2 DEF WInv, Tracked, Matching
  <2>3. ASSUME NEW c \in Cid, NEW k \in Conn, Steady(c, k)'
        PROVE  \/ \E d \in todo' : rec'[d].cid = c /\ rec'[d].spec = k
               \/ \E p \in conns' : For(p, c, k)'
    <3>1. \/ \E d \in todo : rec[d].cid = c /\ rec[d].spec = k
          \/ \E p \in conns : For(p, c, k)
      BY <1>1, <2>3 DEF WInv, Tracked, Steady
    <3>2. proc[c] = k /\ k # NoConn
      BY <1>1, <1>2, <2>2, <2>3, Constants DEF Steady
    <3>3. \A d \in todo : rec[d].cid = c => d # b
      BY <1>1, <3>2
    <3> QED
      BY <1>1, <1>2, <3>1, <3>3 DEF For
  <2> QED
    BY <2>1, <2>2, <2>3 DEF Tracked
<1> QED
  BY <1>2, <1>3, <1>4 DEF WInv

LEMMA WalkEndsKeeps == WInv /\ WalkEnds => WInv'
<1> SUFFICES ASSUME WInv, WalkEnds
             PROVE  WInv'
  OBVIOUS
<1>1. Walking /\ todo = {} /\ todo' = {} /\ UNCHANGED <<kernel, takeVars, rec, list, ptr, latest>>
  BY DEF WalkEnds, Walking, heap
<1>2. SnapshotTypeOK' /\ Owned' /\ UNCHANGED <<proc, ended, count, clock, snap, pc, cur>>
  BY <1>1, SnapshotsStay DEF WInv, WebTypeOK
<1>3. Records' /\ LatestRecords'
  BY <1>1, <1>2 DEF WInv, Records, LatestRecords
<1>4. pc' = "idle"
  BY <1>1, <1>2 DEF WInv, Calls, Walking
<1>5. CASE Return
  <2>1. WebTypeOK'
    BY <1>1, <1>2, <1>5, WebConstants DEF WInv, WebTypeOK, Return
  <2> QED
    BY <1>1, <1>2, <1>3, <1>4, <1>5, <2>1, ReturnKeeps DEF WInv
<1>6. CASE op' = "compare" /\ UNCHANGED <<matchVars, got, held>>
  <2>1. UNCHANGED <<conns, who, equal, match, got, held>>
    BY <1>6 DEF matchVars
  <2>2. WebTypeOK'
    BY <1>1, <1>2, <1>6, <2>1 DEF WInv, WebTypeOK
  <2>3. Calls'
    BY <1>1, <1>4, <1>6, <2>1 DEF WInv, Calls, Walking
  <2>4. Tracked'
    BY <1>1, <1>2, <1>6, <2>1 DEF WInv, Tracked, Matching, Walking, Steady, For, EqualSoFar
  <2>5. ReadOwn'
    BY <1>1, <1>2, <1>6, <2>1 DEF WInv, ReadOwn
  <2> QED
    BY <1>2, <1>3, <2>2, <2>3, <2>4, <2>5 DEF WInv
<1> QED
  BY <1>5, <1>6 DEF WalkEnds

-----------------------------------------------------------------------------
(* The matches *)

\* What a read through an object of the latest scan gives.
LEMMA GivenLatest ==
    ASSUME WInv, NEW o \in latest, NEW k \in Given(o), k # NoConn
    PROVE  /\ o \in Snap /\ snap[o].cid \in Cid /\ snap[o].spec \in Conn /\ k \in Conn
           /\ k = proc[snap[o].cid]
           /\ k = snap[o].spec \/ snap[o].spec \in ended
<1>1. /\ o \in Snap /\ snap[o] # NoSnap /\ SnapshotTypeOK /\ ptr[o] \in Block /\ rec[ptr[o]] # Free
      /\ rec[ptr[o]] = [cid |-> snap[o].cid, spec |-> snap[o].spec]
      /\ rec[ptr[o]].spec = proc[rec[ptr[o]].cid] \/ rec[ptr[o]].spec \in ended
  BY DEF WInv, LatestRecords, WebTypeOK, Records
<1>2. snap[o].cid \in Cid /\ snap[o].spec \in Conn
  BY <1>1, SnapFacts
<1>3. k = proc[snap[o].cid]
  BY <1>1 DEF Given
<1> QED
  BY <1>1, <1>2, <1>3 DEF SnapshotTypeOK

\* An attribute that is equal, and not the last, leaves the object under comparison; any
\* other ends the comparison with the right answer.
LEMMA CompareKeeps == ASSUME WInv, NEW o \in Snap, Compare(o) PROVE WInv'
<1>1. /\ op = "compare" /\ o \in conns /\ who \in {o, NoSnap} /\ op' = op /\ o \in latest
      /\ UNCHANGED <<kernel, takeVars, rec, list, ptr, latest, todo, got, held>>
  BY DEF Compare, heap, WInv, WebTypeOK
<1>2. SnapshotTypeOK' /\ Owned' /\ UNCHANGED <<proc, ended, count, clock, snap, pc, cur>>
  BY <1>1, SnapshotsStay DEF WInv, WebTypeOK
<1> DEFINE at == equal + 1
           same(k) == Is[k][at] = Asked[at]
<1>3. PICK k \in Given(o) \ {NoConn} :
          IF same(k) /\ at < Attrs
          THEN who' = o /\ equal' = at /\ UNCHANGED <<conns, match>>
          ELSE /\ match' = IF same(k) THEN match \cup {o} ELSE match
               /\ conns' = conns \ {o} /\ who' = NoSnap /\ equal' = 0
  BY DEF Compare
<1>4. /\ snap[o].cid \in Cid /\ snap[o].spec \in Conn /\ k = proc[snap[o].cid]
  BY <1>1, <1>3, GivenLatest
<1>5. equal \in 0..(Attrs - 1) /\ Attrs \in Nat \ {0} /\ at \in Attr
  BY WebConstants DEF WInv, WebTypeOK, Attr
<1>6. ASSUME Steady(snap[o].cid, snap[o].spec)
      PROVE  k = snap[o].spec /\ EqualSoFar(o)
  <2>1. k = snap[o].spec
    <3>1. Matching /\ (Matching => \A c \in Cid : proc[c] \in held[c])
      BY <1>1 DEF WInv, Tracked, Matching
    <3>2. proc[snap[o].cid] \in held[snap[o].cid] /\ held[snap[o].cid] = {snap[o].spec}
      BY <1>4, <1>6, <3>1, Zenon DEF Steady
    <3> QED
      BY <1>4, <3>2
  <2>2. CASE who = o
    BY <1>6, <2>1, <2>2, WebConstants DEF WInv, Tracked
  <2>3. CASE who = NoSnap
    <3>1. equal = 0
      BY <2>3 DEF WInv, Calls
    <3>2. \A a \in 1..equal : FALSE
      BY <3>1
    <3> QED
      BY <2>1, <3>2 DEF EqualSoFar
  <2> QED
    BY <1>1, <2>1, <2>2, <2>3
<1>7. ASSUME Steady(snap[o].cid, snap[o].spec), same(k)
      PROVE  \A a \in 1..at : Is[snap[o].spec][a] = Asked[a]
  <2>1. \A a \in 1..at : a \in 1..equal \/ a = at
    BY <1>5
  <2> QED
    BY <1>6, <1>7, <2>1 DEF EqualSoFar
<1>8. Records' /\ LatestRecords' /\ ReadOwn'
  BY <1>1, <1>2 DEF WInv, Records, LatestRecords, ReadOwn
<1>9. \A c \in Cid : proc'[c] \in held'[c]
  BY <1>1, <1>2 DEF WInv, Tracked, Matching
<1>10. CASE same(k) /\ at < Attrs
  <2>1. who' = o /\ equal' = at /\ UNCHANGED <<conns, match>>
    BY <1>3, <1>10
  <2>2. WebTypeOK' /\ Calls'
    <3>1. at \in 0..(Attrs - 1)
      BY <1>5, <1>10
    <3>2. WebTypeOK'
      <4> HIDE DEF at
      <4> QED
        BY <1>1, <1>2, <2>1, <3>1 DEF WInv, WebTypeOK
    <3>3. Calls'
      BY <1>1, <1>2, <2>1, WebConstants DEF WInv, Calls, Walking
    <3> QED
      BY <3>2, <3>3
  <2>3. Tracked'
    <3>1. (who # NoSnap /\ Steady(snap[who].cid, snap[who].spec) => EqualSoFar(who))'
      BY <1>1, <1>2, <1>7, <1>10, <2>1 DEF Steady, EqualSoFar
    <3> QED
      BY <1>1, <1>2, <1>9, <2>1, <3>1 DEF WInv, Tracked, Matching, Walking, Steady, For
  <2> QED
    BY <1>2, <1>8, <2>2, <2>3 DEF WInv
<1>11. CASE ~(same(k) /\ at < Attrs)
  <2>1. /\ match' = IF same(k) THEN match \cup {o} ELSE match
        /\ conns' = conns \ {o} /\ who' = NoSnap /\ equal' = 0
    BY <1>3, <1>11
  <2>2. ASSUME Steady(snap[o].cid, snap[o].spec)
        PROVE  Fits(snap[o].spec) <=> same(k)
    <3>1. CASE same(k)
      <4>1. at = Attrs
        BY <1>5, <1>11, <3>1
      <4> QED
        BY <1>7, <2>2, <3>1, <4>1 DEF Fits, Attr
    <3>2. CASE ~same(k)
      <4>1. ~(Is[snap[o].spec][at] = Asked[at])
        BY <1>6, <2>2, <3>2
      <4> QED
        BY <1>5, <3>2, <4>1 DEF Fits
    <3> QED
      BY <3>1, <3>2
  <2> HIDE DEF at, same
  <2>3. WebTypeOK' /\ Calls'
    <3>1. WebTypeOK'
      BY <1>1, <1>2, <2>1, WebConstants DEF WInv, WebTypeOK
    <3>2. Calls'
      BY <1>1, <1>2, <2>1 DEF WInv, Calls, Walking
    <3> QED
      BY <3>1, <3>2
  <2>4. ASSUME NEW c \in Cid, NEW j \in Conn, Steady(c, j)'
        PROVE  (\E p \in conns' : For(p, c, j)') \/ (Fits(j) => \E p \in match' : For(p, c, j)')
    <3>1. \/ \E p \in conns : For(p, c, j)
          \/ Fits(j) => \E p \in match : For(p, c, j)
      BY <1>1, <2>4 DEF WInv, Tracked, Steady
    <3>2. CASE \E p \in conns : p # o /\ For(p, c, j)
      BY <1>2, <2>1, <3>2 DEF For
    <3>3. CASE Fits(j) => \E p \in match : For(p, c, j)
      <4>1. match \subseteq match'
        BY <2>1
      <4> QED
        BY <1>2, <3>3, <4>1 DEF For
    <3>4. CASE For(o, c, j)
      <4>1. Steady(snap[o].cid, snap[o].spec) /\ j = snap[o].spec
        BY <1>1, <2>4, <3>4 DEF For, Steady
      <4>2. Fits(j) => o \in match'
        BY <2>1, <2>2, <4>1
      <4> QED
        BY <1>2, <3>4, <4>2 DEF For
    <3> QED
      BY <3>1, <3>2, <3>3, <3>4
  <2>5. ASSUME NEW p \in match', Steady(snap[p].cid, snap[p].spec)'
        PROVE  Fits(snap'[p].spec)
    <3>1. Steady(snap[p].cid, snap[p].spec) /\ snap'[p] = snap[p]
      BY <1>1, <1>2, <2>5 DEF Steady
    <3>2. p \in match \/ (p = o /\ same(k))
      BY <2>1
    <3>3. CASE p \in match
      BY <3>1, <3>3 DEF WInv, Tracked
    <3> QED
      BY <2>2, <3>1, <3>2, <3>3
  <2>6. Tracked'
    BY <1>1, <1>9, <2>1, <2>4, <2>5 DEF Tracked, Walking
  <2> QED
    BY <1>2, <1>8, <2>3, <2>6 DEF WInv
<1> QED
  BY <1>10, <1>11

\* A comparison that fails, and one that has no objects left, end the call.
LEMMA CompareEndsKeeps ==
    ASSUME WInv, op = "compare", Return, UNCHANGED <<kernel, takeVars, heap, todo>>
    PROVE  WInv'
<1>1. UNCHANGED <<rec, list, ptr, latest, todo>> /\ UNCHANGED <<kernel, takeVars>>
  BY DEF heap
<1>2. SnapshotTypeOK' /\ Owned' /\ UNCHANGED <<proc, ended, count, clock, snap, pc, cur>>
  BY <1>1, SnapshotsStay DEF WInv, WebTypeOK
<1>3. pc' = "idle" /\ todo' = {}
  BY <1>1, <1>2 DEF WInv, Calls, Walking
<1>4. Records' /\ LatestRecords'
  BY <1>1, <1>2 DEF WInv, Records, LatestRecords
<1>5. WebTypeOK'
  BY <1>1, <1>2, WebConstants DEF WInv, WebTypeOK, Return
<1> QED
  BY <1>2, <1>3, <1>4, <1>5, ReturnKeeps DEF WInv

-----------------------------------------------------------------------------
(* read, readall and the life of the objects *)

\* Between calls nothing of a match is left to keep.
LEMMA NothingTracked ==
    ASSUME WInv, op \in {"none", "readall"}, op' \in {"none", "readall", "dead"},
           UNCHANGED <<todo, matchVars>>
    PROVE  Tracked' /\ todo' = {} /\ conns' = {} /\ match' = {} /\ who' = NoSnap /\ equal' = 0
<1>1. todo' = {} /\ conns' = {} /\ match' = {} /\ who' = NoSnap /\ equal' = 0
  BY DEF matchVars, WInv, Calls, Walking
<1>2. Tracked'
  BY <1>1 DEF Tracked, Matching, Walking
<1> QED
  BY <1>1, <1>2

LEMMA ReadWebKeeps == ASSUME WInv, NEW o \in Snap, Read(o) PROVE WInv'
<1>1. /\ op = "none" /\ op' \in {"none", "dead"}
      /\ UNCHANGED <<kernel, takeVars, rec, list, ptr, latest, todo, matchVars>>
  BY DEF Read, heap
<1>2. SnapshotTypeOK' /\ Owned' /\ UNCHANGED <<proc, ended, count, clock, snap, pc, cur>>
  BY <1>1, SnapshotsStay DEF WInv, WebTypeOK
<1>3. Tracked' /\ todo' = {} /\ conns' = {} /\ match' = {} /\ who' = NoSnap /\ equal' = 0
  BY <1>1, NothingTracked
<1>4. WebTypeOK' /\ Calls' /\ Records' /\ LatestRecords'
  <2>1. WebTypeOK'
    BY <1>1, <1>2, <1>3, WebConstants DEF WInv, WebTypeOK
  <2>2. Calls'
    BY <1>1, <1>2, <1>3 DEF WInv, Calls, Walking
  <2> QED
    BY <1>1, <1>2, <2>1, <2>2 DEF WInv, Records, LatestRecords
<1>5. ReadOwn'
  <2>1. CASE (\E k \in Given(o) : got' = [obj |-> o, of |-> k]) /\ UNCHANGED op
    <3>1. PICK k \in Given(o) : got' = [obj |-> o, of |-> k]
      BY <2>1
    <3>2. o \in latest /\ k # NoConn => k = snap[o].spec \/ snap[o].spec \in ended
      BY GivenLatest
    <3> QED
      BY <1>1, <1>2, <2>1, <3>1, <3>2 DEF ReadOwn
  <2>2. CASE rec[ptr[o]] = Free /\ got' = [obj |-> o, of |-> NoConn]
    <3>1. o \notin latest
      BY <2>2 DEF WInv, LatestRecords, Records
    <3> QED
      BY <1>1, <2>2, <3>1 DEF ReadOwn
  <2> QED
    BY <2>1, <2>2 DEF Read
<1> QED
  BY <1>2, <1>3, <1>4, <1>5 DEF WInv

LEMMA ReadallKeeps == ASSUME WInv, NEW o \in Snap, Readall(o) PROVE WInv'
<1>1. /\ op = "none" /\ got' = NoRead /\ UNCHANGED kernel
      /\ UNCHANGED <<rec, list, ptr, latest, todo, matchVars>>
      /\ \/ op' = "readall" /\ TakeOpen(o)
         \/ op' = "none" /\ TakeRefused(o)
  BY DEF Readall, heap
<1>2. /\ UNCHANGED <<proc, ended, count, clock, snap>> /\ pc = "idle" /\ snap[o] # NoSnap
      /\ \/ op' = "readall" /\ pc' = "opened" /\ cur' = o
         \/ op' = "none" /\ pc' = pc /\ cur' = cur
  BY <1>1 DEF kernel, TakeOpen, TakeRefused, takeVars
<1>3. SnapshotTypeOK' /\ Owned'
  <2>1. SnapshotTypeOK'
    BY <1>2 DEF WInv, WebTypeOK, SnapshotTypeOK
  <2>2. Owned'
    BY <1>2 DEF WInv, Owned, Owner
  <2> QED
    BY <2>1, <2>2
<1>4. Tracked' /\ todo' = {} /\ conns' = {} /\ match' = {} /\ who' = NoSnap /\ equal' = 0
  <2>1. op' \in {"none", "readall", "dead"}
    BY <1>1
  <2> QED
    BY <1>1, <2>1, NothingTracked
<1>5. WebTypeOK' /\ Calls' /\ Records' /\ LatestRecords'
  <2>1. WebTypeOK'
    BY <1>1, <1>2, <1>3, <1>4, WebConstants DEF WInv, WebTypeOK
  <2>2. Calls'
    BY <1>1, <1>2, <1>4 DEF WInv, Calls, Walking
  <2> QED
    BY <1>1, <1>2, <2>1, <2>2 DEF WInv, Records, LatestRecords
<1>6. ReadOwn'
  BY <1>1 DEF ReadOwn, NoRead
<1> QED
  BY <1>3, <1>4, <1>5, <1>6 DEF WInv

\* A take goes on, and changes nothing that a read of the record goes by.
LEMMA TakeGoesOn ==
    ASSUME WInv, TakeRead \/ TakeShort \/ TakeStamp, op' = (IF TakeRead THEN op ELSE "none"),
           UNCHANGED <<kernel, heap, todo, matchVars, got>>
    PROVE  WInv'
<1>1. SnapshotTypeOK /\ Owned /\ UNCHANGED <<rec, list, ptr, latest, todo, matchVars, got>>
  BY DEF WInv, WebTypeOK, heap
<1>2. /\ SnapshotTypeOK' /\ pc # "idle" /\ snap[cur] # NoSnap /\ snap'[cur] # NoSnap
      /\ IF TakeRead THEN pc' = "read" ELSE pc' = "idle"
      /\ snap'[cur].cid = snap[cur].cid /\ snap'[cur].spec = snap[cur].spec
      /\ \A s \in Snap : s # cur => snap'[s] = snap[s]
  BY <1>1, ReadEffect, ShortEffect, StampEffect
<1>3. Owned' /\ UNCHANGED <<proc, ended>>
  BY <1>1, TakeOwned DEF kernel
<1>4. op = "readall" /\ op' \in {"none", "readall"} /\ got' = NoRead
  BY <1>1, <1>2 DEF WInv, Calls
<1>5. Tracked' /\ todo' = {} /\ conns' = {} /\ match' = {} /\ who' = NoSnap /\ equal' = 0
  BY <1>1, <1>4, NothingTracked
<1>6. WebTypeOK'
  BY <1>1, <1>2, <1>4, <1>5, WebConstants DEF WInv, WebTypeOK
<1>7. Calls'
  BY <1>2, <1>4, <1>5 DEF Calls, Walking
<1>8. Records'
  BY <1>1, <1>3 DEF WInv, Records
<1>9. LatestRecords'
  <2>1. \A o \in latest : /\ snap'[o] # NoSnap
                          /\ snap'[o].cid = snap[o].cid /\ snap'[o].spec = snap[o].spec
    BY <1>2 DEF WInv, LatestRecords, WebTypeOK
  <2> QED
    BY <1>1, <2>1 DEF WInv, LatestRecords
<1>10. ReadOwn'
  BY <1>4 DEF ReadOwn, NoRead
<1> QED
  BY <1>3, <1>5, <1>6, <1>7, <1>8, <1>9, <1>10 DEF WInv

LEMMA DropKeeps == ASSUME WInv, NEW o \in Snap, Drop(o) PROVE WInv'
<1>1. /\ op = "none" /\ op' = "none" /\ got' = NoRead
      /\ snap' = [snap EXCEPT ![o] = NoSnap] /\ ptr' = [ptr EXCEPT ![o] = NoPtr]
      /\ latest' = latest \ {o}
      /\ UNCHANGED <<proc, ended, count, clock, pc, cur, rec, list, todo, matchVars>>
  BY DEF Drop, kernel
<1>2. /\ pc = "idle" /\ snap \in [Snap -> SnapType \cup {NoSnap}]
      /\ ptr \in [Snap -> Block \cup {NoPtr}]
  BY <1>1 DEF WInv, Calls, WebTypeOK, SnapshotTypeOK
<1>3. /\ snap' \in [Snap -> SnapType \cup {NoSnap}] /\ ptr' \in [Snap -> Block \cup {NoPtr}]
      /\ snap'[o] = NoSnap
      /\ \A p \in Snap : p # o => snap'[p] = snap[p] /\ ptr'[p] = ptr[p]
  BY <1>1, <1>2
<1>4. SnapshotTypeOK'
  BY <1>1, <1>2, <1>3 DEF WInv, WebTypeOK, SnapshotTypeOK
<1>5. Owned'
  <2> SUFFICES ASSUME NEW p \in Snap, snap'[p] # NoSnap
               PROVE  Owner(p)'
    BY DEF Owned
  <2>1. p # o /\ snap'[p] = snap[p] /\ Owner(p)
    BY <1>3 DEF WInv, Owned
  <2> QED
    BY <1>1, <2>1 DEF Owner
<1>6. Tracked' /\ todo' = {} /\ conns' = {} /\ match' = {} /\ who' = NoSnap /\ equal' = 0
  BY <1>1, NothingTracked
<1>7. WebTypeOK'
  BY <1>1, <1>3, <1>4, <1>6, WebConstants DEF WInv, WebTypeOK
<1>8. Calls'
  BY <1>1, <1>2, <1>6 DEF WInv, Calls, Walking
<1>9. Records'
  BY <1>1 DEF WInv, Records
<1>10. LatestRecords'
  <2>1. \A p \in latest' : p \in latest /\ snap'[p] = snap[p] /\ ptr'[p] = ptr[p]
    BY <1>1, <1>3 DEF WInv, WebTypeOK
  <2> QED
    BY <1>1, <2>1 DEF WInv, LatestRecords
<1>11. ReadOwn'
  BY <1>1 DEF ReadOwn, NoRead
<1> QED
  BY <1>5, <1>6, <1>7, <1>8, <1>9, <1>10, <1>11 DEF WInv

LEMMA WebStutterKeeps == WInv /\ UNCHANGED webVars => WInv'
<1> SUFFICES ASSUME WInv, UNCHANGED webVars
             PROVE  WInv'
  OBVIOUS
<1>1. UNCHANGED <<rec, list, ptr, latest, op, todo, conns, who, equal, match, got, held>>
      /\ UNCHANGED <<kernel, takeVars>>
  BY DEF webVars, heap, matchVars
<1>2. SnapshotTypeOK' /\ Owned' /\ UNCHANGED <<proc, ended, count, clock, snap, pc, cur>>
  BY <1>1, SnapshotsStay DEF WInv, WebTypeOK
<1>3. WebTypeOK' /\ Calls' /\ Records' /\ LatestRecords' /\ ReadOwn'
  BY <1>1, <1>2 DEF WInv, WebTypeOK, Calls, Walking, Records, LatestRecords, ReadOwn
<1>4. Tracked'
  BY <1>1, <1>2 DEF WInv, Tracked, Matching, Walking, Steady, For, EqualSoFar
<1> QED
  BY <1>2, <1>3, <1>4 DEF WInv

\* What a program with objects of Web10G and the kernel keep to between them.
THEOREM WebInvariant == WebSpec => []WInv
<1>1. ASSUME WInv, Python
      PROVE  WInv'
  <2>1. CASE \E call \in {"all_connections", "connection_match"} : Call(call)
    BY <1>1, <2>1, CallKeeps
  <2>2. CASE \E b \in Block : WalkOver(b) \/ \E o \in Snap : Walk(b, o)
    BY <1>1, <2>2, WalkOverKeeps, WalkKeeps
  <2>3. CASE WalkEnds
    BY <1>1, <2>3, WalkEndsKeeps
  <2>4. CASE MatchEnds \/ \E o \in Snap : CompareFails(o)
    BY <1>1, <2>4, CompareEndsKeeps DEF MatchEnds, CompareFails
  <2>5. CASE \E o \in Snap : Compare(o) \/ Read(o) \/ Readall(o) \/ Drop(o)
    BY <1>1, <2>5, CompareKeeps, ReadWebKeeps, ReadallKeeps, DropKeeps
  <2>6. CASE ReadallReads
    BY <1>1, <2>6, TakeGoesOn DEF ReadallReads
  <2>7. CASE ReadallEnds
    <3>1. ~TakeRead
      BY <2>7 DEF ReadallEnds, TakeRead, TakeShort, TakeStamp
    <3> QED
      BY <1>1, <2>7, <3>1, TakeGoesOn DEF ReadallEnds
  <2> QED
    BY <1>1, <2>1, <2>2, <2>3, <2>4, <2>5, <2>6, <2>7 DEF Python
<1>2. WInv /\ [WebNext]_webVars => WInv'
  BY <1>1, KernelStepKeeps, WebStutterKeeps DEF WebNext
<1> QED
  BY <1>2, WebInitKeeps, PTL DEF WebSpec

\* A read through an object of the latest scan (Web10G.py:71-84) never goes through a
\* freed record, and gives a value of the connection the object is for, until that one ends.
THEOREM ReadsAreOwn == WebSpec => []ReadOwn
<1>1. WInv => ReadOwn
  BY DEF WInv
<1> QED
  BY <1>1, WebInvariant, PTL

\* For every number of attributes, objects and connections: the list that
\* connection_match (Web10G.py:42-61) returns is exact for the cids that kept their
\* connection while it worked.
THEOREM MatchIsExact == WebSpec => []MatchExact
<1>1. ASSUME WInv
      PROVE  MatchExact
  <2> SUFFICES ASSUME op = "compare", conns = {}, NEW c \in Cid, NEW k \in Conn, held[c] = {k}
               PROVE  Fits(k) <=> \E o \in match : For(o, c, k)
    BY DEF MatchExact, For
  <2>1. Fits(k) => \E o \in match : For(o, c, k)
    BY <1>1 DEF WInv, Tracked, Steady
  <2>2. ASSUME NEW o \in match, For(o, c, k)
        PROVE  Fits(k)
    BY <1>1, <2>2 DEF WInv, Tracked, Steady, For
  <2> QED
    BY <2>1, <2>2
<1> QED
  BY <1>1, WebInvariant, PTL

\* The snapshots that readall takes (Web10G.py:96-110) are of the object's own
\* connection, as long as that one lives, also when the record is long gone.
THEOREM ReadallIsOwn == WebSpec => []OwnWhileAlive
<1>1. WInv => OwnWhileAlive
  BY DEF WInv, Owned, Owner, OwnWhileAlive, Taken
<1> QED
  BY <1>1, WebInvariant, PTL
=============================================================================
