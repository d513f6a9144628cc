-------------------------- MODULE EstatsListProofs --------------------------
(***************************************************************************)
(* The list is correct for every set of nodes: its pointers are the        *)
(* sequence of the appended nodes, and no operation touches freed memory.  *)
(***************************************************************************)
EXTENDS EstatsList, TLAPS, SequenceTheorems

\* Where the loops are: the teardown is at the first cell and knows the next,
\* the walk is at the cell after those it has handed out.
LoopAt ==
    /\ pc = "clear" => pos = Ring(1) /\ tmp \in Cell /\ (pos # Anchor => tmp = next[pos])
    /\ pc = "walk" => pos = Handed(Ring(Len(visited) + 1))

LInv == TypeOK /\ RingMatches /\ NoWildAccess /\ WalkInOrder /\ LoopAt

LEMMA Constants == Anchor \notin Node /\ Null \notin Node /\ Anchor # Null /\ Null \notin Cell
BY ListAssumption DEF ListAssumption, Cell

LEMMA RingFacts ==
    ASSUME TypeOK, RingMatches
    PROVE  /\ Len(seq) \in Nat /\ DOMAIN seq = 1..Len(seq)
           /\ Ring(0) = Anchor /\ Ring(Len(seq) + 1) = Anchor
           /\ \A i \in 1..Len(seq) : Ring(i) = seq[i] /\ seq[i] \in Node /\ seq[i] \in alloc
           /\ next[Anchor] = Ring(1) /\ prev[Anchor] = Ring(Len(seq))
           /\ \A i \in 0..(Len(seq) + 1) : Ring(i) \in Live(alloc) /\ Ring(i) \in Cell
           /\ \A a \in alloc : \E i \in 1..Len(seq) : a = seq[i]
<1>1. Len(seq) \in Nat /\ DOMAIN seq = 1..Len(seq) /\ \A i \in 1..Len(seq) : seq[i] \in Node
  BY DEF TypeOK
<1>2. Ring(0) = Anchor /\ Ring(Len(seq) + 1) = Anchor /\ \A i \in 1..Len(seq) : Ring(i) = seq[i]
  BY <1>1 DEF Ring
<1>3. (\A i \in 1..Len(seq) : seq[i] \in alloc) /\ \A a \in alloc : \E i \in 1..Len(seq) : a = seq[i]
  BY <1>1 DEF RingMatches, ToSet
<1>4. next[Anchor] = Ring(1) /\ prev[Anchor] = Ring(Len(seq))
  <2>1. 0 \in 0..Len(seq) /\ Len(seq) \in 0..Len(seq)
    BY <1>1
  <2> QED
    BY <1>1, <1>2, <2>1 DEF RingMatches
<1>5. \A i \in 0..(Len(seq) + 1) : Ring(i) \in Live(alloc) /\ Ring(i) \in Cell
  BY <1>1, <1>3 DEF Ring, Live, Cell
<1> QED
  BY <1>1, <1>2, <1>3, <1>4, <1>5

LEMMA InitList == Init => LInv
<1> SUFFICES ASSUME Init
             PROVE  LInv
  OBVIOUS
<1>1. TypeOK
  <2>1. <<>> \in Seq(Node)
    OBVIOUS
  <2> QED
    BY <2>1 DEF Init, TypeOK, Cell
<1>2. Len(seq) = 0 /\ ToSet(seq) = {}
  BY DEF Init, ToSet
<1>3. RingMatches
  BY <1>2 DEF Init, RingMatches, Ring, Cell
<1> QED
  BY <1>1, <1>3 DEF Init, LInv, NoWildAccess, WalkInOrder, LoopAt

\* The new node comes between the last cell and the head.
LEMMA AppendKeeps ==
    ASSUME LInv, NEW new \in Node, AppendNode(new)
    PROVE  LInv'
<1> USE DEF LInv
<1>n. PICK n \in Nat : n = Len(seq)
  BY RingFacts
<1>l. PICK last \in Cell : last = prev[Anchor]
  BY RingFacts
<1>1. new \notin alloc /\ new # Anchor /\ pc = "idle" /\ pc' = "idle"
  BY Constants DEF AppendNode
<1>2. /\ n \in Nat /\ last = Ring(n) /\ Ring(0) = Anchor /\ Ring(n + 1) = Anchor
      /\ \A i \in 1..n : Ring(i) = seq[i] /\ seq[i] \in Node /\ seq[i] # new
      /\ last \in Cell /\ last \in Live(alloc)
  BY <1>1, <1>n, <1>l, RingFacts
<1>3. /\ Len(seq') = n + 1 /\ seq'[n + 1] = new /\ seq' \in Seq(Node)
      /\ \A i \in 1..n : seq'[i] = seq[i]
  BY <1>n, <1>2, AppendProperties DEF AppendNode, TypeOK
<1>4. /\ Ring(0)' = Anchor /\ Ring(n + 1)' = new /\ Ring(n + 2)' = Anchor
      /\ \A i \in 0..n : Ring(i)' = Ring(i)
  <2>1. \A i \in Nat : Ring(i)' = IF i \in 1..(n + 1) THEN seq'[i] ELSE Anchor
    BY <1>3 DEF Ring
  <2>2. n + 1 \in 1..(n + 1) /\ n + 2 \notin 1..(n + 1) /\ 0 \notin 1..(n + 1)
    OBVIOUS
  <2>3. \A i \in 1..n : Ring(i)' = Ring(i)
    BY <1>2, <1>3, <2>1
  <2> QED
    BY <1>2, <1>3, <2>1, <2>2, <2>3
<1>5. last # new
  BY <1>1, <1>2
<1>6. /\ next' = [next EXCEPT ![new] = Anchor, ![last] = new]
      /\ prev' = [prev EXCEPT ![Anchor] = new, ![new] = last]
  BY <1>l DEF AppendNode, Add2
<1>7. TypeOK'
  BY <1>2, <1>3, <1>6 DEF AppendNode, TypeOK, Cell
<1>8. next'[new] = Anchor /\ next'[last] = new /\ prev'[Anchor] = new /\ prev'[new] = last
  BY <1>1, <1>2, <1>5, <1>6 DEF TypeOK, Cell
<1>9. ASSUME NEW i \in 0..(n + 1)
      PROVE  next'[Ring(i)'] = Ring(i + 1)' /\ prev'[Ring(i + 1)'] = Ring(i)'
  <2>1. CASE i = n + 1
    <3>1. i + 1 = n + 2
      BY <2>1
    <3> QED
      BY <1>4, <1>8, <2>1, <3>1
  <2>2. CASE i = n
    <3>1. i + 1 = n + 1 /\ n \in 0..n /\ Ring(n)' = last
      BY <1>2, <1>4, <2>2
    <3> QED
      BY <1>4, <1>8, <2>2, <3>1
  <2>3. CASE i \in 0..(n - 1)
    <3>1. i + 1 \in 1..n /\ i \in 0..n
      BY <1>2, <2>3
    <3>2. Ring(i)' = Ring(i) /\ Ring(i + 1)' = Ring(i + 1)
      BY <1>4, <3>1, <1>2
    <3>3. next[Ring(i)] = Ring(i + 1) /\ prev[Ring(i + 1)] = Ring(i)
      BY <1>n, <3>1 DEF RingMatches
    <3>4. Ring(i) # last /\ Ring(i) # new /\ Ring(i) \in Cell
      <4>1. CASE i = 0
        BY <1>1, <1>2, <3>1, <4>1, Constants DEF Cell
      <4>2. CASE i \in 1..(n - 1)
        <5>1. n \in 1..n /\ i \in 1..n /\ i # n
          BY <1>2, <4>2
        <5>2. seq[i] # seq[n]
          BY <1>n, <5>1 DEF RingMatches
        <5> QED
          BY <1>2, <5>1, <5>2 DEF Cell
      <4> QED
        BY <4>1, <4>2, <2>3
    <3>5. Ring(i + 1) # Anchor /\ Ring(i + 1) # new /\ Ring(i + 1) \in Cell
      BY <1>2, <3>1, Constants DEF Cell
    <3> QED
      BY <1>6, <3>2, <3>3, <3>4, <3>5 DEF TypeOK
  <2> QED
    BY <1>2, <2>1, <2>2, <2>3
<1>10. \A i, j \in 1..(n + 1) : seq'[i] = seq'[j] => i = j
  <2> SUFFICES ASSUME NEW i \in 1..(n + 1), NEW j \in 1..(n + 1), seq'[i] = seq'[j]
               PROVE  i = j
    OBVIOUS
  <2>1. CASE i \in 1..n /\ j \in 1..n
    <3>1. seq[i] = seq[j]
      BY <1>3, <2>1
    <3> QED
      BY <1>n, <2>1, <3>1 DEF RingMatches
  <2>2. CASE i = n + 1 /\ j \in 1..n
    BY <1>2, <1>3, <2>2
  <2>3. CASE i \in 1..n /\ j = n + 1
    BY <1>2, <1>3, <2>3
  <2> QED
    BY <2>1, <2>2, <2>3
<1>11. alloc' = ToSet(seq)'
  <2>1. ToSet(seq') = ToSet(seq) \cup {new}
    BY <1>n, <1>2, <1>3, RingFacts DEF ToSet
  <2> QED
    BY <2>1 DEF AppendNode, RingMatches
<1>12. RingMatches'
  BY <1>n, <1>2, <1>3, <1>9, <1>10, <1>11 DEF RingMatches
<1>13. NoWildAccess'
  BY <1>2, <1>l DEF AppendNode, NoWildAccess
<1> QED
  BY <1>1, <1>7, <1>12, <1>13 DEF WalkInOrder, LoopAt

\* The first node is unlinked: the head is followed by the second cell.
LEMMA ClearKeeps ==
    ASSUME LInv, ClearNode
    PROVE  LInv'
<1> DEFINE n == Len(seq)
<1> USE DEF LInv
<1>1. pc = "clear" /\ pc' = "clear" /\ pos = Ring(1) /\ pos # Anchor /\ tmp = next[pos]
  BY DEF ClearNode, LoopAt
<1>2. n \in Nat /\ n >= 1
  BY <1>1, RingFacts DEF Ring
<1>3. /\ pos = seq[1] /\ pos \in Node /\ pos \in alloc
      /\ Ring(0) = Anchor /\ Ring(n + 1) = Anchor
      /\ \A i \in 1..n : Ring(i) = seq[i] /\ seq[i] \in Node /\ seq[i] \in alloc
      /\ \A i \in 0..(n + 1) : Ring(i) \in Cell
  BY <1>1, <1>2, RingFacts
<1>4. \A i \in 0..n : next[Ring(i)] = Ring(i + 1) /\ prev[Ring(i + 1)] = Ring(i)
  BY DEF RingMatches
<1>5. prev[pos] = Anchor /\ next[pos] = Ring(2)
  <2>1. 0 \in 0..n /\ 1 \in 0..n
    BY <1>2
  <2> QED
    BY <1>1, <1>3, <1>4, <2>1
<1>6. \A i \in 2..(n + 1) : Ring(i) # pos
  <2> TAKE i \in 2..(n + 1)
  <2>1. CASE i = n + 1
    BY <1>1, <1>3, <2>1
  <2>2. CASE i \in 2..n
    BY <1>2, <1>3, <2>2 DEF RingMatches
  <2> QED
    BY <1>2, <2>1, <2>2
<1>7. /\ next' = [next EXCEPT ![Anchor] = Ring(2), ![pos] = Null]
      /\ prev' = [prev EXCEPT ![Ring(2)] = Anchor, ![pos] = Null]
      /\ alloc' = alloc \ {pos} /\ seq' = Tail(seq) /\ pos' = Ring(2) /\ tmp' = next'[Ring(2)]
  BY <1>1, <1>5 DEF ClearNode
<1>8. /\ Len(seq') = n - 1 /\ seq' \in Seq(Node)
      /\ \A i \in 1..(n - 1) : seq'[i] = seq[i + 1]
  <2>1. seq # <<>>
    BY <1>2
  <2> QED
    BY <1>2, <1>7, <2>1, HeadTailProperties DEF TypeOK
<1>9. Ring(0)' = Anchor /\ \A i \in 1..n : Ring(i)' = Ring(i + 1)
  BY <1>2, <1>3, <1>8 DEF Ring
<1>10. Ring(2) \in Cell /\ Ring(2) # pos /\ Ring(1)' = Ring(2)
  BY <1>2, <1>3, <1>6, <1>9
<1>11. TypeOK'
  <2>1. next' \in [Cell -> Cell \cup {Null}] /\ prev' \in [Cell -> Cell \cup {Null}]
    BY <1>7, <1>10 DEF TypeOK, Cell
  <2>2. tmp' \in Cell \cup {Null} /\ pos' \in Cell
    BY <1>7, <1>10, <2>1
  <2> QED
    BY <1>1, <1>7, <1>8, <2>1, <2>2 DEF ClearNode, TypeOK
<1> HIDE DEF n
<1>12. ASSUME NEW i \in 0..(n - 1)
       PROVE  next'[Ring(i)'] = Ring(i + 1)' /\ prev'[Ring(i + 1)'] = Ring(i)'
  <2>1. CASE i = 0
    <3>1. next'[Anchor] = Ring(2) /\ prev'[Ring(2)] = Anchor
      BY <1>1, <1>7, <1>10 DEF TypeOK, Cell
    <3> QED
      BY <1>9, <1>10, <2>1, <3>1
  <2>2. CASE i \in 1..(n - 1)
    <3>1. i + 1 \in 2..n /\ i + 2 \in 3..(n + 1) /\ i \in 1..n /\ i + 1 \in 1..n
          /\ (i + 1) + 1 = i + 2 /\ i + 1 \in 0..n
      BY <1>2, <2>2
    <3>2. Ring(i)' = Ring(i + 1) /\ Ring(i + 1)' = Ring(i + 2)
      BY <1>9, <3>1
    <3>3. next[Ring(i + 1)] = Ring(i + 2) /\ prev[Ring(i + 2)] = Ring(i + 1)
      BY <1>4, <3>1
    <3>4. Ring(i + 1) # Anchor /\ Ring(i + 1) # pos /\ Ring(i + 1) \in Cell
      <4>1. i + 1 \in 2..(n + 1)
        BY <1>2, <2>2
      <4>2. Ring(i + 1) \in Node
        BY <1>3, <3>1
      <4> QED
        BY <1>6, <4>1, <4>2, Constants DEF Cell
    <3>5. Ring(i + 2) # pos /\ Ring(i + 2) # Ring(2) /\ Ring(i + 2) \in Cell
      <4>1. Ring(2) = seq[2] /\ 2 \in 1..n
        BY <1>2, <1>3, <3>1
      <4>2. CASE i + 2 = n + 1
        BY <1>2, <1>3, <1>6, <4>1, <4>2, Constants
      <4>3. CASE i + 2 \in 3..n
        <5>1. i + 2 \in 1..n /\ i + 2 # 2
          BY <1>2, <4>3
        <5>2. seq[i + 2] # seq[2]
          BY <4>1, <5>1 DEF RingMatches, n
        <5>3. i + 2 \in 2..(n + 1)
          BY <1>2, <4>3
        <5> QED
          BY <1>3, <1>6, <4>1, <5>1, <5>2, <5>3 DEF Cell
      <4> QED
        BY <1>2, <3>1, <4>2, <4>3
    <3> QED
      BY <1>7, <3>2, <3>3, <3>4, <3>5 DEF TypeOK
  <2> QED
    BY <1>2, <2>1, <2>2
<1>13. \A i, j \in 1..(n - 1) : seq'[i] = seq'[j] => i = j
  <2> SUFFICES ASSUME NEW i \in 1..(n - 1), NEW j \in 1..(n - 1), seq[i + 1] = seq[j + 1]
               PROVE  i = j
    BY <1>8
  <2>1. i + 1 \in 1..n /\ j + 1 \in 1..n
    BY <1>2
  <2> QED
    BY <2>1 DEF RingMatches, n
<1>14. alloc' = ToSet(seq)'
  <2>1. \A a : a \in alloc <=> \E i \in 1..n : a = seq[i]
    BY RingFacts, <1>3 DEF n
  <2>2. \A a : a \in ToSet(seq') <=> \E i \in 1..(n - 1) : a = seq[i + 1]
    <3>1. DOMAIN seq' = 1..(n - 1)
      BY <1>8
    <3> QED
      BY <1>8, <3>1 DEF ToSet
  <2>3. \A a : a \in ToSet(seq') => a \in alloc /\ a # pos
    <3> SUFFICES ASSUME NEW i \in 1..(n - 1)
                 PROVE  seq[i + 1] \in alloc /\ seq[i + 1] # pos
      BY <2>2
    <3>1. i + 1 \in 1..n /\ i + 1 \in 2..(n + 1)
      BY <1>2
    <3> QED
      BY <1>3, <1>6, <3>1
  <2>4. \A a : a \in alloc /\ a # pos => a \in ToSet(seq')
    <3> SUFFICES ASSUME NEW i \in 1..n, seq[i] # pos
                 PROVE  seq[i] \in ToSet(seq')
      BY <2>1
    <3>1. i - 1 \in 1..(n - 1) /\ (i - 1) + 1 = i
      BY <1>2, <1>3
    <3> QED
      BY <2>2, <3>1
  <2> QED
    BY <1>7, <2>3, <2>4
<1>15. RingMatches'
  BY <1>8, <1>12, <1>13, <1>14 DEF RingMatches
<1>16. NoWildAccess'
  <2>1. Ring(2) \in Live(alloc \ {pos})
    <3>1. CASE n = 1
      BY <1>3, <3>1 DEF Live
    <3>2. CASE n >= 2
      <4>1. 2 \in 1..n
        BY <1>2, <3>2
      <4> QED
        BY <1>3, <1>10, <4>1 DEF Live
    <3> QED
      BY <1>2, <3>1, <3>2
  <2> QED
    BY <1>1, <1>3, <1>5, <2>1 DEF ClearNode, NoWildAccess, Live
<1>17. LoopAt'
  <2>1. tmp' \in Cell
    <3>1. CASE n = 1
      <4>1. tmp' = next'[Anchor] /\ next'[Anchor] = Ring(2)
        BY <1>1, <1>3, <1>7, <3>1 DEF TypeOK, Cell
      <4> QED
        BY <1>10, <4>1
    <3>2. CASE n >= 2
      <4>1. 1 \in 0..(n - 1) /\ 2 \in 1..n /\ 3 \in 0..(n + 1) /\ 1 + 1 = 2 /\ 2 + 1 = 3
        BY <1>2, <3>2
      <4>2. next'[Ring(1)'] = Ring(1 + 1)'
        BY <1>12, <4>1
      <4>3. tmp' = Ring(3)
        BY <1>7, <1>9, <1>10, <4>1, <4>2
      <4> QED
        BY <1>3, <4>1, <4>3
    <3> QED
      BY <1>2, <3>1, <3>2
  <2> QED
    BY <1>1, <1>7, <1>10, <2>1 DEF LoopAt
<1> QED
  BY <1>1, <1>11, <1>15, <1>16, <1>17 DEF WalkInOrder

\* The loops that change no pointer.  (Walks and the two ends of a teardown.)
LEMMA StartClearKeeps ==
    ASSUME LInv, StartClear
    PROVE  LInv'
<1> USE DEF LInv
<1>1. UNCHANGED <<next, prev, alloc, seq, visited>> /\ pc' = "clear" /\ pos' = next[Anchor] /\ tmp' = next[pos']
  BY DEF StartClear
<1>2. pos' = Ring(1) /\ pos' \in Live(alloc) /\ pos' \in Cell /\ pos' = Ring(1)'
  <2>1. 1 \in 0..(Len(seq) + 1)
    BY RingFacts
  <2> QED
    BY <1>1, <2>1, RingFacts DEF Ring
<1>3. next[pos'] \in Cell
  <2>1. CASE Len(seq) = 0
    <3>1. pos' = Anchor
      BY <1>2, <2>1 DEF Ring
    <3> QED
      BY <1>1, <1>2, <3>1
  <2>2. CASE Len(seq) >= 1
    <3>1. 1 \in 0..Len(seq) /\ 2 \in 0..(Len(seq) + 1) /\ 1 + 1 = 2
      BY <2>2, RingFacts
    <3> QED
      BY <1>2, <3>1, RingFacts DEF RingMatches
  <2> QED
    BY <2>1, <2>2, RingFacts
<1>4. TypeOK'
  BY <1>1, <1>2, <1>3 DEF StartClear, TypeOK
<1>5. RingMatches'
  BY <1>1 DEF RingMatches, Ring
<1>6. NoWildAccess'
  BY <1>1, <1>2 DEF StartClear, NoWildAccess
<1> QED
  BY <1>1, <1>2, <1>3, <1>4, <1>5, <1>6 DEF WalkInOrder, LoopAt

LEMMA EndClearKeeps ==
    ASSUME LInv, EndClear
    PROVE  LInv'
BY DEF LInv, EndClear, TypeOK, RingMatches, Ring, NoWildAccess, WalkInOrder, LoopAt

LEMMA StartWalkKeeps ==
    ASSUME LInv, StartWalk
    PROVE  LInv'
<1> USE DEF LInv
<1>1. /\ UNCHANGED <<next, prev, alloc, tmp, wild, seq>> /\ pc' = "walk"
      /\ pos' = Handed(Ring(1)) /\ visited' = <<>>
  BY RingFacts DEF StartWalk
<1>2. visited' \in Seq(Node) /\ Len(visited') = 0
  BY <1>1
<1>3. Ring(1) \in Cell /\ pos' \in Cell \cup {Null} /\ Len(seq) \in Nat
  <2>1. 1 \in 0..(Len(seq) + 1)
    BY RingFacts
  <2> QED
    BY <1>1, <2>1, RingFacts DEF Handed
<1>4. TypeOK'
  BY <1>1, <1>2, <1>3 DEF TypeOK
<1>5. RingMatches' /\ NoWildAccess'
  BY <1>1 DEF RingMatches, Ring, NoWildAccess
<1>6. LoopAt'
  BY <1>1, <1>2 DEF LoopAt, Ring, Handed
<1>7. pos' = Null => Len(seq) = 0
  <2> SUFFICES ASSUME Len(seq) # 0
               PROVE  pos' # Null
    OBVIOUS
  <2>1. 1 \in 1..Len(seq)
    BY <1>3
  <2> QED
    BY <1>1, <2>1, RingFacts, Constants DEF Handed
<1>8. WalkInOrder'
  <2>1. pos' = Null => seq = <<>>
    BY <1>7, EmptySeq DEF TypeOK
  <2> QED
    BY <1>1, <1>2, <1>3, <2>1 DEF WalkInOrder
<1> QED
  BY <1>4, <1>5, <1>6, <1>8

LEMMA WalkNextKeeps ==
    ASSUME LInv, WalkNext
    PROVE  LInv'
<1> USE DEF LInv
<1>n. PICK n \in Nat : n = Len(seq)
  BY RingFacts
<1>k. PICK k \in Nat : k = Len(visited)
  BY LenProperties DEF TypeOK
<1>1. /\ UNCHANGED <<next, prev, alloc, tmp, seq, pc>> /\ pc = "walk" /\ pos # Null
      /\ pos = Handed(Ring(k + 1)) /\ k <= n
      /\ \A i \in 1..k : visited[i] = seq[i]
  BY <1>n, <1>k DEF WalkNext, LoopAt, WalkInOrder
<1>2. k + 1 \in 1..n /\ k + 2 \in 0..(n + 1) /\ k + 1 \in 0..n /\ (k + 1) + 1 = k + 2
  <2>1. Ring(k + 1) # Anchor
    BY <1>1 DEF Handed
  <2> QED
    BY <1>n, <1>1, <2>1 DEF Ring
<1>3. pos = seq[k + 1] /\ pos = Ring(k + 1) /\ pos \in Node /\ pos \in alloc
  BY <1>n, <1>1, <1>2, RingFacts, Constants DEF Handed
<1>4. next[pos] = Ring(k + 2) /\ Ring(k + 2) \in Cell
  BY <1>n, <1>2, <1>3, RingFacts DEF RingMatches
<1>5. /\ visited' = Append(visited, pos) /\ visited' \in Seq(Node) /\ Len(visited') = k + 1
      /\ \A i \in 1..(k + 1) : visited'[i] = seq[i]
  <2>1. visited' = Append(visited, pos)
    BY DEF WalkNext
  <2>2. /\ visited' \in Seq(Node) /\ Len(visited') = k + 1 /\ visited'[k + 1] = pos
        /\ \A i \in 1..k : visited'[i] = visited[i]
    BY <1>k, <1>3, <2>1, AppendProperties DEF TypeOK
  <2>3. ASSUME NEW i \in 1..(k + 1)
        PROVE  visited'[i] = seq[i]
    <3>1. CASE i \in 1..k
      BY <1>1, <2>2, <3>1
    <3>2. CASE i = k + 1
      BY <1>3, <2>2, <3>2
    <3> QED
      BY <3>1, <3>2
  <2> QED
    BY <2>1, <2>2, <2>3
<1>6. pos' = Handed(Ring(k + 2)) /\ pos' \in Cell \cup {Null}
  BY <1>4 DEF WalkNext, Handed
<1>7. wild' = wild
  BY <1>3 DEF WalkNext, TypeOK
<1>8. TypeOK'
  BY <1>1, <1>5, <1>6, <1>7 DEF TypeOK
<1>9. RingMatches' /\ NoWildAccess'
  BY <1>1, <1>7 DEF RingMatches, Ring, NoWildAccess
<1>10. LoopAt'
  <2>1. Len(visited') + 1 = k + 2
    BY <1>5
  <2> QED
    BY <1>1, <1>6, <2>1 DEF LoopAt, Ring, Handed
<1>11. pos' = Null => k + 1 = n
  <2> SUFFICES ASSUME k + 1 # n
               PROVE  pos' # Null
    OBVIOUS
  <2>1. k + 2 \in 1..n
    BY <1>2
  <2> QED
    BY <1>n, <1>6, <2>1, RingFacts, Constants DEF Handed
<1>12. WalkInOrder'
  <2>1. pos' = Null => visited' = seq
    BY <1>n, <1>5, <1>11, SeqEqual DEF TypeOK
  <2> QED
    BY <1>n, <1>1, <1>2, <1>5, <2>1 DEF WalkInOrder
<1> QED
  BY <1>8, <1>9, <1>10, <1>12

LEMMA EndWalkKeeps ==
    ASSUME LInv, EndWalk
    PROVE  LInv'
<1>1. <<>> \in Seq(Node)
  OBVIOUS
<1> QED
  BY <1>1 DEF LInv, EndWalk, TypeOK, RingMatches, Ring, NoWildAccess, WalkInOrder, LoopAt

LEMMA NextKeeps == LInv /\ [Next]_vars => LInv'
<1> SUFFICES ASSUME LInv, [Next]_vars
             PROVE  LInv'
  OBVIOUS
<1>1. ASSUME NEW new \in Node, AppendNode(new)
      PROVE  LInv'
  BY <1>1, AppendKeeps
<1>2. CASE StartClear
  BY <1>2, StartClearKeeps
<1>3. CASE StartWalk
  BY <1>3, StartWalkKeeps
<1>4. CASE ClearNode
  BY <1>4, ClearKeeps
<1>5. CASE EndClear
  BY <1>5, EndClearKeeps
<1>6. CASE WalkNext
  BY <1>6, WalkNextKeeps
<1>7. CASE EndWalk
  BY <1>7, EndWalkKeeps
<1>8. CASE UNCHANGED vars
  BY <1>8 DEF vars, LInv, TypeOK, RingMatches, Ring, NoWildAccess, WalkInOrder, LoopAt
<1> QED
  BY <1>1, <1>2, <1>3, <1>4, <1>5, <1>6, <1>7, <1>8 DEF Next, Loop

\* The inductive invariant: the properties below, and where the loops stand.
THEOREM ListInvariant == Spec => []LInv
<1> QED
  BY InitList, NextKeeps, PTL DEF Spec

\* Every variable keeps its type.
THEOREM ListTypeCorrect == Spec => []TypeOK
<1>1. LInv => TypeOK
  BY DEF LInv
<1> QED
  BY <1>1, ListInvariant, PTL

\* After any appends and teardowns the ring is the sequence of the nodes in it, so
\* a module that keeps a sequence for a list says what the pointers do.
THEOREM ListIsSequence == Spec => []RingMatches
<1>1. LInv => RingMatches
  BY DEF LInv
<1> QED
  BY <1>1, ListInvariant, PTL

\* list-int.h and its loops never touch a node that was not allocated or was freed.
THEOREM ListNoWildAccess == Spec => []NoWildAccess
<1>1. LInv => NoWildAccess
  BY DEF LInv
<1> QED
  BY <1>1, ListInvariant, PTL

\* A get_head / next walk yields the list in order and misses nothing.
THEOREM ListWalk == Spec => []WalkInOrder
<1>1. LInv => WalkInOrder
  BY DEF LInv
<1> QED
  BY <1>1, ListInvariant, PTL
=============================================================================
