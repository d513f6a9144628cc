------------------------- MODULE EstatsHeaderProofs -------------------------
(***************************************************************************)
(* For every header: the groups the parser and the application use are     *)
(* allocated, and a group's size is the end of its furthest variable; both *)
(* parsers find the sections of the header; a walk gives the variables     *)
(* that are not deprecated.                                                *)
(***************************************************************************)
EXTENDS EstatsHeader, TLAPS, SequenceTheorems, FiniteSetTheorems, WellFoundedInduction

InUse == apc \in {"parse", "attached"}

\* What the agent points to while it is used is allocated.
GroupsInUse ==
    /\ apc = "parse" => (curr # 0 => Alive(curr))
    /\ InUse => (spec # 0 => Alive(spec)) /\ (read # 0 => Alive(read))
    /\ NoMisuse

\* The walk is at a variable of the read group.
WalkInGroup ==
    walk # 0 => apc = "attached" /\ read # 0 /\ walk \in DOMAIN heap[read].vars

HInv == TypeOK /\ SizeCovers /\ GroupsInUse /\ WalkInGroup

LEMMA LineFacts ==
    ASSUME header \in Seq(Line), NEW i \in 1..Len(header)
    PROVE  /\ header[i] \in Line
           /\ header[i].kind = "group" => header[i].group \in Group
           /\ header[i].kind = "var" => header[i].var \in Var
<1>1. header[i] \in Line
  OBVIOUS
<1> QED
  BY <1>1 DEF Line

LEMMA VarFacts ==
    ASSUME NEW v \in Var
    PROVE  VarEnd(v) \in Nat
BY DEF Var, VarEnd

LEMMA AppendFacts ==
    ASSUME NEW S, NEW s \in Seq(S), NEW e \in S
    PROVE  /\ DOMAIN Append(s, e) = DOMAIN s \cup {Len(s) + 1}
           /\ \A i \in DOMAIN s : Append(s, e)[i] = s[i]
           /\ Append(s, e)[Len(s) + 1] = e
<1>1. Len(s) \in Nat /\ DOMAIN s = 1..Len(s)
  OBVIOUS
<1>2. /\ Append(s, e) \in Seq(S) /\ Len(Append(s, e)) = Len(s) + 1
      /\ \A i \in 1..Len(s) : Append(s, e)[i] = s[i]
      /\ Append(s, e)[Len(s) + 1] = e
  BY AppendProperties
<1>3. DOMAIN Append(s, e) = 1..(Len(s) + 1)
  BY <1>2
<1> QED
  BY <1>1, <1>2, <1>3

LEMMA GroupFacts ==
    ASSUME TypeOK, NEW g \in DOMAIN heap
    PROVE  /\ heap[g] \in GroupType /\ heap[g].vars \in Seq(Var) /\ heap[g].size \in Nat
           /\ g \in 1..Len(heap)
<1>1. heap \in Seq(GroupType)
  BY DEF TypeOK
<1>2. heap[g] \in GroupType /\ g \in 1..Len(heap)
  BY <1>1
<1> QED
  BY <1>2 DEF GroupType

LEMMA Lengths ==
    ASSUME TypeOK
    PROVE  Len(header) \in Nat /\ Len(heap) \in Nat /\ apos \in Nat /\ lpos \in Nat
BY DEF TypeOK

\* The search for the next variable stays inside the group.
LEMMA NextUndeprecatedFacts ==
    ASSUME NEW s \in Seq(Var), NEW i \in Nat
    PROVE  NextUndeprecated(s, i) \in {0} \cup DOMAIN s
BY DEF NextUndeprecated

LEMMA InitHeader == Init => HInv
<1> SUFFICES ASSUME Init
             PROVE  HInv
  OBVIOUS
<1>1. header \in Seq(Line)
  BY HeaderAssumption DEF Init, HeaderAssumption
<1>2. TypeOK
  <2>1. <<>> \in Seq(GroupType) /\ <<>> \in Seq(Var) /\ Len(<<>>) = 0
    OBVIOUS
  <2> QED
    <3>1. Len(header) \in Nat
      BY <1>1
    <3>2. apos \in 1..(Len(header) + 1) /\ lpos \in 1..(Len(header) + 1)
      BY <3>1 DEF Init
    <3>3. heap = <<>> /\ spec \in 0..Len(heap) /\ read \in 0..Len(heap) /\ curr \in 0..Len(heap)
      BY <2>1 DEF Init
    <3> QED
      BY <1>1, <2>1, <3>2, <3>3 DEF Init, TypeOK
<1> QED
  BY <1>2 DEF Init, HInv, SizeCovers, GroupsInUse, NoMisuse, WalkInGroup, InUse

\* A group that is made has no variables.
LEMMA NewGroupKeeps ==
    ASSUME HInv, NEW b \in BOOLEAN, heap' = Append(heap, NewGroup(b))
    PROVE  /\ heap' \in Seq(GroupType) /\ Len(heap') = Len(heap) + 1
           /\ SizeCovers'
           /\ \A g \in DOMAIN heap : g \in DOMAIN heap' /\ heap'[g] = heap[g]
           /\ Len(heap') \in DOMAIN heap' /\ heap'[Len(heap')] = NewGroup(b)
<1> USE DEF HInv
<1>1. NewGroup(b) \in GroupType
  BY DEF NewGroup, GroupType
<1>2. heap \in Seq(GroupType)
  BY DEF TypeOK
<1>3. /\ heap' \in Seq(GroupType) /\ Len(heap') = Len(heap) + 1
      /\ \A g \in DOMAIN heap : g \in DOMAIN heap' /\ heap'[g] = heap[g]
      /\ Len(heap') \in DOMAIN heap' /\ heap'[Len(heap')] = NewGroup(b)
      /\ DOMAIN heap' = DOMAIN heap \cup {Len(heap')}
  BY <1>1, <1>2, AppendFacts, AppendProperties
<1>4. SizeCovers'
  BY <1>3 DEF SizeCovers, NewGroup
<1> QED
  BY <1>3, <1>4

LEMMA ParseGroupKeeps == HInv /\ ParseGroup => HInv'
<1> SUFFICES ASSUME HInv, ParseGroup
             PROVE  HInv'
  OBVIOUS
<1>1. /\ heap' \in Seq(GroupType) /\ Len(heap') = Len(heap) + 1
      /\ SizeCovers'
      /\ \A g \in DOMAIN heap : g \in DOMAIN heap' /\ heap'[g] = heap[g]
      /\ Len(heap') \in DOMAIN heap' /\ heap'[Len(heap')] = NewGroup(TRUE)
  BY NewGroupKeeps DEF ParseGroup
<1>2. TypeOK'
  <2>1. apos' \in 1..(Len(header') + 1)
    BY Lengths DEF HInv, TypeOK, ParseGroup, AtLine
  <2>2. spec' \in 0..Len(heap') /\ read' \in 0..Len(heap') /\ curr' \in 0..Len(heap')
    BY <1>1, Lengths DEF HInv, TypeOK, ParseGroup
  <2> QED
    BY <1>1, <2>1, <2>2 DEF HInv, TypeOK, ParseGroup, AtLine, walkVars, logVars
<1>3. GroupsInUse'
  <2>1. curr' = Len(heap') /\ Alive(curr)'
    BY <1>1 DEF Alive, NewGroup, ParseGroup
  <2>2. \A g \in DOMAIN heap : Alive(g) => Alive(g)'
    BY <1>1 DEF Alive
  <2>3. (spec # 0 => Alive(spec)) /\ (read # 0 => Alive(read)) /\ ~misuse
    BY DEF HInv, GroupsInUse, InUse, NoMisuse, ParseGroup, AtLine
  <2>4. spec' # 0 => Alive(spec)'
    BY <2>1, <2>2, <2>3 DEF ParseGroup, Alive
  <2>5. read' # 0 => Alive(read)'
    BY <2>1, <2>2, <2>3 DEF ParseGroup, Alive
  <2> QED
    BY <2>1, <2>3, <2>4, <2>5 DEF GroupsInUse, InUse, NoMisuse, ParseGroup
<1>4. WalkInGroup'
  BY DEF HInv, WalkInGroup, ParseGroup, AtLine, walkVars
<1> QED
  BY <1>1, <1>2, <1>3, <1>4 DEF HInv

LEMMA ParseOtherGroupKeeps == HInv /\ ParseOtherGroup => HInv'
<1> SUFFICES ASSUME HInv, ParseOtherGroup
             PROVE  HInv'
  OBVIOUS
<1>1. /\ heap' \in Seq(GroupType) /\ Len(heap') = Len(heap) + 1
      /\ SizeCovers'
      /\ \A g \in DOMAIN heap : g \in DOMAIN heap' /\ heap'[g] = heap[g]
  BY NewGroupKeeps DEF ParseOtherGroup
<1>2. TypeOK'
  <2>1. apos' \in 1..(Len(header') + 1)
    BY Lengths DEF HInv, TypeOK, ParseOtherGroup, AtLine
  <2>2. spec' \in 0..Len(heap') /\ read' \in 0..Len(heap') /\ curr' \in 0..Len(heap')
    BY <1>1, Lengths DEF HInv, TypeOK, ParseOtherGroup
  <2> QED
    BY <1>1, <2>1, <2>2 DEF HInv, TypeOK, ParseOtherGroup, AtLine, walkVars, logVars
<1>3. GroupsInUse'
  BY <1>1 DEF HInv, TypeOK, ParseOtherGroup, AtLine, GroupsInUse, InUse, NoMisuse, Alive
<1>4. WalkInGroup'
  BY DEF HInv, WalkInGroup, ParseOtherGroup, AtLine, walkVars
<1> QED
  BY <1>1, <1>2, <1>3, <1>4 DEF HInv

\* The size grows with the variable that ends further.
LEMMA ParseVarKeeps == HInv /\ ParseVar => HInv'
<1> SUFFICES ASSUME HInv, ParseVar
             PROVE  HInv'
  OBVIOUS
<1> DEFINE v == header[apos].var
<1>0. apos \in 1..Len(header) /\ v \in Var /\ VarEnd(v) \in Nat
  BY LineFacts, VarFacts DEF HInv, TypeOK, ParseVar, AtLine
<1>1. CASE curr = 0
  <2>1. heap' = heap /\ misuse' = misuse
    BY <1>1 DEF ParseVar
  <2>2. TypeOK'
    BY <1>0, <2>1 DEF HInv, TypeOK, ParseVar, AtLine, walkVars, logVars
  <2> QED
    BY <2>1, <2>2 DEF HInv, ParseVar, AtLine, SizeCovers, GroupsInUse, InUse, NoMisuse, Alive,
                      WalkInGroup, walkVars
<1>2. CASE curr # 0
  <2> DEFINE grown == [heap[curr] EXCEPT !.vars = Append(@, v), !.size = Larger(@, VarEnd(v))]
  <2>1. curr \in DOMAIN heap /\ heap[curr] \in GroupType /\ heap[curr].alive
    BY <1>2, GroupFacts DEF HInv, GroupsInUse, Alive, ParseVar, AtLine
  <2>2. /\ heap' = [heap EXCEPT ![curr] = grown]
        /\ misuse' = misuse
    BY <1>2, <2>1 DEF ParseVar, HInv, TypeOK
  <2>3. grown \in GroupType /\ grown.alive
    <3>1. heap[curr].vars \in Seq(Var) /\ heap[curr].size \in Nat
      BY <2>1 DEF GroupType
    <3>2. Append(heap[curr].vars, v) \in Seq(Var) /\ Larger(heap[curr].size, VarEnd(v)) \in Nat
      BY <1>0, <3>1 DEF Larger
    <3> QED
      BY <2>1, <3>2 DEF GroupType
  <2>4. heap' \in Seq(GroupType) /\ DOMAIN heap' = DOMAIN heap /\ Len(heap') = Len(heap)
    BY <2>1, <2>2, <2>3 DEF HInv, TypeOK
  <2>5. TypeOK'
    BY <1>0, <2>2, <2>4 DEF HInv, TypeOK, ParseVar, AtLine, walkVars, logVars
  <2>6. ASSUME NEW g \in DOMAIN heap'
        PROVE  /\ \A i \in DOMAIN heap'[g].vars : VarEnd(heap'[g].vars[i]) <= heap'[g].size
               /\ heap'[g].size > 0 =>
                     \E i \in DOMAIN heap'[g].vars : VarEnd(heap'[g].vars[i]) = heap'[g].size
    <3>1. CASE g # curr
      BY <2>2, <2>4, <3>1 DEF HInv, SizeCovers
    <3>2. CASE g = curr
      <4> DEFINE vs == heap[curr].vars
                 sz == heap[curr].size
      <4>1. vs \in Seq(Var) /\ sz \in Nat
        BY <2>1 DEF GroupType
      <4>2. /\ heap'[g].vars = Append(vs, v) /\ heap'[g].size = Larger(sz, VarEnd(v))
        BY <2>1, <2>2, <2>4, <3>2 DEF GroupType
      <4>3. /\ \A i \in DOMAIN vs : VarEnd(vs[i]) <= sz /\ VarEnd(vs[i]) \in Nat
            /\ sz > 0 => \E i \in DOMAIN vs : VarEnd(vs[i]) = sz
        BY <2>1, <4>1, VarFacts DEF HInv, SizeCovers
      <4>4. /\ DOMAIN Append(vs, v) = DOMAIN vs \cup {Len(vs) + 1}
            /\ \A i \in DOMAIN vs : Append(vs, v)[i] = vs[i]
            /\ Append(vs, v)[Len(vs) + 1] = v
        <5> HIDE DEF v, vs
        <5> QED
          BY <1>0, <4>1, AppendFacts
      <4>5. \A i \in DOMAIN Append(vs, v) : VarEnd(Append(vs, v)[i]) <= Larger(sz, VarEnd(v))
        <5>1. \A i \in DOMAIN vs : VarEnd(vs[i]) <= Larger(sz, VarEnd(v))
          BY <1>0, <4>1, <4>3 DEF Larger
        <5>2. VarEnd(v) <= Larger(sz, VarEnd(v))
          BY <1>0, <4>1 DEF Larger
        <5> QED
          BY <4>4, <5>1, <5>2
      <4>6. Larger(sz, VarEnd(v)) > 0 =>
               \E i \in DOMAIN Append(vs, v) : VarEnd(Append(vs, v)[i]) = Larger(sz, VarEnd(v))
        <5>1. CASE sz < VarEnd(v)
          BY <4>4, <5>1 DEF Larger
        <5>2. CASE ~(sz < VarEnd(v))
          <6>1. Larger(sz, VarEnd(v)) = sz
            BY <5>2 DEF Larger
          <6> QED
            BY <4>1, <4>3, <4>4, <6>1
        <5> QED
          BY <5>1, <5>2
      <4> QED
        BY <4>2, <4>5, <4>6
    <3> QED
      BY <3>1, <3>2
  <2>7. SizeCovers'
    BY <2>6 DEF SizeCovers
  <2>8. GroupsInUse'
    BY <2>1, <2>2, <2>3, <2>4 DEF HInv, GroupsInUse, InUse, NoMisuse, Alive, ParseVar, AtLine
  <2>9. WalkInGroup'
    BY DEF HInv, WalkInGroup, ParseVar, AtLine, walkVars
  <2> QED
    BY <2>5, <2>7, <2>8, <2>9 DEF HInv
<1> QED
  BY <1>1, <1>2

\* What leaves the groups alone and uses them no longer than before keeps the rest.
LEMMA QuietKeeps ==
    ASSUME HInv, UNCHANGED <<heap, spec, read, curr, misuse>>,
           TypeOK', WalkInGroup',
           apc' = "parse" => apc = "parse", InUse' => InUse
    PROVE  HInv'
<1>1. SizeCovers'
  BY DEF HInv, SizeCovers
<1>2. GroupsInUse'
  BY DEF HInv, GroupsInUse, NoMisuse, Alive, InUse
<1> QED
  BY <1>1, <1>2 DEF HInv

LEMMA ParseQuietKeeps ==
    ASSUME HInv,
           ParseBlank \/ ParseGroupNoMemory \/ ParseBadIgnored \/ ParseFails \/ EndOfHeader
    PROVE  HInv'
<1> USE DEF ParseBlank, ParseGroupNoMemory, ParseBadIgnored, ParseFails, EndOfHeader, AtLine
<1>1. apos' \in 1..(Len(header') + 1)
  BY Lengths DEF HInv, TypeOK
<1>2. TypeOK'
  BY <1>1 DEF HInv, TypeOK, walkVars, logVars
<1>3. WalkInGroup'
  BY DEF HInv, WalkInGroup, walkVars
<1> QED
  BY <1>2, <1>3, QuietKeeps DEF InUse

LEMMA GetVarHeadKeeps ==
    ASSUME HInv, GetVarHead
    PROVE  HInv'
<1>1. read \in DOMAIN heap /\ heap[read].vars \in Seq(Var)
  BY GroupFacts DEF HInv, GroupsInUse, InUse, Alive, GetVarHead
<1>2. CASE heap[read].vars = <<>>
  <2>1. apc' = "dead" /\ walk = 0 /\ UNCHANGED <<walk, visited>>
    BY <1>1, <1>2 DEF GetVarHead, HInv, WalkInGroup, walkVars
  <2>2. TypeOK'
    BY <2>1 DEF HInv, TypeOK, GetVarHead, logVars
  <2> QED
    BY <2>1, <2>2, QuietKeeps DEF GetVarHead, WalkInGroup, InUse
<1>3. CASE heap[read].vars # <<>>
  <2>1. /\ walk' = NextUndeprecated(heap[read].vars, 0)
        /\ visited' = <<>> /\ apc' = apc /\ apc = "attached" /\ read # 0
    BY <1>3 DEF GetVarHead
  <2>2. walk' \in {0} \cup DOMAIN heap[read].vars /\ walk' \in Nat
    BY <1>1, <2>1, NextUndeprecatedFacts
  <2>3. TypeOK'
    BY <2>1, <2>2 DEF HInv, TypeOK, GetVarHead, logVars
  <2> QED
    BY <2>1, <2>2, <2>3, QuietKeeps DEF GetVarHead, WalkInGroup, InUse
<1> QED
  BY <1>2, <1>3

LEMMA VarNextKeeps ==
    ASSUME HInv, VarNext
    PROVE  HInv'
<1>1. read # 0 /\ walk \in DOMAIN heap[read].vars /\ apc = "attached" /\ walk \in Nat
  BY DEF HInv, WalkInGroup, VarNext, TypeOK
<1>2. read \in DOMAIN heap /\ heap[read].vars \in Seq(Var)
  BY <1>1, GroupFacts DEF HInv, GroupsInUse, InUse, Alive
<1>3. walk' \in {0} \cup DOMAIN heap[read].vars /\ walk' \in Nat
  BY <1>1, <1>2, NextUndeprecatedFacts DEF VarNext
<1>4. visited' \in Seq(Var)
  BY <1>1, <1>2 DEF VarNext, HInv, TypeOK
<1>5. TypeOK'
  BY <1>3, <1>4 DEF HInv, TypeOK, VarNext, agentVars, logVars
<1> QED
  BY <1>1, <1>3, <1>5, QuietKeeps DEF VarNext, WalkInGroup, InUse, agentVars

LEMMA FindVarKeeps ==
    ASSUME HInv, FindVarNoGroup
    PROVE  HInv'
<1>1. TypeOK'
  BY DEF HInv, TypeOK, FindVarNoGroup, walkVars, logVars
<1>2. WalkInGroup'
  BY DEF HInv, WalkInGroup, FindVarNoGroup, walkVars
<1> QED
  BY <1>1, <1>2, QuietKeeps DEF FindVarNoGroup, InUse

\* Detach frees the groups of the agent, which are allocated, and uses nothing after.
LEMMA DetachKeeps ==
    ASSUME HInv, Detach
    PROVE  HInv'
<1>1. \A g \in {spec, read} \ {0} : Alive(g)
  BY DEF HInv, GroupsInUse, InUse, Detach
<1>2. misuse' = misuse /\ ~misuse
  BY <1>1 DEF HInv, GroupsInUse, NoMisuse, Detach, TypeOK
<1>3. \A g \in DOMAIN heap : heap[g] \in GroupType
  BY GroupFacts DEF HInv
<1>4. DOMAIN heap' = DOMAIN heap
  BY DEF Detach
<1>5. \A g \in DOMAIN heap' :
         heap'[g] \in GroupType /\ heap'[g].vars = heap[g].vars /\ heap'[g].size = heap[g].size
  BY <1>3 DEF Detach, GroupType
<1>6. heap' \in Seq(GroupType) /\ Len(heap') = Len(heap)
  <2>1. heap \in Seq(GroupType) /\ Len(heap) \in Nat /\ DOMAIN heap = 1..Len(heap)
    BY Lengths DEF HInv, TypeOK
  <2>2. heap' \in [1..Len(heap) -> GroupType]
    BY <1>4, <1>5, <2>1 DEF Detach
  <2> QED
    BY <2>1, <2>2
<1>7. TypeOK'
  <2>1. walk' \in Nat /\ visited' \in Seq(Var)
    BY DEF Detach
  <2> QED
    BY <1>2, <1>6, <2>1 DEF HInv, TypeOK, Detach, logVars
<1>8. SizeCovers'
  BY <1>4, <1>5 DEF HInv, SizeCovers
<1> QED
  BY <1>2, <1>7, <1>8 DEF HInv, GroupsInUse, NoMisuse, InUse, WalkInGroup, Detach

LEMMA LogKeeps ==
    ASSUME HInv, Log
    PROVE  HInv'
<1> USE DEF LogBlank, LogGroup, LogSkip, LogVar, LogFails, LogUnreadable, LogEnd, LogAt
<1>1. /\ UNCHANGED <<header, agentVars, walkVars>>
      /\ lpc' \in {"parse", "open", "failed"} /\ lpos' \in 1..(Len(header) + 1)
  BY Lengths DEF Log, HInv, TypeOK
<1>2. lgroup' \in Group
  BY LineFacts, Lengths DEF Log, HInv, TypeOK
<1>3. lvars' \in Seq(Var) /\ bufsize' \in Nat
  <2>1. CASE LogVar
    <3>1. header[lpos].var \in Var
      BY <2>1, LineFacts, Lengths DEF HInv, TypeOK
    <3>2. VarEnd(header[lpos].var) \in Nat
      BY <3>1, VarFacts
    <3> QED
      BY <2>1, <3>1, <3>2 DEF HInv, TypeOK, Larger
  <2>2. CASE ~LogVar
    BY <2>2 DEF Log, HInv, TypeOK
  <2> QED
    BY <2>1, <2>2
<1>4. TypeOK'
  BY <1>1, <1>2, <1>3 DEF HInv, TypeOK, agentVars, walkVars
<1> QED
  BY <1>1, <1>4, QuietKeeps DEF HInv, WalkInGroup, InUse, agentVars, walkVars

LEMMA StutterKeeps ==
    ASSUME HInv, UNCHANGED vars
    PROVE  HInv'
<1>1. TypeOK'
  BY DEF HInv, TypeOK, vars, agentVars, walkVars, logVars
<1> QED
  BY <1>1, QuietKeeps DEF HInv, WalkInGroup, InUse, vars, agentVars, walkVars

\* The invariant of the parser, the groups and the walk.
THEOREM HeaderInvariant == Spec => []HInv
<1>1. HInv /\ [Next]_vars => HInv'
  BY ParseGroupKeeps, ParseOtherGroupKeeps, ParseVarKeeps, ParseQuietKeeps, GetVarHeadKeeps,
     FindVarKeeps, VarNextKeeps, DetachKeeps, LogKeeps, StutterKeeps DEF Next, Parse
<1> QED
  BY InitHeader, <1>1, PTL DEF Spec

\* The two parsers and the walk keep to their types for every header.
THEOREM HeaderTypeCorrect == Spec => []TypeOK
<1>1. HInv => TypeOK
  BY DEF HInv
<1> QED
  BY HeaderInvariant, <1>1, PTL

\* No group is used or freed that is not allocated (agent.c:70, agent.c:165-195).
THEOREM HeaderNoMisuse == Spec => []NoMisuse
<1>1. HInv => NoMisuse
  BY DEF HInv, GroupsInUse
<1> QED
  BY HeaderInvariant, <1>1, PTL

\* A group's size is the end of its furthest variable (agent.c:116-118).
THEOREM HeaderSizeCovers == Spec => []SizeCovers
<1>1. HInv => SizeCovers
  BY DEF HInv
<1> QED
  BY HeaderInvariant, <1>1, PTL

-----------------------------------------------------------------------------
(* Sections of a header *)

\* Line i of h is under a line that names group g, and InSection says so of the header.
InSec(h, i, g) ==
    \E k \in 1..i :
        /\ h[k].kind = "group" /\ h[k].group = g
        /\ \A j \in (k + 1)..i : h[j].kind # "group"

\* One of the first p lines names g.
Named(h, g, p) == \E k \in 1..p : h[k].kind = "group" /\ h[k].group = g

\* The variables of group g in the first p lines.
Idx(h, g, p) == {i \in 1..p : h[i].kind = "var" /\ InSec(h, i, g)}

\* The variables on the lines of h.
LineVars(h) == [i \in Nat |-> h[i].var]

Rank(S, i) == Cardinality({j \in S : j <= i})

\* s lists what h has at the positions S in their order.
Lists(h, s, S) ==
    /\ s \in Seq(Var) /\ Len(s) = Cardinality(S)
    /\ \A i \in S : s[Rank(S, i)] = h[i]
    /\ \A n \in 1..Cardinality(S) : \E i \in S : Rank(S, i) = n

\* A line that names no group is in the section of the line before.
LEMMA SecSame ==
    ASSUME NEW h, NEW g, NEW p \in Nat, h[p + 1].kind # "group"
    PROVE  InSec(h, p + 1, g) <=> InSec(h, p, g)
<1>1. ASSUME InSec(h, p + 1, g)
      PROVE  InSec(h, p, g)
  <2>1. PICK k \in 1..(p + 1) : /\ h[k].kind = "group" /\ h[k].group = g
                                /\ \A j \in (k + 1)..(p + 1) : h[j].kind # "group"
    BY <1>1 DEF InSec
  <2>2. k # p + 1
    BY <2>1
  <2>3. k \in 1..p /\ \A j \in (k + 1)..p : j \in (k + 1)..(p + 1)
    BY <2>2
  <2> QED
    BY <2>1, <2>3 DEF InSec
<1>2. ASSUME InSec(h, p, g)
      PROVE  InSec(h, p + 1, g)
  <2>1. PICK k \in 1..p : /\ h[k].kind = "group" /\ h[k].group = g
                          /\ \A j \in (k + 1)..p : h[j].kind # "group"
    BY <1>2 DEF InSec
  <2>2. k \in 1..(p + 1) /\ \A j \in (k + 1)..(p + 1) : j \in (k + 1)..p \/ j = p + 1
    OBVIOUS
  <2> QED
    BY <2>1, <2>2 DEF InSec
<1> QED
  BY <1>1, <1>2

\* A line that names a group begins its section.
LEMMA SecBegins ==
    ASSUME NEW h, NEW g, NEW p \in Nat, h[p + 1].kind = "group"
    PROVE  InSec(h, p + 1, g) <=> h[p + 1].group = g
<1>1. ASSUME InSec(h, p + 1, g)
      PROVE  h[p + 1].group = g
  <2>1. PICK k \in 1..(p + 1) : /\ h[k].kind = "group" /\ h[k].group = g
                                /\ \A j \in (k + 1)..(p + 1) : h[j].kind # "group"
    BY <1>1 DEF InSec
  <2>2. CASE k = p + 1
    BY <2>1, <2>2
  <2>3. CASE k # p + 1
    <3>1. p + 1 \in (k + 1)..(p + 1)
      BY <2>3
    <3> QED
      BY <2>1, <3>1
  <2> QED
    BY <2>2, <2>3
<1>2. ASSUME h[p + 1].group = g
      PROVE  InSec(h, p + 1, g)
  <2>1. p + 1 \in 1..(p + 1) /\ \A j \in ((p + 1) + 1)..(p + 1) : FALSE
    OBVIOUS
  <2> QED
    BY <1>2, <2>1 DEF InSec
<1> QED
  BY <1>1, <1>2

\* No line is in two sections.
LEMMA SecOne ==
    ASSUME NEW h, NEW p \in Nat, NEW f, NEW g, InSec(h, p, f), InSec(h, p, g)
    PROVE  f = g
<1>1. PICK k \in 1..p : /\ h[k].kind = "group" /\ h[k].group = f
                        /\ \A j \in (k + 1)..p : h[j].kind # "group"
  BY DEF InSec
<1>2. PICK m \in 1..p : /\ h[m].kind = "group" /\ h[m].group = g
                        /\ \A j \in (m + 1)..p : h[j].kind # "group"
  BY DEF InSec
<1>3. ~(k < m) /\ ~(m < k)
  <2>1. k < m => m \in (k + 1)..p
    OBVIOUS
  <2>2. m < k => k \in (m + 1)..p
    OBVIOUS
  <2> QED
    BY <1>1, <1>2, <2>1, <2>2
<1>4. k = m
  BY <1>3
<1> QED
  BY <1>1, <1>2, <1>4

LEMMA NamedStep ==
    ASSUME NEW h, NEW g, NEW p \in Nat
    PROVE  Named(h, g, p + 1) <=>
              Named(h, g, p) \/ (h[p + 1].kind = "group" /\ h[p + 1].group = g)
<1>1. \A k \in 1..(p + 1) : k \in 1..p \/ k = p + 1
  OBVIOUS
<1>2. p + 1 \in 1..(p + 1) /\ \A k \in 1..p : k \in 1..(p + 1)
  OBVIOUS
<1> QED
  BY <1>1, <1>2 DEF Named

LEMMA IdxFinite ==
    ASSUME NEW h, NEW g, NEW p \in Nat
    PROVE  /\ IsFiniteSet(Idx(h, g, p)) /\ p + 1 \notin Idx(h, g, p)
           /\ \A i \in Idx(h, g, p) : i \in Nat /\ i <= p
           /\ ~Named(h, g, p) => Idx(h, g, p) = {}
<1>1. Idx(h, g, p) \in SUBSET (1..p) /\ IsFiniteSet(1..p)
  BY FS_Interval DEF Idx
<1>2. IsFiniteSet(Idx(h, g, p))
  BY <1>1, FS_Subset
<1>3. ASSUME NEW i \in Idx(h, g, p)
      PROVE  Named(h, g, p)
  <2>1. i \in 1..p /\ InSec(h, i, g)
    BY <1>3 DEF Idx
  <2>2. PICK k \in 1..i : h[k].kind = "group" /\ h[k].group = g
    BY <2>1 DEF InSec
  <2>3. k \in 1..p
    BY <2>1
  <2> QED
    BY <2>2, <2>3 DEF Named
<1>4. p + 1 \notin 1..p /\ \A i \in 1..p : i \in Nat /\ i <= p
  OBVIOUS
<1> QED
  BY <1>1, <1>2, <1>3, <1>4

LEMMA IdxStep ==
    ASSUME NEW h, NEW g, NEW p \in Nat
    PROVE  /\ h[p + 1].kind = "var" /\ InSec(h, p, g) => Idx(h, g, p + 1) = Idx(h, g, p) \cup {p + 1}
           /\ ~(h[p + 1].kind = "var" /\ InSec(h, p, g)) => Idx(h, g, p + 1) = Idx(h, g, p)
<1>1. \A i : i \in 1..(p + 1) <=> i \in 1..p \/ i = p + 1
  OBVIOUS
<1>2. h[p + 1].kind = "var" => (InSec(h, p + 1, g) <=> InSec(h, p, g))
  BY SecSame
<1>3. \A i : i \in Idx(h, g, p + 1) <=>
             i \in Idx(h, g, p) \/ (i = p + 1 /\ h[p + 1].kind = "var" /\ InSec(h, p, g))
  BY <1>1, <1>2 DEF Idx
<1> QED
  BY <1>3

\* One more at the end.
LEMMA ListsMore ==
    ASSUME NEW h, NEW s, NEW S, NEW q \in Nat, IsFiniteSet(S), \A i \in S : i \in Nat /\ i < q,
           Lists(h, s, S), h[q] \in Var
    PROVE  Lists(h, Append(s, h[q]), S \cup {q})
<1> DEFINE T == S \cup {q}
           v == h[q]
           c == Cardinality(S)
<1>1. c \in Nat /\ Cardinality(T) = c + 1 /\ q \notin S
  BY FS_CardinalityType, FS_AddElement
<1>2. ASSUME NEW i \in S
      PROVE  Rank(T, i) = Rank(S, i) /\ Rank(S, i) \in 1..c
  <2>1. {j \in T : j <= i} = {j \in S : j <= i}
    <3>1. ~(q <= i)
      OBVIOUS
    <3> QED
      BY <3>1
  <2>2. {j \in S : j <= i} \in SUBSET S /\ i \in {j \in S : j <= i}
    OBVIOUS
  <2>3. IsFiniteSet({j \in S : j <= i}) /\ Cardinality({j \in S : j <= i}) <= c
    BY <2>2, FS_Subset
  <2>4. Cardinality({j \in S : j <= i}) \in Nat /\ Cardinality({j \in S : j <= i}) # 0
    BY <2>2, <2>3, FS_CardinalityType, FS_EmptySet
  <2>5. Rank(T, i) = Rank(S, i)
    BY <2>1 DEF Rank
  <2>6. Rank(S, i) = Cardinality({j \in S : j <= i})
    BY DEF Rank
  <2> HIDE DEF T, c
  <2>7. Rank(S, i) \in 1..c
    BY <1>1, <2>3, <2>4, <2>6
  <2> QED
    BY <2>5, <2>7
<1>3. Rank(T, q) = c + 1
  <2>1. {j \in T : j <= q} = T
    OBVIOUS
  <2> QED
    BY <1>1, <2>1 DEF Rank
<1>4. s \in Seq(Var) /\ Len(s) = c
  BY DEF Lists
<1> HIDE DEF T, v, c
<1> DEFINE t == Append(s, v)
<1>5. t \in Seq(Var) /\ Len(t) = c + 1 /\ t[c + 1] = v /\ \A n \in 1..c : t[n] = s[n]
  BY <1>4, AppendProperties DEF v
<1> HIDE DEF t
<1>6. ASSUME NEW i \in T
      PROVE  t[Rank(T, i)] = h[i]
  <2>1. CASE i \in S
    BY <1>2, <1>5, <2>1 DEF Lists
  <2>2. CASE i = q
    BY <1>3, <1>5, <2>2 DEF v
  <2> QED
    BY <2>1, <2>2 DEF T
<1>7. ASSUME NEW n \in 1..(c + 1)
      PROVE  \E i \in T : Rank(T, i) = n
  <2>1. CASE n \in 1..c
    <3>1. PICK i \in S : Rank(S, i) = n
      BY <2>1 DEF Lists, c
    <3> QED
      BY <1>2, <3>1 DEF T
  <2>2. CASE n = c + 1
    BY <1>3, <2>2 DEF T
  <2> QED
    BY <1>1, <2>1, <2>2
<1>8. Lists(h, t, T)
  BY <1>1, <1>5, <1>6, <1>7 DEF Lists
<1> QED
  BY <1>8 DEF t, T, v

\* The empty list.
LEMMA ListsNone ==
    ASSUME NEW h
    PROVE  Lists(h, <<>>, {})
<1>1. Cardinality({}) = 0
  BY FS_EmptySet
<1> QED
  BY <1>1 DEF Lists

\* A list of what s has at the positions S is that part of s.
LEMMA ListsIsSublist ==
    ASSUME NEW s, NEW t, NEW S, Lists(s, t, S)
    PROVE  t = Sublist(s, S)
<1> DEFINE f == [n \in 1..Cardinality(S) |->
                    s[CHOOSE i \in S : Cardinality({j \in S : j <= i}) = n]]
<1>1. t \in Seq(Var) /\ Len(t) = Cardinality(S)
  BY DEF Lists
<1>2. ASSUME NEW n \in 1..Cardinality(S)
      PROVE  t[n] = f[n]
  <2> DEFINE i == CHOOSE i \in S : Cardinality({j \in S : j <= i}) = n
  <2>1. \E k \in S : Cardinality({j \in S : j <= k}) = n
    BY DEF Lists, Rank
  <2>2. i \in S /\ Cardinality({j \in S : j <= i}) = n
    BY <2>1
  <2>3. f[n] = s[i]
    OBVIOUS
  <2> HIDE DEF i
  <2>4. t[n] = s[i]
    BY <2>2 DEF Lists, Rank
  <2> QED
    BY <2>3, <2>4
<1>3. t = f
  <2>1. /\ DOMAIN t = 1..Cardinality(S) /\ t = [n \in DOMAIN t |-> t[n]]
        /\ DOMAIN f = 1..Cardinality(S) /\ f = [n \in DOMAIN f |-> f[n]]
    BY <1>1
  <2> HIDE DEF f
  <2> QED
    BY <1>2, <2>1
<1> QED
  BY <1>3 DEF Sublist

\* A list of all the variables of a section is the section.
LEMMA ListsIsSection ==
    ASSUME header \in Seq(Line), NEW g, NEW s,
           Lists(LineVars(header), s, Idx(header, g, Len(header)))
    PROVE  s = SectionOf(g)
<1> DEFINE S == {i \in DOMAIN header : header[i].kind = "var" /\ InSection(i, g)}
           h == [i \in DOMAIN header |-> header[i].var]
<1>1. S = Idx(header, g, Len(header))
  BY DEF Idx, InSection, InSec
<1>2. \A i \in S : h[i] = LineVars(header)[i]
  BY DEF LineVars
<1>3. SectionOf(g) = Sublist(h, S)
  BY DEF SectionOf
<1> HIDE DEF S, h
<1>4. Lists(h, s, S)
  BY <1>1, <1>2 DEF Lists
<1> QED
  BY <1>3, <1>4, ListsIsSublist

-----------------------------------------------------------------------------
(* The sections that were parsed *)

\* After p lines the group x of the heap hp is section g of h, as far as it was read.
Filled(h, g, hp, x, p) ==
    /\ x # 0 <=> Named(h, g, p)
    /\ x # 0 => Lists(LineVars(h), hp[x].vars, Idx(h, g, p))

\* Lines are added to x while they are in section g.
Current(h, g, x, p, cur) == InSec(h, p, g) <=> x # 0 /\ cur = x

AgentSections ==
    /\ HeaderOk(header)
    /\ InUse =>
          /\ Filled(header, "spec", heap, spec, apos - 1)
          /\ Filled(header, "read", heap, read, apos - 1)
          /\ spec # 0 => spec # read
    /\ apc = "parse" =>
          /\ curr \in {0, spec, read}
          /\ Current(header, "spec", spec, apos - 1, curr)
          /\ Current(header, "read", read, apos - 1, curr)
    /\ apc = "attached" => apos = Len(header) + 1

LogSections ==
    /\ HeaderOk(header)
    /\ lpc # "failed" => Lists(LineVars(header), lvars, Idx(header, "read", lpos - 1))
    /\ lpc = "parse" /\ (\E k \in 1..(lpos - 1) : header[k].kind = "group") =>
          (lgroup = "read" <=> InSec(header, lpos - 1, "read"))
    /\ lpc = "open" => lpos = Len(header) + 1

\* A line that names g when none has so far: a group without variables.
LEMMA FilledNew ==
    ASSUME NEW h, NEW g, NEW hp, NEW x, NEW p \in Nat,
           h[p + 1].kind = "group", h[p + 1].group = g, ~Named(h, g, p), x # 0, hp[x].vars = <<>>
    PROVE  Filled(h, g, hp, x, p + 1) /\ Current(h, g, x, p + 1, x)
<1>1. Idx(h, g, p) = {} /\ Idx(h, g, p + 1) = Idx(h, g, p)
  BY IdxFinite, IdxStep
<1>2. Named(h, g, p + 1) /\ InSec(h, p + 1, g)
  BY NamedStep, SecBegins
<1> QED
  BY <1>1, <1>2, ListsNone DEF Filled, Current

\* A line that names another group.
LEMMA FilledOther ==
    ASSUME NEW h, NEW g, NEW hp, NEW hq, NEW x, NEW c, NEW p \in Nat, Filled(h, g, hp, x, p),
           h[p + 1].kind = "group", h[p + 1].group # g, x # 0 => hq[x].vars = hp[x].vars /\ c # x
    PROVE  Filled(h, g, hq, x, p + 1) /\ Current(h, g, x, p + 1, c)
<1>1. Idx(h, g, p + 1) = Idx(h, g, p) /\ ~InSec(h, p + 1, g)
  BY IdxStep, SecBegins
<1>2. Named(h, g, p + 1) <=> Named(h, g, p)
  BY NamedStep
<1> QED
  BY <1>1, <1>2 DEF Filled, Current

\* A line that names no group and is no variable of this one.
LEMMA FilledSame ==
    ASSUME NEW h, NEW g, NEW hp, NEW hq, NEW x, NEW c, NEW p \in Nat, Filled(h, g, hp, x, p),
           Current(h, g, x, p, c), h[p + 1].kind # "group",
           h[p + 1].kind = "var" => ~InSec(h, p, g), x # 0 => hq[x].vars = hp[x].vars
    PROVE  Filled(h, g, hq, x, p + 1) /\ Current(h, g, x, p + 1, c)
<1>1. Idx(h, g, p + 1) = Idx(h, g, p) /\ (InSec(h, p + 1, g) <=> InSec(h, p, g))
  BY IdxStep, SecSame
<1>2. Named(h, g, p + 1) <=> Named(h, g, p)
  BY NamedStep
<1> QED
  BY <1>1, <1>2 DEF Filled, Current

\* A variable of this group.
LEMMA FilledMore ==
    ASSUME NEW h, NEW g, NEW hp, NEW hq, NEW x, NEW c, NEW p \in Nat, Filled(h, g, hp, x, p),
           Current(h, g, x, p, c), h[p + 1].kind = "var", h[p + 1].var \in Var,
           InSec(h, p, g), hq[x].vars = Append(hp[x].vars, h[p + 1].var)
    PROVE  Filled(h, g, hq, x, p + 1) /\ Current(h, g, x, p + 1, c)
<1> DEFINE S == Idx(h, g, p)
           q == p + 1
<1>1. x # 0 /\ Lists(LineVars(h), hp[x].vars, S)
  BY DEF Filled, Current
<1>2. Idx(h, g, p + 1) = S \cup {q} /\ (InSec(h, p + 1, g) <=> InSec(h, p, g))
  BY IdxStep, SecSame
<1>3. Named(h, g, p + 1) <=> Named(h, g, p)
  BY NamedStep
<1>4. q \in Nat /\ IsFiniteSet(S) /\ \A i \in S : i \in Nat /\ i < q
  BY IdxFinite
<1>5. LineVars(h)[q] = h[q].var /\ h[q].var \in Var
  BY <1>4 DEF LineVars
<1>6. Lists(LineVars(h), Append(hp[x].vars, h[q].var), S \cup {q})
  <2> HIDE DEF S, q
  <2> QED
    BY <1>1, <1>4, <1>5, ListsMore
<1> QED
  BY <1>1, <1>2, <1>3, <1>6 DEF Filled, Current

\* No group is named twice.
LEMMA NamedOnce ==
    ASSUME header \in Seq(Line), HeaderOk(header), NEW p \in Nat, p + 1 \in 1..Len(header),
           header[p + 1].kind = "group"
    PROVE  ~Named(header, header[p + 1].group, p)
<1> SUFFICES ASSUME NEW k \in 1..p, header[k].kind = "group", header[k].group = header[p + 1].group
             PROVE  FALSE
  BY DEF Named
<1>1. k \in DOMAIN header /\ p + 1 \in DOMAIN header /\ k # p + 1
  OBVIOUS
<1> QED
  BY <1>1 DEF HeaderOk

LEMMA ParsePlace ==
    ASSUME HInv, apc = "parse"
    PROVE  /\ apos - 1 \in Nat /\ apos = (apos - 1) + 1 /\ header \in Seq(Line)
           /\ apos <= Len(header) => apos \in 1..Len(header)
           /\ \A g \in {spec, read} : g # 0 => g \in DOMAIN heap
           /\ Len(heap) \in Nat
BY Lengths DEF HInv, TypeOK

LEMMA ParseGroupSections ==
    ASSUME HInv, AgentSections, ParseGroup
    PROVE  AgentSections'
<1> DEFINE p == apos - 1
           y == Len(heap')
           g == header[apos].group
<1>1. /\ p \in Nat /\ apos = p + 1 /\ header \in Seq(Line) /\ apos \in 1..Len(header)
      /\ Len(heap) \in Nat /\ spec \in 0..Len(heap) /\ read \in 0..Len(heap)
  BY ParsePlace DEF HInv, TypeOK, ParseGroup, AtLine
<1>2. /\ y = Len(heap) + 1 /\ heap'[y].vars = <<>>
      /\ \A x \in DOMAIN heap : heap'[x] = heap[x]
  BY NewGroupKeeps DEF ParseGroup, NewGroup
<1>3. /\ y # 0 /\ y # spec /\ y # read
      /\ spec # 0 => heap'[spec].vars = heap[spec].vars
      /\ read # 0 => heap'[read].vars = heap[read].vars
  <2>1. DOMAIN heap = 1..Len(heap)
    BY DEF HInv, TypeOK
  <2> QED
    BY <1>1, <1>2, <2>1
<1>4. /\ apc = "parse" /\ header[apos].kind = "group" /\ g \in {"spec", "read"}
      /\ UNCHANGED <<header, apc>> /\ curr' = y /\ apos' = apos + 1
      /\ spec' = IF g = "spec" THEN y ELSE spec
      /\ read' = IF g = "read" THEN y ELSE read
  BY DEF ParseGroup, AtLine
<1>5. /\ HeaderOk(header) /\ Filled(header, "spec", heap, spec, p)
      /\ Filled(header, "read", heap, read, p) /\ (spec # 0 => spec # read)
  BY <1>4 DEF AgentSections, InUse
<1>6. ~Named(header, g, p) /\ apos' - 1 = p + 1
  BY <1>1, <1>4, <1>5, NamedOnce
<1> HIDE DEF p, y, g
<1>7. header[p + 1].kind = "group" /\ header[p + 1].group = g
  BY <1>1, <1>4 DEF g
<1>8. CASE g = "spec"
  <2>1. spec' = y /\ read' = read
    BY <1>4, <1>8
  <2>2. Filled(header, "spec", heap', y, p + 1) /\ Current(header, "spec", y, p + 1, y)
    BY <1>1, <1>2, <1>3, <1>6, <1>7, <1>8, FilledNew
  <2>3. Filled(header, "read", heap', read, p + 1) /\ Current(header, "read", read, p + 1, y)
    BY <1>1, <1>3, <1>5, <1>7, <1>8, FilledOther
  <2> QED
    BY <1>3, <1>4, <1>5, <1>6, <2>1, <2>2, <2>3 DEF AgentSections
<1>9. CASE g = "read"
  <2>1. spec' = spec /\ read' = y
    BY <1>4, <1>9
  <2>2. Filled(header, "read", heap', y, p + 1) /\ Current(header, "read", y, p + 1, y)
    BY <1>1, <1>2, <1>3, <1>6, <1>7, <1>9, FilledNew
  <2>3. Filled(header, "spec", heap', spec, p + 1) /\ Current(header, "spec", spec, p + 1, y)
    BY <1>1, <1>3, <1>5, <1>7, <1>9, FilledOther
  <2> QED
    BY <1>3, <1>4, <1>5, <1>6, <2>1, <2>2, <2>3 DEF AgentSections
<1> QED
  BY <1>4, <1>8, <1>9

LEMMA ParseOtherGroupSections ==
    ASSUME HInv, AgentSections, ParseOtherGroup
    PROVE  AgentSections'
<1> DEFINE p == apos - 1
<1>1. /\ p \in Nat /\ apos = p + 1 /\ DOMAIN heap = 1..Len(heap)
      /\ Len(heap) \in Nat /\ spec \in 0..Len(heap) /\ read \in 0..Len(heap)
  BY ParsePlace DEF HInv, TypeOK, ParseOtherGroup, AtLine
<1>2. \A x \in DOMAIN heap : heap'[x] = heap[x]
  BY NewGroupKeeps DEF ParseOtherGroup
<1>3. /\ spec # 0 => heap'[spec].vars = heap[spec].vars
      /\ read # 0 => heap'[read].vars = heap[read].vars
  BY <1>1, <1>2
<1>4. /\ apc = "parse" /\ header[p + 1].kind = "group"
      /\ header[p + 1].group # "spec" /\ header[p + 1].group # "read"
      /\ UNCHANGED <<header, apc, spec, read>> /\ curr' = 0 /\ apos' - 1 = p + 1
  BY <1>1 DEF ParseOtherGroup, AtLine
<1>5. /\ HeaderOk(header) /\ Filled(header, "spec", heap, spec, p)
      /\ Filled(header, "read", heap, read, p) /\ (spec # 0 => spec # read)
  BY <1>4 DEF AgentSections, InUse
<1> HIDE DEF p
<1>6. Filled(header, "spec", heap', spec, p + 1) /\ Current(header, "spec", spec, p + 1, 0)
  BY <1>1, <1>3, <1>4, <1>5, FilledOther
<1>7. Filled(header, "read", heap', read, p + 1) /\ Current(header, "read", read, p + 1, 0)
  BY <1>1, <1>3, <1>4, <1>5, FilledOther
<1> QED
  BY <1>4, <1>5, <1>6, <1>7 DEF AgentSections

\* Lines that go to no group.
LEMMA ParseSameSections ==
    ASSUME HInv, AgentSections, ParseBlank \/ ParseBadIgnored \/ (ParseVar /\ curr = 0)
    PROVE  AgentSections'
<1> DEFINE p == apos - 1
<1>1. p \in Nat /\ apos = p + 1
  BY ParsePlace DEF ParseBlank, ParseBadIgnored, ParseVar, AtLine
<1>2. /\ apc = "parse" /\ header[p + 1].kind \in {"blank", "bad", "var"}
      /\ header[p + 1].kind = "var" => curr = 0
      /\ UNCHANGED <<header, apc, heap, spec, read, curr>> /\ apos' - 1 = p + 1
  BY <1>1 DEF ParseBlank, ParseBadIgnored, ParseVar, AtLine
<1>3. /\ HeaderOk(header) /\ Filled(header, "spec", heap, spec, p)
      /\ Filled(header, "read", heap, read, p) /\ (spec # 0 => spec # read)
      /\ Current(header, "spec", spec, p, curr) /\ Current(header, "read", read, p, curr)
      /\ curr \in {0, spec, read}
  BY <1>2 DEF AgentSections, InUse
<1> HIDE DEF p
<1>4. header[p + 1].kind = "var" => ~InSec(header, p, "spec") /\ ~InSec(header, p, "read")
  BY <1>2, <1>3 DEF Current
<1>5. Filled(header, "spec", heap, spec, p + 1) /\ Current(header, "spec", spec, p + 1, curr)
  BY <1>1, <1>2, <1>3, <1>4, FilledSame
<1>6. Filled(header, "read", heap, read, p + 1) /\ Current(header, "read", read, p + 1, curr)
  BY <1>1, <1>2, <1>3, <1>4, FilledSame
<1> QED
  BY <1>2, <1>3, <1>5, <1>6 DEF AgentSections

LEMMA ParseVarSections ==
    ASSUME HInv, AgentSections, ParseVar, curr # 0
    PROVE  AgentSections'
<1> DEFINE p == apos - 1
           v == header[apos].var
<1>1. /\ p \in Nat /\ apos = p + 1 /\ apos \in 1..Len(header) /\ DOMAIN heap = 1..Len(heap)
      /\ Len(heap) \in Nat /\ spec \in 0..Len(heap) /\ read \in 0..Len(heap)
      /\ curr \in DOMAIN heap
  BY ParsePlace DEF HInv, TypeOK, ParseVar, AtLine
<1>2. v \in Var
  BY <1>1, LineFacts DEF ParseVar, AtLine, HInv, TypeOK
<1>3. heap'[curr].vars = Append(heap[curr].vars, v) /\ \A x \in DOMAIN heap : x # curr => heap'[x] = heap[x]
  <2>1. heap[curr] \in GroupType
    BY <1>1, GroupFacts DEF HInv
  <2> QED
    BY <1>1, <2>1 DEF ParseVar, GroupType
<1>4. /\ apc = "parse" /\ header[p + 1].kind = "var" /\ header[p + 1].var = v
      /\ UNCHANGED <<header, apc, spec, read, curr>> /\ apos' - 1 = p + 1
  BY <1>1 DEF ParseVar, AtLine
<1>5. /\ HeaderOk(header) /\ Filled(header, "spec", heap, spec, p)
      /\ Filled(header, "read", heap, read, p) /\ (spec # 0 => spec # read)
      /\ Current(header, "spec", spec, p, curr) /\ Current(header, "read", read, p, curr)
      /\ curr \in {0, spec, read}
  BY <1>4 DEF AgentSections, InUse
<1>6. /\ spec # 0 /\ curr # spec => heap'[spec].vars = heap[spec].vars
      /\ read # 0 /\ curr # read => heap'[read].vars = heap[read].vars
  BY <1>1, <1>3
<1> HIDE DEF p, v
<1>7. CASE curr = spec
  <2>1. InSec(header, p, "spec") /\ ~InSec(header, p, "read") /\ curr # read /\ spec # 0
    BY <1>5, <1>7 DEF Current
  <2>2. Filled(header, "spec", heap', spec, p + 1) /\ Current(header, "spec", spec, p + 1, curr)
    BY <1>1, <1>2, <1>3, <1>4, <1>5, <1>7, <2>1, FilledMore
  <2>3. Filled(header, "read", heap', read, p + 1) /\ Current(header, "read", read, p + 1, curr)
    BY <1>1, <1>4, <1>5, <1>6, <2>1, FilledSame
  <2> QED
    BY <1>4, <1>5, <2>2, <2>3 DEF AgentSections
<1>8. CASE curr = read
  <2>1. InSec(header, p, "read") /\ ~InSec(header, p, "spec") /\ (spec # 0 => curr # spec) /\ read # 0
    BY <1>5, <1>8 DEF Current
  <2>2. Filled(header, "read", heap', read, p + 1) /\ Current(header, "read", read, p + 1, curr)
    BY <1>1, <1>2, <1>3, <1>4, <1>5, <1>8, <2>1, FilledMore
  <2>3. Filled(header, "spec", heap', spec, p + 1) /\ Current(header, "spec", spec, p + 1, curr)
    BY <1>1, <1>4, <1>5, <1>6, <2>1, FilledSame
  <2> QED
    BY <1>4, <1>5, <2>2, <2>3 DEF AgentSections
<1> QED
  BY <1>5, <1>7, <1>8

\* Steps that read no line.
LEMMA OtherSections ==
    ASSUME HInv, AgentSections,
           \/ ParseGroupNoMemory \/ ParseFails \/ EndOfHeader \/ GetVarHead \/ FindVarNoGroup
           \/ VarNext \/ Detach \/ Log \/ UNCHANGED vars
    PROVE  AgentSections'
<1>1. CASE ParseGroupNoMemory \/ ParseFails \/ FindVarNoGroup \/ Detach
  BY <1>1 DEF AgentSections, InUse, ParseGroupNoMemory, ParseFails, FindVarNoGroup, Detach
<1>2. CASE EndOfHeader
  <2>1. apos = Len(header) + 1
    BY <1>2, Lengths DEF HInv, TypeOK, EndOfHeader
  <2> QED
    BY <1>2, <2>1 DEF AgentSections, InUse, EndOfHeader
<1>3. CASE GetVarHead
  BY <1>3 DEF AgentSections, InUse, GetVarHead
<1>4. CASE VarNext \/ Log \/ UNCHANGED vars
  <2>1. UNCHANGED <<header, agentVars>>
    BY <1>4 DEF VarNext, Log, LogBlank, LogGroup, LogSkip, LogVar, LogFails, LogUnreadable, LogEnd, vars
  <2> QED
    BY <2>1 DEF AgentSections, InUse, agentVars
<1> QED
  BY <1>1, <1>2, <1>3, <1>4

\* Steps of the log's parser.
LEMMA LogStepSections ==
    ASSUME HInv, LogSections, Log
    PROVE  LogSections'
<1> DEFINE p == lpos - 1
<1>0. header' = header
  BY DEF Log, LogBlank, LogGroup, LogSkip, LogVar, LogFails, LogUnreadable, LogEnd
<1>1. p \in Nat /\ lpos = p + 1 /\ header \in Seq(Line) /\ lpc = "parse" /\ HeaderOk(header)
      /\ lpos \in 1..(Len(header) + 1) /\ Len(header) \in Nat
  BY Lengths DEF HInv, TypeOK, LogSections, Log, LogBlank, LogGroup, LogSkip, LogVar, LogFails,
                 LogUnreadable, LogEnd, LogAt
<1>2. Lists(LineVars(header), lvars, Idx(header, "read", p))
  BY <1>1 DEF LogSections
<1>3. (\E k \in 1..p : header[k].kind = "group") => (lgroup = "read" <=> InSec(header, p, "read"))
  BY <1>1 DEF LogSections
<1>4. \A k \in 1..(p + 1) : k \in 1..p \/ k = p + 1
  BY <1>1
<1>5. ASSUME header[p + 1].kind \in {"var", "bad"}, lpos \in DOMAIN header
      PROVE  \E k \in 1..p : header[k].kind = "group"
  BY <1>1, <1>5 DEF HeaderOk
<1> HIDE DEF p
<1>6. CASE LogBlank \/ LogSkip
  <2>1. /\ header[p + 1].kind \in {"blank", "var", "bad"} /\ lpos' - 1 = p + 1
        /\ lpos \in DOMAIN header /\ UNCHANGED <<lpc, lgroup, lvars>>
        /\ header[p + 1].kind \in {"var", "bad"} => lgroup # "read"
    BY <1>1, <1>6 DEF LogBlank, LogSkip, LogAt
  <2>2. header[p + 1].kind = "var" => ~InSec(header, p, "read")
    BY <1>3, <1>5, <2>1
  <2>3. Idx(header, "read", p + 1) = Idx(header, "read", p)
        /\ (InSec(header, p + 1, "read") <=> InSec(header, p, "read"))
    BY <1>1, <2>1, <2>2, IdxStep, SecSame
  <2>4. (\E k \in 1..(p + 1) : header[k].kind = "group") => \E k \in 1..p : header[k].kind = "group"
    BY <1>4, <2>1
  <2> QED
    BY <1>0, <1>1, <1>2, <1>3, <2>1, <2>3, <2>4 DEF LogSections
<1>7. CASE LogGroup
  <2>1. /\ header[p + 1].kind = "group" /\ lpos' - 1 = p + 1 /\ lgroup' = header[p + 1].group
        /\ UNCHANGED <<lpc, lvars>>
    BY <1>1, <1>7 DEF LogGroup, LogAt
  <2>2. Idx(header, "read", p + 1) = Idx(header, "read", p)
        /\ (InSec(header, p + 1, "read") <=> header[p + 1].group = "read")
    BY <1>1, <2>1, IdxStep, SecBegins
  <2> QED
    BY <1>0, <1>1, <1>2, <2>1, <2>2 DEF LogSections
<1>8. CASE LogVar
  <2>1. /\ header[p + 1].kind = "var" /\ lpos' - 1 = p + 1 /\ lgroup = "read"
        /\ lpos \in DOMAIN header /\ UNCHANGED <<lpc, lgroup>>
        /\ lvars' = Append(lvars, header[p + 1].var)
    BY <1>1, <1>8 DEF LogVar, LogAt
  <2>2. InSec(header, p, "read") /\ header[p + 1].var \in Var
    BY <1>1, <1>3, <1>5, <2>1, LineFacts
  <2>3. Idx(header, "read", p + 1) = Idx(header, "read", p) \cup {p + 1}
        /\ (InSec(header, p + 1, "read") <=> InSec(header, p, "read"))
    <3>1. p \in Nat /\ header[p + 1].kind = "var" /\ header[p + 1].kind # "group"
      BY <1>1, <2>1
    <3>2. InSec(header, p + 1, "read") <=> InSec(header, p, "read")
      BY <3>1, SecSame
    <3> QED
      BY <2>2, <3>1, <3>2, IdxStep
  <2>4. Lists(LineVars(header), lvars', Idx(header, "read", p + 1))
    <3> DEFINE S == Idx(header, "read", p)
               q == p + 1
    <3>1. q \in Nat /\ IsFiniteSet(S) /\ (\A i \in S : i \in Nat /\ i < q) /\ header[q].var \in Var
      BY <1>1, <2>2, IdxFinite
    <3>2. Lists(LineVars(header), lvars, S)
      BY <1>2
    <3>3. LineVars(header)[q] = header[q].var
      BY <3>1 DEF LineVars
    <3>4. Lists(LineVars(header), Append(lvars, header[q].var), S \cup {q})
      <4> HIDE DEF S, q
      <4> QED
        BY <3>1, <3>2, <3>3, ListsMore
    <3> QED
      BY <2>1, <2>3, <3>4
  <2> QED
    BY <1>0, <1>1, <2>1, <2>2, <2>3, <2>4 DEF LogSections
<1>9. CASE LogFails \/ LogUnreadable
  BY <1>0, <1>1, <1>9 DEF LogSections, LogFails, LogUnreadable
<1>10. CASE LogEnd
  <2>1. lpos = Len(header) + 1 /\ lpc' = "open" /\ UNCHANGED <<lpos, lvars>>
    BY <1>1, <1>10 DEF LogEnd
  <2> QED
    BY <1>0, <1>1, <1>2, <2>1 DEF LogSections, p
<1> QED
  BY <1>6, <1>7, <1>8, <1>9, <1>10 DEF Log

LEMMA LogStaysSections ==
    ASSUME LogSections, UNCHANGED <<header, logVars>>
    PROVE  LogSections'
BY DEF LogSections, logVars

Sections == HInv /\ AgentSections /\ LogSections

LEMMA SectionsInit == Init => Sections
<1> SUFFICES ASSUME Init
             PROVE  Sections
  OBVIOUS
<1>1. HeaderOk(header)
  BY HeaderAssumption DEF Init, HeaderAssumption
<1>2. \A g : ~Named(header, g, 0) /\ ~InSec(header, 0, g) /\ Idx(header, g, 0) = {}
  BY DEF Named, InSec, Idx
<1>3. apos - 1 = 0 /\ lpos - 1 = 0
  BY DEF Init
<1>4. AgentSections
  BY <1>1, <1>2, <1>3 DEF Init, AgentSections, Filled, Current
<1>5. LogSections
  <2>1. Lists(LineVars(header), <<>>, {})
    BY ListsNone
  <2>2. lvars = <<>> /\ lpc = "parse" /\ ~(\E k \in 1..(lpos - 1) : header[k].kind = "group")
    BY <1>3 DEF Init
  <2> QED
    BY <1>1, <1>2, <1>3, <2>1, <2>2 DEF LogSections
<1> QED
  BY <1>4, <1>5, InitHeader DEF Sections

LEMMA SectionsStep == Sections /\ [Next]_vars => Sections'
<1> SUFFICES ASSUME Sections, [Next]_vars
             PROVE  Sections'
  OBVIOUS
<1>1. HInv'
  BY ParseGroupKeeps, ParseOtherGroupKeeps, ParseVarKeeps, ParseQuietKeeps, GetVarHeadKeeps,
     FindVarKeeps, VarNextKeeps, DetachKeeps, LogKeeps, StutterKeeps DEF Next, Parse, Sections
<1>2. AgentSections'
  BY ParseGroupSections, ParseOtherGroupSections, ParseSameSections, ParseVarSections,
     OtherSections DEF Next, Parse, Sections
<1>3. LogSections'
  <2>1. CASE Log
    BY <2>1, LogStepSections DEF Sections
  <2>2. CASE ~Log
    <3>1. UNCHANGED <<header, logVars>>
      BY <2>2 DEF Next, Parse, ParseBlank, ParseGroup, ParseOtherGroup, ParseGroupNoMemory, ParseVar,
         ParseBadIgnored, ParseFails, EndOfHeader, GetVarHead, FindVarNoGroup, VarNext, Detach, vars
    <3> QED
      BY <3>1, LogStaysSections DEF Sections
  <2> QED
    BY <2>1, <2>2
<1> QED
  BY <1>1, <1>2, <1>3 DEF Sections

\* An agent that attached has a group for each section the header has, with the
\* variables of that section in its order, and none of another (agent.c:71-134).
THEOREM HeaderGroups == Spec => []GroupsAreSections
<1>1. Sections => GroupsAreSections
  <2> SUFFICES ASSUME Sections, apc = "attached"
               PROVE  /\ (spec # 0) = HasSection("spec") /\ (read # 0) = HasSection("read")
                      /\ spec # 0 => heap[spec].vars = SectionOf("spec")
                      /\ read # 0 => heap[read].vars = SectionOf("read")
    BY DEF GroupsAreSections
  <2>1. apos - 1 = Len(header) /\ header \in Seq(Line)
    BY Lengths DEF Sections, AgentSections, HInv, TypeOK
  <2>2. /\ Filled(header, "spec", heap, spec, Len(header))
        /\ Filled(header, "read", heap, read, Len(header))
    BY <2>1 DEF Sections, AgentSections, InUse
  <2>3. \A g : Named(header, g, Len(header)) <=> HasSection(g)
    BY <2>1 DEF Named, HasSection
  <2>4. HasSection("spec") \in BOOLEAN /\ HasSection("read") \in BOOLEAN
    BY DEF HasSection
  <2>5. (spec # 0) = HasSection("spec") /\ (read # 0) = HasSection("read")
    BY <2>2, <2>3, <2>4, Zenon DEF Filled
  <2>6. /\ spec # 0 => heap[spec].vars = SectionOf("spec")
        /\ read # 0 => heap[read].vars = SectionOf("read")
    BY <2>1, <2>2, ListsIsSection DEF Filled
  <2> QED
    BY <2>5, <2>6
<1> QED
  BY <1>1, SectionsInit, SectionsStep, PTL DEF Spec

\* The log's parser finds the variables of the header's read section.
THEOREM HeaderLogAgrees == Spec => []LogAgrees
<1>1. Sections => LogAgrees
  <2> SUFFICES ASSUME Sections, lpc = "open"
               PROVE  lvars = SectionOf("read")
    BY DEF LogAgrees
  <2>1. lpos - 1 = Len(header) /\ header \in Seq(Line)
    BY Lengths DEF Sections, LogSections, HInv, TypeOK
  <2>2. Lists(LineVars(header), lvars, Idx(header, "read", Len(header)))
    BY <2>1 DEF Sections, LogSections
  <2> QED
    BY <2>1, <2>2, ListsIsSection
<1> QED
  BY <1>1, SectionsInit, SectionsStep, PTL DEF Spec

-----------------------------------------------------------------------------
(* The walk *)

\* A set of naturals has a least element: of the intervals from 0 to one of them, one
\* has none strictly inside it.
LEMMA Least ==
    ASSUME NEW S \in SUBSET Nat, S # {}
    PROVE  \E m \in S : \A x \in S : m <= x
<1> DEFINE T == {0..x : x \in S}
           R == StrictSubsetOrdering(Nat)
<1>1. ASSUME NEW x \in S
      PROVE  0..x \in FiniteSubsetsOf(Nat)
  <2>1. x \in Int /\ 0 \in Int /\ 0..x \in SUBSET Nat
    OBVIOUS
  <2> QED
    BY <2>1, FS_Interval DEF FiniteSubsetsOf
<1>2. T \subseteq FiniteSubsetsOf(Nat) /\ T # {}
  BY <1>1
<1>3. IsWellFoundedOn(R, FiniteSubsetsOf(Nat))
  BY FS_StrictSubsetOrderingWellFounded
<1> HIDE DEF T, R
<1>4. PICK t \in T : \A y \in T : ~(<<y, t>> \in R)
  BY <1>2, <1>3, WFMin
<1>5. PICK m \in S : t = 0..m
  BY DEF T
<1>6. ASSUME NEW x \in S
      PROVE  ~(x < m)
  <2>1. 0..x \in T /\ ~(<<0..x, 0..m>> \in R)
    BY <1>4, <1>5 DEF T
  <2>2. ASSUME x < m
        PROVE  0..x \in SUBSET (0..m) /\ 0..x # 0..m /\ 0..m \in SUBSET Nat
    <3>1. m \in 0..m /\ m \notin 0..x /\ \A j \in 0..x : j \in 0..m
      BY <2>2
    <3> QED
      BY <3>1
  <2> QED
    BY <2>1, <2>2 DEF R, StrictSubsetOrdering
<1> QED
  BY <1>6

\* The variables of s that are not deprecated and come before w, all of them for 0.
Good(s, w) == {j \in DOMAIN s : ~s[j].dep /\ (w = 0 \/ j < w)}

\* The search stops at the first variable after i that is not deprecated, and at none
\* when there is none.
LEMMA NextIsFirst ==
    ASSUME NEW s \in Seq(Var), NEW i \in Nat
    PROVE  LET n == NextUndeprecated(s, i) IN
           /\ n # 0 => /\ n \in DOMAIN s /\ i < n /\ ~s[n].dep
                       /\ \A k \in (i + 1)..(n - 1) : s[k].dep
           /\ n = 0 => \A k \in DOMAIN s : i < k => s[k].dep
<1> DEFINE first == {j \in DOMAIN s : j > i /\ ~s[j].dep /\ \A k \in (i + 1)..(j - 1) : s[k].dep}
           n == NextUndeprecated(s, i)
           late == {j \in DOMAIN s : j > i /\ ~s[j].dep}
<1>1. DOMAIN s = 1..Len(s) /\ Len(s) \in Nat
  OBVIOUS
<1>2. n = IF first = {} THEN 0 ELSE CHOOSE j \in first : TRUE
  BY DEF NextUndeprecated
<1> HIDE DEF n
<1>3. first # {} => n \in first
  BY <1>2
<1>4. late # {} => first # {}
  <2>1. SUFFICES ASSUME late # {}
                 PROVE  first # {}
    OBVIOUS
  <2>2. late \in SUBSET Nat
    BY <1>1
  <2> HIDE DEF late
  <2>3. PICK m \in late : \A x \in late : m <= x
    BY <2>1, <2>2, Least
  <2>4. m \in Nat /\ m \in DOMAIN s /\ m > i /\ ~s[m].dep
    BY <2>2, <2>3 DEF late
  <2>5. ASSUME NEW k \in (i + 1)..(m - 1)
        PROVE  s[k].dep
    <3>1. k \in DOMAIN s /\ k > i /\ ~(m <= k)
      BY <1>1, <2>4
    <3>2. k \notin late
      BY <2>3, <3>1
    <3> QED
      BY <3>1, <3>2 DEF late
  <2>6. m \in first
    BY <2>4, <2>5
  <2> QED
    BY <2>6
<1>5. CASE first = {}
  <2>1. n = 0 /\ late = {}
    BY <1>2, <1>4, <1>5
  <2>2. \A k \in DOMAIN s : i < k => s[k].dep
    BY <1>1, <2>1
  <2> QED
    BY <2>1, <2>2 DEF n
<1>6. CASE first # {}
  <2>1. n \in first /\ n # 0
    BY <1>1, <1>3, <1>6
  <2>2. /\ n \in DOMAIN s /\ i < n /\ ~s[n].dep
        /\ \A k \in (i + 1)..(n - 1) : s[k].dep
    BY <1>1, <2>1
  <2> QED
    BY <2>1, <2>2 DEF n
<1> QED
  BY <1>5, <1>6

\* Before the first, none is good.
LEMMA GoodFirst ==
    ASSUME NEW s \in Seq(Var)
    PROVE  Good(s, NextUndeprecated(s, 0)) = {}
<1> DEFINE n == NextUndeprecated(s, 0)
<1>1. DOMAIN s = 1..Len(s) /\ Len(s) \in Nat
  OBVIOUS
<1>2. /\ n # 0 => n \in DOMAIN s /\ \A k \in 1..(n - 1) : s[k].dep
      /\ n = 0 => \A k \in DOMAIN s : 0 < k => s[k].dep
  BY NextIsFirst
<1> HIDE DEF n
<1>3. ASSUME NEW j \in DOMAIN s, ~s[j].dep, n = 0 \/ j < n
      PROVE  FALSE
  <2>1. CASE n = 0
    BY <1>1, <1>2, <1>3, <2>1
  <2>2. CASE n # 0
    <3>1. n \in Nat /\ j \in 1..(n - 1)
      BY <1>1, <1>2, <1>3, <2>2
    <3> QED
      BY <1>2, <1>3, <2>2, <3>1
  <2> QED
    BY <2>1, <2>2
<1> QED
  BY <1>3 DEF Good, n

\* A step of the walk makes one more good, the one it leaves.
LEMMA GoodNext ==
    ASSUME NEW s \in Seq(Var), NEW w \in DOMAIN s, ~s[w].dep
    PROVE  Good(s, NextUndeprecated(s, w)) = Good(s, w) \cup {w}
<1> DEFINE n == NextUndeprecated(s, w)
<1>1. DOMAIN s = 1..Len(s) /\ Len(s) \in Nat /\ w \in Nat /\ w # 0
  OBVIOUS
<1>2. /\ n # 0 => n \in DOMAIN s /\ w < n /\ \A k \in (w + 1)..(n - 1) : s[k].dep
      /\ n = 0 => \A k \in DOMAIN s : w < k => s[k].dep
  BY <1>1, NextIsFirst
<1> HIDE DEF n
<1>3. ASSUME NEW j \in DOMAIN s, ~s[j].dep
      PROVE  (n = 0 \/ j < n) <=> (j < w \/ j = w)
  <2>1. CASE n = 0
    <3>1. ~(w < j)
      BY <1>2, <1>3, <2>1
    <3> QED
      BY <1>1, <2>1, <3>1
  <2>2. CASE n # 0
    <3>1. n \in Nat /\ w < n /\ j \in Nat
      BY <1>1, <1>2, <2>2
    <3>2. ~(j \in (w + 1)..(n - 1))
      BY <1>2, <1>3, <2>2
    <3> QED
      BY <1>1, <2>2, <3>1, <3>2
  <2> QED
    BY <2>1, <2>2
<1>4. \A j : j \in Good(s, n) <=> j \in Good(s, w) \cup {w}
  BY <1>1, <1>3 DEF Good
<1> QED
  BY <1>4 DEF n

\* What the walk has had are the good ones before the one it is at, which is good too.
WalkAt ==
    /\ apc = "parse" => visited = <<>>
    /\ apc = "attached" /\ (walk # 0 \/ visited # <<>>) =>
          /\ read # 0 /\ Lists(heap[read].vars, visited, Good(heap[read].vars, walk))
          /\ walk # 0 => ~heap[read].vars[walk].dep

Walking == HInv /\ WalkAt

LEMMA GetVarHeadWalk ==
    ASSUME HInv, WalkAt, GetVarHead
    PROVE  WalkAt'
<1>1. read \in DOMAIN heap /\ heap[read].vars \in Seq(Var)
  BY GroupFacts DEF HInv, GroupsInUse, InUse, Alive, GetVarHead
<1>2. CASE heap[read].vars = <<>>
  BY <1>2 DEF GetVarHead, WalkAt
<1>3. CASE heap[read].vars # <<>>
  <2> DEFINE s == heap[read].vars
  <2>1. /\ walk' = NextUndeprecated(s, 0) /\ visited' = <<>> /\ apc' = "attached"
        /\ read # 0 /\ UNCHANGED <<heap, read>>
    BY <1>3 DEF GetVarHead
  <2>2. Good(s, walk') = {} /\ (walk' # 0 => ~s[walk'].dep)
    BY <1>1, <2>1, GoodFirst, NextIsFirst
  <2>3. Lists(s, <<>>, {})
    BY ListsNone
  <2> QED
    BY <2>1, <2>2, <2>3 DEF WalkAt
<1> QED
  BY <1>2, <1>3

LEMMA VarNextWalk ==
    ASSUME HInv, WalkAt, VarNext
    PROVE  WalkAt'
<1> DEFINE s == heap[read].vars
<1>1. /\ read # 0 /\ walk # 0 /\ walk \in DOMAIN s /\ ~s[walk].dep /\ apc = "attached"
      /\ Lists(s, visited, Good(s, walk))
  BY DEF HInv, WalkInGroup, WalkAt, VarNext
<1>2. s \in Seq(Var)
  BY <1>1, GroupFacts DEF HInv, GroupsInUse, InUse, Alive
<1>3. /\ visited' = Append(visited, s[walk]) /\ walk' = NextUndeprecated(s, walk)
      /\ UNCHANGED <<apc, heap, read>>
  BY DEF VarNext, agentVars
<1> HIDE DEF s
<1>4. DOMAIN s = 1..Len(s) /\ Len(s) \in Nat /\ walk \in Nat /\ s[walk] \in Var
  BY <1>1, <1>2
<1>5. Good(s, walk') = Good(s, walk) \cup {walk} /\ (walk' # 0 => ~s[walk'].dep)
  BY <1>1, <1>2, <1>3, <1>4, GoodNext, NextIsFirst
<1>6. IsFiniteSet(Good(s, walk)) /\ \A i \in Good(s, walk) : i \in Nat /\ i < walk
  <2>1. Good(s, walk) \in SUBSET (1..Len(s)) /\ IsFiniteSet(1..Len(s))
    BY <1>4, FS_Interval DEF Good
  <2>2. \A i \in Good(s, walk) : i \in Nat /\ i < walk
    BY <1>1, <1>4 DEF Good
  <2> QED
    BY <2>1, <2>2, FS_Subset
<1>7. Lists(s, Append(visited, s[walk]), Good(s, walk) \cup {walk})
  BY <1>1, <1>4, <1>6, ListsMore
<1>8. s = heap'[read'].vars
  BY <1>3 DEF s
<1> QED
  BY <1>1, <1>3, <1>5, <1>7, <1>8 DEF WalkAt

\* While it parses the agent walks over nothing.
LEMMA OtherWalk ==
    ASSUME HInv, WalkAt,
           Parse \/ FindVarNoGroup \/ Detach \/ Log \/ UNCHANGED vars
    PROVE  WalkAt'
<1>1. CASE Parse
  <2>1. /\ apc = "parse" /\ UNCHANGED <<walk, visited>>
    BY <1>1 DEF Parse, ParseBlank, ParseGroup, ParseOtherGroup, ParseGroupNoMemory, ParseVar,
       ParseBadIgnored, ParseFails, EndOfHeader, AtLine, walkVars
  <2>2. walk = 0 /\ visited = <<>>
    BY <2>1 DEF HInv, WalkInGroup, WalkAt
  <2> QED
    BY <2>1, <2>2 DEF WalkAt
<1>2. CASE FindVarNoGroup \/ Detach
  <2>1. apc' \in {"dead", "detached"}
    BY <1>2 DEF FindVarNoGroup, Detach
  <2> QED
    BY <2>1 DEF WalkAt
<1>3. CASE Log \/ UNCHANGED vars
  <2>1. UNCHANGED <<agentVars, walkVars>>
    BY <1>3 DEF Log, LogBlank, LogGroup, LogSkip, LogVar, LogFails, LogUnreadable, LogEnd, vars
  <2> QED
    BY <2>1 DEF WalkAt, agentVars, walkVars
<1> QED
  BY <1>1, <1>2, <1>3

LEMMA WalkingInit == Init => Walking
<1>1. Init => WalkAt
  BY DEF Init, WalkAt
<1> QED
  BY <1>1, InitHeader DEF Walking

LEMMA WalkingStep == Walking /\ [Next]_vars => Walking'
<1> SUFFICES ASSUME Walking, [Next]_vars
             PROVE  Walking'
  OBVIOUS
<1>1. HInv'
  BY ParseGroupKeeps, ParseOtherGroupKeeps, ParseVarKeeps, ParseQuietKeeps, GetVarHeadKeeps,
     FindVarKeeps, VarNextKeeps, DetachKeeps, LogKeeps, StutterKeeps DEF Next, Parse, Walking
<1>2. WalkAt'
  BY GetVarHeadWalk, VarNextWalk, OtherWalk DEF Next, Walking
<1> QED
  BY <1>1, <1>2 DEF Walking

\* A walk gives the variables that are not deprecated, each once and in order, and all
\* of them when it ends (group.c:57-73, var.c:34-66).
THEOREM HeaderWalk == Spec => []WalkSkipsDeprecated
<1>1. Walking => WalkSkipsDeprecated
  <2> SUFFICES ASSUME Walking, apc = "attached", walk # 0 \/ visited # <<>>
               PROVE  visited = Sublist(heap[read].vars, Good(heap[read].vars, walk))
    BY DEF WalkSkipsDeprecated, Good
  <2>1. Lists(heap[read].vars, visited, Good(heap[read].vars, walk))
    BY DEF Walking, WalkAt
  <2> QED
    BY <2>1, ListsIsSublist
<1> QED
  BY <1>1, WalkingInit, WalkingStep, PTL DEF Spec
=============================================================================
