------------------------- MODULE EstatsAgentProofs -------------------------
(***************************************************************************)
(* Theorems about EstatsAgent, for any cids, connections, blocks, address  *)
(* lengths and descriptor limit: its records and its list, and then the    *)
(* answers of its lookups.  Every lookup implements ConnLookup, a lookup   *)
(* by spec finds its own connection when strcmp tells the connections      *)
(* apart, and only failing calls leak.                                     *)
(***************************************************************************)
EXTENDS EstatsAgent, TLAPS, FiniteSetTheorems, SequenceTheorems

\* The library's assumptions, as one fact to cite.
LEMMA Constants ==
    /\ Cid \cap Plain = {} /\ NoSpec \notin Specs
    /\ NoCid \notin Cid /\ Null \notin Block
    /\ Specs \subseteq SpecType /\ Fam \in [Specs -> {"v4", "v6"}]
    /\ FdMax \in Nat
    /\ AddrLen \in Nat /\ V4Len \in Nat /\ V6Len \in Nat
    /\ 0 \in Byte /\ Byte \subseteq Nat
BY ProcFsAssumption, AgentAssumption, ConnSpecAssumption DEF ProcFsAssumption,
   AgentAssumption, ConnSpecAssumption

\* The spec built for a socket is one, whatever the stack held.
LEMMA SocketSpecType ==
    ASSUME NEW s \in Specs, NEW len \in Nat,
           NEW gs \in StackBytes(len), NEW gd \in StackBytes(len)
    PROVE  SocketSpec(s, len, gs, gd) \in SpecType
<1>1. s \in SpecType
  BY Constants
<1>2. gs \in Addr /\ gd \in Addr
  BY DEF StackBytes
<1>3. ASSUME NEW a \in Addr, NEW g \in Addr
      PROVE  Overlay(a, len, g) \in Addr
  BY <1>3, Constants DEF Overlay, Addr
<1>4. s.src \in Addr /\ s.dst \in Addr
  BY <1>1 DEF SpecType
<1>5. Overlay(s.src, len, gs) \in Addr /\ Overlay(s.dst, len, gd) \in Addr
  BY <1>2, <1>3, <1>4
<1> QED
  BY <1>1, <1>5 DEF SocketSpec, SpecType

-----------------------------------------------------------------------------
(* Types *)

Calls == [fn: {"none", "head", "cid", "spec", "socket"}, cid: Cid \cup {NoCid},
          key: SpecType \cup {NoKey}, sock: Specs \cup {NoSpec}]

LEMMA FreeAllType ==
    ASSUME TypeOK, NEW S, FreeAll(S)
    PROVE  /\ kind' \in [Block -> {"free", "conn", "buf"}]
           /\ rec' \in [Block -> [cid: Cid \cup {NoCid}, spec: Specs \cup {NoSpec}]]
BY DEF TypeOK, FreeAll, NoRec

LEMMA StartLookupType ==
    ASSUME TypeOK, NEW call \in Calls, NEW out \in Block \cup {Null},
           StartLookup(call, out)
    PROVE  TypeOK'
<1>1. ProcTypeOK'
  <2>1. CASE OpenDir
    BY <2>1 DEF OpenDir, TypeOK, ProcTypeOK
  <2>2. CASE UNCHANGED procVars
    BY <2>2 DEF procVars, TypeOK, ProcTypeOK
  <2> QED
    BY <2>1, <2>2 DEF StartLookup
<1>2. FreeAll(ToSet(list))
  BY DEF StartLookup
<1>3. list' \in Seq(Block)
  BY DEF StartLookup
<1>4. pc' \in {"idle", "scan", "opened"} /\ err' \in {"OK", "NOCONNECTION"} \cup Fails
  BY DEF StartLookup, TypeOK, Fails
<1> QED
  BY <1>1, <1>2, <1>3, <1>4, FreeAllType DEF StartLookup, TypeOK, Calls

LEMMA CallTypes ==
    /\ Call("head", NoCid, NoKey, NoSpec) \in Calls
    /\ \A c \in Cid : Call("cid", c, NoKey, NoSpec) \in Calls
    /\ \A key \in Specs : Call("spec", NoCid, key, NoSpec) \in Calls
    /\ \A key \in SpecType, s \in Specs : Call("socket", NoCid, key, s) \in Calls
    /\ \A s \in Specs : Call("socket", NoCid, NoKey, s) \in Calls
    /\ NoCall \in Calls
BY Constants DEF Call, Calls, NoCall

\* An error path of the scan leaves every variable it writes in its type.
LEMMA AbortType ==
    ASSUME TypeOK, NEW e \in Fails, Abort(e), seen' \subseteq Cid \cup Plain,
           kind' \in [Block -> {"free", "conn", "buf"}],
           rec' \in [Block -> [cid: Cid \cup {NoCid}, spec: Specs \cup {NoSpec}]],
           leaked' \in Nat
    PROVE  TypeOK'
BY DEF Abort, TypeOK, ProcTypeOK, Fails

\* Every variable keeps its type.
LEMMA TypeStep == TypeOK /\ (pc = "opened" <=> cp # Null) /\ (pc = "opened" <=> cur # NoCid)
                  /\ [Next]_vars => TypeOK'
<1> SUFFICES ASSUME TypeOK, pc = "opened" <=> cp # Null, pc = "opened" <=> cur # NoCid,
                    [Next]_vars
             PROVE  TypeOK'
  OBVIOUS
<1>1. CASE Kernel
  <2>1. PICK c \in Cid, s \in Specs \cup {NoSpec} : KSet(c, s)
    BY <1>1 DEF Kernel, KOpen, KClose
  <2>2. ProcTypeOK'
    BY <2>1 DEF KSet, TypeOK, ProcTypeOK
  <2> QED
    BY <1>1, <2>2 DEF Kernel, TypeOK, heapVars, callVars
<1>2. CASE Attach \/ AttachFails
  BY <1>2 DEF Attach, AttachFails, TypeOK, ProcTypeOK, procVars, heapVars, Fails
<1>3. CASE Detach
  BY <1>3, FreeAllType, CallTypes DEF Detach, TypeOK, ProcTypeOK, procVars, Calls
<1>4. CASE GetHead
  BY <1>4, StartLookupType, CallTypes DEF GetHead, TypeOK
<1>5. CASE \E c \in Cid : FindFromCid(c)
  BY <1>5, StartLookupType, CallTypes DEF FindFromCid
<1>6. CASE \E s \in Specs : FindFromSpec(s)
  BY <1>6, StartLookupType, CallTypes DEF FindFromSpec
<1>7. CASE \E s \in Specs : FindFromSocket(s)
  <2>1. PICK s \in Specs : FindFromSocket(s)
    BY <1>7
  <2> DEFINE len == FamilyLen(Fam[s])
  <2>2. len \in Nat
    BY Constants DEF FamilyLen
  <2>3. PICK gs \in StackBytes(len), gd \in StackBytes(len) :
            StartLookup(Call("socket", NoCid, SocketSpec(s, len, gs, gd), s), Null)
    BY <2>1 DEF FindFromSocket
  <2> HIDE DEF len
  <2>4. SocketSpec(s, len, gs, gd) \in SpecType
    BY <2>2, SocketSpecType
  <2>5. Call("socket", NoCid, SocketSpec(s, len, gs, gd), s) \in Calls
    BY <2>4, CallTypes
  <2> QED
    BY <2>3, <2>5, StartLookupType
<1>8. CASE \E s \in Specs : SocketRefused(s)
  BY <1>8, CallTypes DEF SocketRefused, TypeOK, ProcTypeOK, procVars, heapVars, Calls, Fails
<1>9. CASE \E n \in Plain : ReadPlain(n)
  BY <1>9 DEF ReadPlain, NextName, TypeOK, ProcTypeOK, heapVars, callVars
<1>10. CASE \E c \in Cid : ReadCid(c)
  <2>1. PICK c \in Cid : ReadCid(c)
    BY <1>10
  <2>2. PICK b \in FreeBlocks : /\ kind' = [kind EXCEPT ![b] = "conn"]
                                /\ rec' = [rec EXCEPT ![b].cid = c]
                                /\ cp' = b
    BY <2>1 DEF ReadCid
  <2>3. b \in Block
    BY DEF FreeBlocks
  <2> QED
    BY <2>1, <2>2, <2>3 DEF ReadCid, NextName, TypeOK, ProcTypeOK
<1>11. CASE \E c \in Cid : ReadCidFails(c)
  <2>1. PICK c \in Cid : ReadCidFails(c)
    BY <1>11
  <2>2. seen' \subseteq Cid \cup Plain
    BY <2>1 DEF ReadCidFails, TypeOK, ProcTypeOK
  <2>3. "LIBC" \in Fails /\ Abort("LIBC") /\ UNCHANGED heapVars
    BY <2>1 DEF ReadCidFails, Fails
  <2> QED
    BY <2>2, <2>3, AbortType DEF heapVars, TypeOK
<1>12. CASE ReadSpec
  <2>1. cp \in Block /\ cur \in Cid
    BY <1>12 DEF ReadSpec, TypeOK
  <2>2. proc[cur] \in Specs
    BY <1>12, <2>1 DEF ReadSpec, TypeOK, ProcTypeOK
  <2>3. list' \in Seq(Block)
    BY <1>12, <2>1, AppendProperties DEF ReadSpec, TypeOK
  <2> QED
    BY <1>12, <2>1, <2>2, <2>3 DEF ReadSpec, TypeOK, ProcTypeOK, procVars
<1>13. CASE NoBuffer
  BY <1>13, FreeAllType, AbortType DEF NoBuffer, TypeOK, ProcTypeOK, Fails
<1>14. CASE ReadSpecFails
  <2>1. PICK e \in {"EOF", "LIBC", "NOVAR"} : Abort(e)
    BY <1>14 DEF ReadSpecFails
  <2>2. kind' \in [Block -> {"free", "conn", "buf"}]
    BY <1>14 DEF ReadSpecFails, TypeOK, FreeBlocks
  <2>3. rec' \in [Block -> [cid: Cid \cup {NoCid}, spec: Specs \cup {NoSpec}]]
    BY <1>14 DEF ReadSpecFails, TypeOK, NoRec
  <2>4. leaked' \in Nat /\ seen' \subseteq Cid \cup Plain /\ e \in Fails
    BY <1>14 DEF ReadSpecFails, TypeOK, ProcTypeOK, Fails
  <2> QED
    BY <2>1, <2>2, <2>3, <2>4, AbortType
<1>15. CASE EndScan
  <2>1. conn' \in Block \cup {Null}
    BY <1>15 DEF EndScan, TypeOK
  <2> QED
    BY <1>15, <2>1 DEF EndScan, CloseDir, TypeOK, ProcTypeOK, heapVars, Fails
<1>16. CASE UNCHANGED vars
  BY <1>16 DEF vars, procVars, heapVars, callVars, TypeOK, ProcTypeOK
<1> QED
  BY <1>1, <1>2, <1>3, <1>4, <1>5, <1>6, <1>7, <1>8, <1>9, <1>10, <1>11, <1>12, <1>13,
     <1>14, <1>15, <1>16 DEF Next, Application, Scan

-----------------------------------------------------------------------------
(* The inductive invariant.  HeapMatchesList, ScanRecords and ConnUsable are *)
(* about the list between calls; what keeps them true while a call runs, and *)
(* makes ScanComplete true at its end, is ScanInv.                           *)

Bufs == {b \in Block : kind[b] = "buf"}
Conns == {b \in Block : kind[b] = "conn"}

IInv ==
    /\ TypeOK
    /\ HeapMatchesList /\ IsFiniteSet(Bufs)
    /\ ScanRecords
    /\ ScanInv
    /\ ScanComplete
    /\ ConnUsable

LEMMA ListType ==
    ASSUME TypeOK
    PROVE  /\ DOMAIN list = 1..Len(list) /\ Len(list) \in Nat
           /\ \A i \in DOMAIN list : list[i] \in Block
           /\ \A i \in DOMAIN list : list[i] \in ToSet(list)
           /\ \A b \in ToSet(list) : \E i \in DOMAIN list : b = list[i]
           /\ ToSet(list) \subseteq Block
BY DEF TypeOK, ToSet

LEMMA ListHeap ==
    ASSUME TypeOK, HeapMatchesList
    PROVE  \A i \in DOMAIN list : kind[list[i]] = "conn" /\ list[i] # cp
BY ListType DEF HeapMatchesList

LEMMA InitInv == Init => IInv
<1> SUFFICES ASSUME Init
             PROVE  IInv
  OBVIOUS
<1>1. TypeOK
  <2>1. ProcTypeOK
    BY DEF Init, ProcInit, ProcTypeOK
  <2>2. op \in Calls
    BY CallTypes DEF Init
  <2>3. list \in Seq(Block)
    BY DEF Init
  <2>4. kind \in [Block -> {"free", "conn", "buf"}]
        /\ rec \in [Block -> [cid: Cid \cup {NoCid}, spec: Specs \cup {NoSpec}]]
    BY DEF Init, NoRec
  <2> QED
    BY <2>1, <2>2, <2>3, <2>4 DEF Init, TypeOK, Calls
<1>2. Bufs = {} /\ Conns = {}
  BY DEF Init, Bufs, Conns
<1>3. IsFiniteSet(Bufs) /\ Cardinality(Bufs) = 0
  BY <1>2, FS_EmptySet
<1>4. DOMAIN list = {} /\ ToSet(list) = {}
  BY DEF Init, ToSet
<1>5. HeapMatchesList
  BY <1>2, <1>3, <1>4 DEF HeapMatchesList, Init, Bufs, Conns, IsInjective
<1>6. ScanRecords
  BY <1>4 DEF ScanRecords
<1>7. ScanInv
  BY Constants DEF ScanInv, Init, ProcInit, NoCall, Call
<1>8. ScanComplete /\ ConnUsable
  BY DEF ScanComplete, ConnUsable, Succeeded, Answered, Init, NoCall, Call
<1> QED
  BY <1>1, <1>3, <1>5, <1>6, <1>7, <1>8 DEF IInv

\* Steps that leave the heap, the list and the record being filled alone.
LEMMA HeapSame ==
    ASSUME IInv, UNCHANGED <<heapVars, list, cp>>
    PROVE  HeapMatchesList' /\ IsFiniteSet(Bufs')
BY DEF IInv, heapVars, HeapMatchesList, Bufs

LEMMA RecordsSame ==
    ASSUME IInv, UNCHANGED list, \A i \in DOMAIN list : rec'[list[i]] = rec[list[i]],
           \A c \in Cid : since[c] \subseteq since'[c]
    PROVE  ScanRecords'
BY DEF IInv, ScanRecords

\* The kernel's step: only `since' grows, and entries cease to be stable.
LEMMA KernelInv ==
    ASSUME IInv, Kernel
    PROVE  IInv'
<1>1. PICK c \in Cid, s \in Specs \cup {NoSpec} : KSet(c, s)
  BY DEF Kernel, KOpen, KClose
<1>2. TypeOK'
  BY TypeStep DEF IInv, ScanInv, Next
<1>3. HeapMatchesList' /\ IsFiniteSet(Bufs')
  BY HeapSame DEF Kernel, callVars
<1>4. since \in [Cid -> SUBSET (Specs \cup {NoSpec})]
  BY DEF IInv, TypeOK, ProcTypeOK
<1>5. \A d \in Cid : since[d] \subseteq since'[d]
  BY <1>1, <1>4 DEF KSet
<1>6. ScanRecords'
  BY <1>5, RecordsSame DEF Kernel, heapVars
<1>7. dirOpen' => \A d \in Cid : proc'[d] \in since'[d]
  BY <1>1, <1>4 DEF KSet, IInv, ScanInv, TypeOK, ProcTypeOK
<1>8. \A d \in Cid : Stable(d)' => Stable(d)
  BY <1>5 DEF Stable
<1>9. ScanInv'
  BY <1>1, <1>7, <1>8 DEF IInv, ScanInv, Kernel, heapVars, callVars, KSet
<1>10. ScanComplete' /\ ConnUsable'
  BY <1>8 DEF IInv, ScanComplete, ConnUsable, Succeeded, Answered, Kernel, heapVars, callVars
<1> QED
  BY <1>2, <1>3, <1>6, <1>9, <1>10 DEF IInv

\* Steps that empty the list: nothing is recorded, no record is allocated.
LEMMA ClearHeap ==
    ASSUME IInv, pc = "idle", FreeAll(ToSet(list)), list' = <<>>, UNCHANGED <<leaked, cp>>
    PROVE  HeapMatchesList' /\ IsFiniteSet(Bufs') /\ ScanRecords'
<1>1. cp = Null
  BY DEF IInv, ScanInv
<1>2. ToSet(list) = Conns
  BY <1>1, Constants, ListType DEF IInv, HeapMatchesList, Conns
<1>3. Conns' = {} /\ Bufs' = Bufs
  BY <1>2 DEF FreeAll, Conns, Bufs, IInv, TypeOK
<1>4. DOMAIN list' = {} /\ ToSet(list)' = {}
  BY DEF ToSet
<1>5. HeapMatchesList'
  BY <1>1, <1>3, <1>4 DEF IInv, HeapMatchesList, Conns, Bufs, IsInjective
<1> QED
  BY <1>3, <1>4, <1>5 DEF IInv, ScanRecords

LEMMA StartLookupInv ==
    ASSUME IInv, TypeOK', NEW call \in Calls, call.fn # "none",
           NEW out \in Block \cup {Null}, call.fn # "head" => out = Null,
           StartLookup(call, out)
    PROVE  IInv'
<1>1. HeapMatchesList' /\ IsFiniteSet(Bufs') /\ ScanRecords'
  BY ClearHeap DEF StartLookup
<1>2. DOMAIN list' = {}
  BY DEF StartLookup
<1>3. cp = Null /\ cur = NoCid /\ ~dirOpen
  BY DEF IInv, ScanInv, StartLookup
<1>4. CASE OpenDir /\ pc' = "scan" /\ err' = "OK"
  <2>1. ScanInv'
    BY <1>2, <1>3, <1>4 DEF ScanInv, OpenDir, StartLookup
  <2> QED
    BY <1>1, <1>4, <2>1 DEF IInv, ScanComplete, ConnUsable, Succeeded, Answered
<1>5. CASE UNCHANGED <<procVars, pc>> /\ err' = "LIBC"
  <2>1. ScanInv'
    BY <1>3, <1>5 DEF ScanInv, procVars, StartLookup
  <2> QED
    BY <1>1, <1>5, <2>1 DEF IInv, ScanComplete, ConnUsable, Succeeded, Answered, Fails
<1> QED
  BY <1>4, <1>5 DEF StartLookup

LEMMA DetachInv ==
    ASSUME IInv, TypeOK', Detach
    PROVE  IInv'
<1>1. HeapMatchesList' /\ IsFiniteSet(Bufs') /\ ScanRecords'
  BY ClearHeap DEF Detach
<1>2. ScanInv'
  BY DEF Detach, IInv, ScanInv, procVars, NoCall, Call
<1> QED
  BY <1>1, <1>2 DEF IInv, ScanComplete, ConnUsable, Succeeded, Answered, Detach, NoCall, Call

\* Calls that do not touch the list.
LEMMA IdleInv ==
    ASSUME IInv, TypeOK', Attach \/ AttachFails \/ \E s \in Specs : SocketRefused(s)
    PROVE  IInv'
<1>1. HeapMatchesList' /\ IsFiniteSet(Bufs')
  BY HeapSame DEF Attach, AttachFails, SocketRefused
<1>2. ScanRecords'
  BY RecordsSame DEF Attach, AttachFails, SocketRefused, heapVars, procVars
<1>3. ScanInv'
  BY DEF IInv, ScanInv, Attach, AttachFails, SocketRefused, heapVars, procVars, Call
<1>4. ScanComplete' /\ ConnUsable'
  BY DEF IInv, ScanInv, ScanComplete, ConnUsable, Succeeded, Answered, Fails, Attach,
         AttachFails, SocketRefused, heapVars, procVars, Call
<1> QED
  BY <1>1, <1>2, <1>3, <1>4 DEF IInv

LEMMA ReadPlainInv ==
    ASSUME IInv, TypeOK', NEW n \in Plain, ReadPlain(n)
    PROVE  IInv'
<1>1. HeapMatchesList' /\ IsFiniteSet(Bufs')
  BY HeapSame DEF ReadPlain, callVars
<1>2. ScanRecords'
  BY RecordsSame DEF ReadPlain, NextName, heapVars
<1>3. n \notin Cid
  BY Constants
<1>4. ScanInv'
  BY <1>3 DEF IInv, ScanInv, ReadPlain, NextName, Stable, callVars, heapVars
<1>5. ScanComplete' /\ ConnUsable'
  BY DEF IInv, ScanComplete, ConnUsable, Succeeded, Answered, ReadPlain, callVars
<1> QED
  BY <1>1, <1>2, <1>4, <1>5 DEF IInv

\* readdir, malloc and fopen: one more record, not in the list yet.
LEMMA ReadCidInv ==
    ASSUME IInv, TypeOK', NEW c \in Cid, ReadCid(c)
    PROVE  IInv'
<1>1. PICK b \in FreeBlocks : /\ kind' = [kind EXCEPT ![b] = "conn"]
                              /\ rec' = [rec EXCEPT ![b].cid = c]
                              /\ cp' = b
  BY DEF ReadCid
<1>2. b \in Block /\ kind[b] = "free" /\ b # Null
  BY Constants DEF FreeBlocks
<1>3. pc = "scan" /\ pc' = "opened" /\ cur' = c /\ cp = Null /\ UNCHANGED <<list, leaked>>
  BY DEF ReadCid, IInv, ScanInv
<1>4. \A i \in DOMAIN list : list[i] # b
  BY <1>2, ListHeap DEF IInv
<1>5. \A i \in DOMAIN list : rec'[list[i]] = rec[list[i]]
  BY <1>1, <1>2, <1>4, ListType DEF IInv, TypeOK
<1>6. HeapMatchesList' /\ IsFiniteSet(Bufs')
  <2>1. Bufs' = Bufs
    BY <1>1, <1>2 DEF Bufs, IInv, TypeOK
  <2>2. Conns' = Conns \cup {b}
    BY <1>1, <1>2 DEF Conns, IInv, TypeOK
  <2>3. ToSet(list)' = ToSet(list) /\ b \notin ToSet(list)
    BY <1>3, <1>4, ListType DEF IInv
  <2> QED
    BY <1>1, <1>2, <1>3, <2>1, <2>2, <2>3 DEF IInv, HeapMatchesList, Bufs, Conns
<1>7. ScanRecords'
  BY <1>3, <1>5, RecordsSame DEF ReadCid, NextName
<1>8. rec'[b].cid = c
  BY <1>1, <1>2 DEF IInv, TypeOK
<1>9. ScanInv'
  <2>1. c \notin seen /\ seen' = seen \cup {c} /\ UNCHANGED <<proc, since, dirOpen>>
    BY DEF ReadCid, NextName, Readable
  <2>2. dirOpen /\ \A i \in DOMAIN list : rec[list[i]].cid \in seen
    BY <1>3 DEF IInv, ScanInv
  <2>3. \A i \in DOMAIN list' : rec'[list'[i]].cid # c /\ rec'[list'[i]].cid \in seen'
    BY <1>3, <1>5, <2>1, <2>2
  <2>4. ASSUME NEW d \in Cid, d \in seen', d # c, Stable(d)'
        PROVE  \E i \in DOMAIN list' : rec'[list'[i]].cid = d
    <3>1. d \in seen /\ d # cur /\ Stable(d)
      BY <1>3, <2>1, <2>4, Constants DEF IInv, ScanInv, Stable
    <3> QED
      BY <1>3, <1>5, <2>2, <3>1 DEF IInv, ScanInv
  <2>5. pc' # "idle" => err' = "OK" /\ op'.fn # "none" /\ (op'.fn # "head" => conn' = Null)
    BY <1>3 DEF ReadCid, IInv, ScanInv
  <2>6. agent' # "none" \/ op'.fn = "none"
    BY <1>3 DEF ReadCid, IInv, ScanInv
  <2>7. \A d \in Cid : proc'[d] \in since'[d]
    BY <2>1, <2>2 DEF IInv, ScanInv
  <2>8. c # NoCid
    BY Constants
  <2> QED
    BY <1>1, <1>2, <1>3, <1>8, <2>1, <2>2, <2>3, <2>4, <2>5, <2>6, <2>7, <2>8 DEF ScanInv
<1>10. ScanComplete' /\ ConnUsable'
  BY <1>3 DEF ScanComplete, ConnUsable, Succeeded, Answered
<1> QED
  BY <1>6, <1>7, <1>9, <1>10 DEF IInv

\* An error of the scan: the list keeps its records, and only cp is freed.
LEMMA AbortInv ==
    ASSUME IInv, TypeOK', NEW e \in Fails, Abort(e), pc # "idle",
           HeapMatchesList', IsFiniteSet(Bufs'),
           \A i \in DOMAIN list : rec'[list[i]] = rec[list[i]]
    PROVE  IInv'
<1>1. ScanRecords'
  BY RecordsSame DEF Abort
<1>2. ScanInv'
  BY DEF IInv, ScanInv, Abort
<1> QED
  BY <1>1, <1>2 DEF IInv, ScanComplete, ConnUsable, Succeeded, Answered, Abort, Fails

LEMMA ReadCidFailsInv ==
    ASSUME IInv, TypeOK', NEW c \in Cid, ReadCidFails(c)
    PROVE  IInv'
<1>1. cp = Null /\ cp' = Null
  BY DEF IInv, ScanInv, ReadCidFails, Abort
<1>2. HeapMatchesList' /\ IsFiniteSet(Bufs')
  BY <1>1, HeapSame DEF ReadCidFails, Abort
<1> QED
  BY <1>2, AbortInv DEF ReadCidFails, Abort, heapVars, Fails

\* The heap after an error that follows the fopen: cp is free, and at most one
\* read buffer and one FILE more are lost.
LEMMA LostBuffer ==
    ASSUME IInv, pc = "opened", cp' = Null, UNCHANGED list, leaked' = leaked + 1,
           Conns' = Conns \ {cp}, NEW b \in Block, Bufs' = Bufs \/ Bufs' = Bufs \cup {b}
    PROVE  HeapMatchesList' /\ IsFiniteSet(Bufs')
<1>1. IsFiniteSet(Bufs) /\ Cardinality(Bufs) \in Nat /\ Cardinality(Bufs) <= leaked /\ leaked \in Nat
  BY FS_CardinalityType DEF IInv, HeapMatchesList, Bufs, TypeOK
<1>2. IsFiniteSet(Bufs') /\ Cardinality(Bufs') <= leaked + 1
  BY <1>1, FS_AddElement
<1>3. Conns' = ToSet(list)
  BY DEF IInv, HeapMatchesList, ScanInv, Conns
<1>4. ToSet(list)' = ToSet(list)
  BY DEF ToSet
<1>5. Null \notin ToSet(list)
  BY Constants, ListType DEF IInv
<1> QED
  BY <1>2, <1>3, <1>4, <1>5 DEF IInv, HeapMatchesList, Bufs, Conns

LEMMA OpenedFailsInv ==
    ASSUME IInv, TypeOK', NoBuffer \/ ReadSpecFails
    PROVE  IInv'
<1>1. pc = "opened" /\ cp \in Block /\ leaked' = leaked + 1
  BY DEF NoBuffer, ReadSpecFails, IInv, ScanInv, TypeOK
<1>2. kind[cp] = "conn" /\ cp \notin ToSet(list)
  BY <1>1 DEF IInv, HeapMatchesList, ScanInv
<1>3. PICK e \in Fails : Abort(e)
  BY DEF NoBuffer, ReadSpecFails, Fails
<1>4. cp' = Null /\ UNCHANGED list
  BY <1>3 DEF Abort
<1>5. CASE NoBuffer
  <2>1. Conns' = Conns \ {cp} /\ Bufs' = Bufs
    BY <1>1, <1>2, <1>5 DEF NoBuffer, FreeAll, Conns, Bufs, IInv, TypeOK
  <2>2. \A i \in DOMAIN list : rec'[list[i]] = rec[list[i]]
    BY <1>5, ListHeap, ListType DEF NoBuffer, FreeAll, IInv
  <2>3. HeapMatchesList' /\ IsFiniteSet(Bufs')
    BY <1>1, <1>4, <2>1, LostBuffer
  <2> QED
    BY <1>1, <1>3, <2>2, <2>3, AbortInv
<1>6. CASE ReadSpecFails
  <2>1. PICK b \in FreeBlocks : /\ kind' = [kind EXCEPT ![cp] = "free", ![b] = "buf"]
                                /\ rec' = [rec EXCEPT ![cp] = NoRec]
    BY <1>6 DEF ReadSpecFails
  <2>2. b \in Block /\ kind[b] = "free" /\ b # cp
    BY <1>2 DEF FreeBlocks
  <2>3. Conns' = Conns \ {cp} /\ Bufs' = Bufs \cup {b}
    BY <1>1, <1>2, <2>1, <2>2 DEF Conns, Bufs, IInv, TypeOK
  <2>4. \A i \in DOMAIN list : rec'[list[i]] = rec[list[i]]
    BY <2>1, ListHeap, ListType DEF IInv, TypeOK
  <2>5. HeapMatchesList' /\ IsFiniteSet(Bufs')
    BY <1>1, <1>4, <2>2, <2>3, LostBuffer
  <2> QED
    BY <1>1, <1>3, <2>4, <2>5, AbortInv
<1> QED
  BY <1>5, <1>6

\* The record that was being filled is appended.
LEMMA ReadSpecInv ==
    ASSUME IInv, TypeOK', ReadSpec
    PROVE  IInv'
<1>1. /\ pc = "opened" /\ pc' = "scan" /\ cp' = Null /\ cur' = NoCid /\ dirOpen
      /\ cp \in Block /\ cur \in Cid
  BY DEF ReadSpec, IInv, ScanInv, TypeOK
<1>2. /\ cp \notin ToSet(list) /\ rec[cp].cid = cur /\ cur \in seen
      /\ \A i \in DOMAIN list : rec[list[i]].cid # cur
  BY <1>1 DEF IInv, HeapMatchesList, ScanInv
<1>3. proc[cur] # NoSpec /\ proc[cur] \in since[cur]
  BY <1>1 DEF ReadSpec, IInv, ScanInv
<1> DEFINE n == Len(list)
<1>4. /\ n \in Nat /\ DOMAIN list = 1..n
      /\ DOMAIN list' = 1..(n + 1) /\ list'[n + 1] = cp
      /\ \A i \in 1..n : list'[i] = list[i] /\ list[i] \in Block /\ list[i] # cp
  BY <1>1, <1>2, ListType, AppendProperties DEF ReadSpec, IInv, TypeOK
<1>5. /\ rec'[cp].cid = cur /\ rec'[cp].spec = proc[cur]
      /\ \A i \in 1..n : rec'[list[i]] = rec[list[i]]
  BY <1>1, <1>2, <1>4 DEF ReadSpec, IInv, TypeOK
<1> HIDE DEF n
<1>6. HeapMatchesList' /\ IsFiniteSet(Bufs')
  <2>1. IsInjective(list')
    BY <1>4 DEF IInv, HeapMatchesList, IsInjective
  <2>2. ToSet(list)' = ToSet(list) \cup {cp}
    BY <1>4 DEF ToSet
  <2>3. Conns' = Conns /\ Bufs' = Bufs /\ leaked' = leaked
    BY DEF ReadSpec, Conns, Bufs
  <2>4. Null \notin ToSet(list)'
    BY <1>1, <2>2, Constants, ListType DEF IInv
  <2> QED
    BY <1>1, <2>1, <2>2, <2>3, <2>4, Constants DEF IInv, HeapMatchesList, Conns, Bufs
<1>7. UNCHANGED <<proc, seen, since, dirOpen, agent, op, conn, err>>
  BY DEF ReadSpec, procVars
<1>8. ScanRecords'
  <2>1. ASSUME NEW i \in DOMAIN list'
        PROVE  rec'[list'[i]].cid \in Cid
               /\ rec'[list'[i]].spec \in since'[rec'[list'[i]].cid] \ {NoSpec}
    <3>1. CASE i = n + 1
      BY <1>1, <1>3, <1>4, <1>5, <1>7, <3>1
    <3>2. CASE i \in 1..n
      BY <1>4, <1>5, <1>7, <3>2 DEF IInv, ScanRecords
    <3> QED
      BY <1>4, <2>1, <3>1, <3>2
  <2>2. ASSUME NEW i \in DOMAIN list', NEW j \in DOMAIN list',
               rec'[list'[i]].cid = rec'[list'[j]].cid
        PROVE  i = j
    <3>1. \A k \in 1..n : rec'[list'[k]].cid = rec[list[k]].cid /\ rec[list[k]].cid # cur
      BY <1>2, <1>4, <1>5
    <3>2. rec'[list'[n + 1]].cid = cur
      BY <1>4, <1>5
    <3>3. CASE i \in 1..n /\ j \in 1..n
      BY <1>4, <2>2, <3>1, <3>3 DEF IInv, ScanRecords
    <3> QED
      BY <1>4, <2>2, <3>1, <3>2, <3>3
  <2> QED
    BY <2>1, <2>2 DEF ScanRecords
<1>9. ScanInv'
  <2>1. \A i \in DOMAIN list' : rec'[list'[i]].cid \in seen'
    <3>1. \A i \in 1..n : rec'[list'[i]].cid \in seen
      BY <1>1, <1>4, <1>5 DEF IInv, ScanInv
    <3> QED
      BY <1>2, <1>4, <1>5, <1>7, <3>1
  <2>2. ASSUME NEW d \in Cid, d \in seen', Stable(d)'
        PROVE  \E i \in DOMAIN list' : rec'[list'[i]].cid = d
    <3>1. CASE d = cur
      BY <1>4, <1>5, <3>1
    <3>2. CASE d # cur
      <4>1. \E i \in 1..n : rec[list[i]].cid = d
        BY <1>1, <1>4, <1>7, <2>2, <3>2 DEF IInv, ScanInv, Stable
      <4> QED
        BY <1>4, <1>5, <4>1
    <3> QED
      BY <3>1, <3>2
  <2>3. err' = "OK" /\ op'.fn # "none" /\ (op'.fn # "head" => conn' = Null)
    BY <1>1, <1>7 DEF IInv, ScanInv
  <2>4. (agent' = "none" => op'.fn = "none") /\ (\A c \in Cid : proc'[c] \in since'[c])
    BY <1>1, <1>7 DEF IInv, ScanInv
  <2> QED
    BY <1>1, <1>7, <2>1, <2>2, <2>3, <2>4 DEF ScanInv
<1>10. ScanComplete' /\ ConnUsable'
  BY <1>1 DEF ScanComplete, ConnUsable, Succeeded, Answered
<1> QED
  BY <1>6, <1>8, <1>9, <1>10 DEF IInv

\* The end of the directory: what was there all along has been returned, so it
\* is recorded, and the answer is taken from the list.
LEMMA EndScanInv ==
    ASSUME IInv, TypeOK', EndScan
    PROVE  IInv'
<1>1. pc = "scan" /\ pc' = "idle" /\ dirOpen /\ ~dirOpen' /\ cp = Null /\ cur = NoCid
  BY DEF EndScan, CloseDir, IInv, ScanInv
<1>2. UNCHANGED <<proc, seen, since, agent, heapVars, list, op, cur, cp>>
  BY DEF EndScan, CloseDir
<1>3. HeapMatchesList' /\ IsFiniteSet(Bufs')
  BY <1>2, HeapSame
<1>4. ScanRecords'
  BY <1>2, RecordsSame DEF heapVars
<1>5. ScanInv'
  BY <1>1, <1>2 DEF ScanInv, IInv
<1>6. ScanComplete'
  <2> SUFFICES ASSUME NEW c \in Cid, Stable(c)
               PROVE  \E i \in DOMAIN list : rec[list[i]].cid = c
    BY <1>2 DEF ScanComplete, Stable, heapVars
  <2>1. c \in seen /\ c # cur
    BY <1>1, Constants DEF EndScan, AtEnd
  <2> QED
    BY <1>1, <2>1 DEF IInv, ScanInv
<1>7. ConnUsable'
  <2>1. CASE \E i \in DOMAIN list : conn' = list[i]
    BY <1>2, <2>1, ListType DEF ConnUsable, IInv, ToSet
  <2>2. CASE conn' = IF op.fn = "head" THEN Null ELSE conn
    BY <1>1, <2>2 DEF ConnUsable, IInv, ScanInv
  <2> QED
    BY <2>1, <2>2 DEF EndScan
<1> QED
  BY <1>3, <1>4, <1>5, <1>6, <1>7 DEF IInv

-----------------------------------------------------------------------------

\* Every step preserves the invariant.
LEMMA NextInv == IInv /\ [Next]_vars => IInv'
<1> SUFFICES ASSUME IInv, [Next]_vars
             PROVE  IInv'
  OBVIOUS
<1>1. TypeOK'
  BY TypeStep DEF IInv, ScanInv
<1>2. CASE Kernel
  BY <1>2, KernelInv
<1>3. CASE Attach \/ AttachFails \/ \E s \in Specs : SocketRefused(s)
  BY <1>1, <1>3, IdleInv
<1>4. CASE Detach
  BY <1>1, <1>4, DetachInv
<1>5. CASE GetHead
  BY <1>1, <1>5, StartLookupInv, CallTypes DEF GetHead, Call, IInv, TypeOK
<1>6. CASE \E c \in Cid : FindFromCid(c)
  BY <1>1, <1>6, StartLookupInv, CallTypes DEF FindFromCid, Call
<1>7. CASE \E s \in Specs : FindFromSpec(s)
  BY <1>1, <1>7, StartLookupInv, CallTypes DEF FindFromSpec, Call
<1>8. CASE \E s \in Specs : FindFromSocket(s)
  <2>1. PICK s \in Specs, key \in SpecType :
            StartLookup(Call("socket", NoCid, key, s), Null)
    <3>1. PICK s \in Specs : FindFromSocket(s)
      BY <1>8
    <3>2. FamilyLen(Fam[s]) \in Nat
      BY Constants DEF FamilyLen
    <3> QED
      BY <3>1, <3>2, SocketSpecType DEF FindFromSocket
  <2> QED
    BY <1>1, <2>1, StartLookupInv, CallTypes DEF Call
<1>9. CASE \E n \in Plain : ReadPlain(n)
  BY <1>1, <1>9, ReadPlainInv
<1>10. CASE \E c \in Cid : ReadCid(c)
  BY <1>1, <1>10, ReadCidInv
<1>11. CASE \E c \in Cid : ReadCidFails(c)
  BY <1>1, <1>11, ReadCidFailsInv
<1>12. CASE ReadSpec
  BY <1>1, <1>12, ReadSpecInv
<1>13. CASE NoBuffer \/ ReadSpecFails
  BY <1>1, <1>13, OpenedFailsInv
<1>14. CASE EndScan
  BY <1>1, <1>14, EndScanInv
<1>15. CASE UNCHANGED vars
  <2>1. HeapMatchesList' /\ IsFiniteSet(Bufs') /\ ScanRecords'
    BY <1>15, HeapSame, RecordsSame DEF vars, heapVars, callVars, procVars
  <2>2. ScanInv' /\ ScanComplete' /\ ConnUsable'
    BY <1>15 DEF vars, heapVars, callVars, procVars, IInv, ScanInv, ScanComplete, ConnUsable,
       Succeeded, Answered, Stable
  <2> QED
    BY <1>1, <2>1, <2>2 DEF IInv
<1> QED
  BY <1>2, <1>3, <1>4, <1>5, <1>6, <1>7, <1>8, <1>9, <1>10, <1>11, <1>12, <1>13, <1>14,
     <1>15 DEF Next, Application, Scan

\* The agent's state is in its types and satisfies the inductive invariant.
THEOREM AgentInvariant == Spec => []IInv
BY InitInv, NextInv, PTL DEF Spec

\* Every variable of the agent and of the directory stays in its type.
THEOREM AgentTypeCorrect == Spec => []TypeOK
<1>1. IInv => TypeOK
  BY DEF IInv
<1> QED
  BY <1>1, AgentInvariant, PTL

\* refresh_connections, its error paths and detach free every record once and
\* keep exactly those of the list.
THEOREM HeapCorrect == Spec => []HeapMatchesList
<1>1. IInv => HeapMatchesList
  BY DEF IInv
<1> QED
  BY <1>1, AgentInvariant, PTL

\* Each record is a connection that had its cid during the scan; a call that
\* succeeds has every connection that was there all along.
THEOREM ScanCorrect == Spec => [](ScanRecords /\ ScanComplete)
<1>1. IInv => ScanRecords /\ ScanComplete
  BY DEF IInv
<1> QED
  BY <1>1, AgentInvariant, PTL

\* Between two steps of a scan the list has what the directory returned.
THEOREM ScanInvariant == Spec => []ScanInv
<1>1. IInv => ScanInv
  BY DEF IInv
<1> QED
  BY <1>1, AgentInvariant, PTL

\* A call without error never leaves a freed record in *conn.
THEOREM NoDanglingAnswer == Spec => []ConnUsable
<1>1. IInv => ConnUsable
  BY DEF IInv
<1> QED
  BY <1>1, AgentInvariant, PTL

-----------------------------------------------------------------------------
(* Leaks *)

\* A descriptor is lost only by a call that returns an error.
THEOREM LeakMeansError == Spec => LeakOnlyOnError
<1>1. ASSUME [Next]_vars
      PROVE  [leaked' # leaked => err' \in Fails]_vars
  <2>1. CASE NoBuffer
    BY <2>1 DEF NoBuffer, Abort, Fails
  <2>2. CASE ReadSpecFails
    BY <2>2 DEF ReadSpecFails, Abort, Fails
  <2>3. CASE Kernel \/ Application
    BY <2>3 DEF Kernel, Application, Attach, AttachFails, Detach, GetHead, FindFromCid,
       FindFromSpec, FindFromSocket, SocketRefused, StartLookup, heapVars
  <2>4. CASE (\E n \in Plain : ReadPlain(n)) \/ (\E c \in Cid : ReadCid(c) \/ ReadCidFails(c))
             \/ ReadSpec \/ EndScan
    BY <2>4 DEF ReadPlain, ReadCid, ReadCidFails, ReadSpec, EndScan, heapVars
  <2> QED
    BY <1>1, <2>1, <2>2, <2>3, <2>4 DEF Next, Scan
<1> QED
  BY <1>1, PTL DEF Spec, LeakOnlyOnError

-----------------------------------------------------------------------------
(* The refinement *)

\* The answer in the state after a step: pending while a call runs or when there was none,
\* and of a call that failed, one without a connection.
LEMMA PendingAnswer ==
    /\ pc' # "idle" => LookupAnswer' = Lookup!Pending
    /\ op'.fn = "none" => LookupAnswer' = Lookup!Pending
BY DEF LookupAnswer, Answered, Lookup!Pending, Lookup!Answer

LEMMA FailedAnswer ==
    pc' = "idle" /\ op'.fn # "none" /\ err' \in Fails => LookupAnswer' = Lookup!Failed
BY DEF LookupAnswer, Answered, Fails, Lookup!Failed, Lookup!Answer

LEMMA FoundAnswer ==
    pc' = "idle" /\ op'.fn # "none" /\ err' = "OK" /\ conn' # Null =>
        LookupAnswer' = Lookup!Answer("found", rec'[conn'].cid, rec'[conn'].spec)
BY DEF LookupAnswer, Answered, Fails, Lookup!Answer

LEMMA NoneAnswer ==
    pc' = "idle" /\ op'.fn # "none" /\ err' \notin Fails /\ (err' # "OK" \/ conn' = Null) =>
        LookupAnswer' = Lookup!NotFound
BY DEF LookupAnswer, Answered, Lookup!NotFound, Lookup!Answer

LEMMA SameAnswer ==
    ASSUME UNCHANGED <<pc, op, err, conn, rec>>
    PROVE  LookupAnswer' = LookupAnswer
BY DEF LookupAnswer, Answered

\* The answer before a step, likewise.
LEMMA StillPending ==
    /\ pc # "idle" => LookupAnswer = Lookup!Pending
    /\ op.fn = "none" => LookupAnswer = Lookup!Pending
BY DEF LookupAnswer, Answered, Lookup!Pending, Lookup!Answer

LEMMA InitMaps == Init => Lookup!AInit
<1> SUFFICES ASSUME Init
             PROVE  Lookup!AInit
  OBVIOUS
<1>1. LookupAnswer = Lookup!Pending
  BY StillPending DEF Init, NoCall, Call
<1>2. (pc # "idle") = FALSE
  BY DEF Init
<1> QED
  BY <1>1, <1>2 DEF Lookup!AInit, Init, ProcInit

\* The kernel's step is the kernel's step.
LEMMA KernelMaps ==
    ASSUME IInv, Kernel
    PROVE  Lookup!AKernel
<1>1. PICK c \in Cid, s \in Specs \cup {NoSpec} :
          KSet(c, s) /\ (proc[c] = NoSpec \/ s = NoSpec)
  BY DEF Kernel, KOpen, KClose
<1>2. LookupAnswer' = LookupAnswer
  BY SameAnswer DEF Kernel, heapVars, callVars
<1>3. dirOpen <=> pc # "idle"
  BY DEF IInv, ScanInv
<1>4. UNCHANGED <<pc, op>>
  BY DEF Kernel, callVars
<1>5. since' = IF pc # "idle" THEN [since EXCEPT ![c] = @ \cup {s}] ELSE since
  BY <1>1, <1>3 DEF KSet
<1> QED
  BY <1>1, <1>2, <1>4, <1>5 DEF Lookup!AKernel, KSet

\* A call begins, or fails before it looks.
LEMMA StartMaps ==
    ASSUME IInv, NEW call \in Calls, call.fn # "none", NEW out, StartLookup(call, out)
    PROVE  Lookup!AStart \/ Lookup!AFail
<1> DEFINE Q == [fn: {"head", "cid", "spec", "socket"}, cid: Cid \cup {NoCid},
                 key: SpecType \cup {NoKey}, sock: Specs \cup {NoSpec}]
<1>1. call \in Q
  BY DEF Calls
<1>2. pc = "idle" /\ op' = call
  BY DEF StartLookup
<1> HIDE DEF Q
<1>3. CASE OpenDir /\ pc' = "scan"
  <2>1. LookupAnswer' = Lookup!Pending
    BY <1>3, PendingAnswer
  <2> QED
    BY <1>1, <1>2, <1>3, <2>1 DEF Lookup!AStart, OpenDir, Q
<1>4. CASE UNCHANGED <<procVars, pc>> /\ err' = "LIBC"
  <2>1. LookupAnswer' = Lookup!Failed
    BY <1>2, <1>4, FailedAnswer DEF Fails
  <2> QED
    BY <1>1, <1>2, <1>4, <2>1 DEF Lookup!AFail, procVars, Q
<1> QED
  BY <1>3, <1>4 DEF StartLookup

\* A socket that is refused.
LEMMA RefusedMaps ==
    ASSUME NEW s \in Specs, SocketRefused(s)
    PROVE  Lookup!AFail
<1> DEFINE Q == [fn: {"head", "cid", "spec", "socket"}, cid: Cid \cup {NoCid},
                 key: SpecType \cup {NoKey}, sock: Specs \cup {NoSpec}]
<1>1. op' \in Q /\ op'.fn = "socket"
  BY DEF SocketRefused, Call
<1> HIDE DEF Q
<1>2. pc = "idle" /\ pc' = "idle" /\ err' \in Fails /\ UNCHANGED <<proc, since>>
  BY DEF SocketRefused, Fails, procVars
<1>3. LookupAnswer' = Lookup!Failed
  BY <1>1, <1>2, FailedAnswer
<1> QED
  BY <1>1, <1>2, <1>3 DEF Lookup!AFail, Q

\* Attaching is no call, and after detaching there is none.
LEMMA AttachMaps ==
    ASSUME IInv, Attach \/ AttachFails
    PROVE  UNCHANGED Lookup!avars
<1>1. op.fn = "none" /\ UNCHANGED <<proc, since, pc, op>>
  BY DEF Attach, AttachFails, IInv, ScanInv, procVars
<1>2. LookupAnswer' = LookupAnswer
  BY <1>1, PendingAnswer, StillPending
<1> QED
  BY <1>1, <1>2 DEF Lookup!avars

LEMMA DetachMaps ==
    ASSUME IInv, Detach
    PROVE  Lookup!AForget
<1>1. pc = "idle" /\ op' = NoCall /\ op'.fn = "none" /\ UNCHANGED <<proc, since, pc>>
  BY DEF Detach, NoCall, Call, procVars
<1>2. LookupAnswer' = Lookup!Pending
  BY <1>1, PendingAnswer
<1> QED
  BY <1>1, <1>2 DEF Lookup!AForget

\* The scan's inner steps are none of ConnLookup.
LEMMA InnerMaps ==
    ASSUME pc # "idle", pc' # "idle", UNCHANGED <<proc, since, op>>
    PROVE  UNCHANGED Lookup!avars
<1>1. LookupAnswer' = LookupAnswer
  BY PendingAnswer, StillPending
<1>2. (pc # "idle")' = (pc # "idle")
  OBVIOUS
<1> QED
  BY <1>1, <1>2 DEF Lookup!avars

\* An error ends the call.
LEMMA AbortMaps ==
    ASSUME IInv, pc # "idle", NEW e \in Fails, Abort(e)
    PROVE  Lookup!AReturn
<1>1. pc' = "idle" /\ op' = op /\ op.fn # "none" /\ err' \in Fails /\ UNCHANGED <<proc, since>>
  BY DEF Abort, IInv, ScanInv
<1>2. LookupAnswer' = Lookup!Failed
  BY <1>1, FailedAnswer
<1> QED
  BY <1>1, <1>2 DEF Lookup!AReturn

\* What the loop over the list asks of a record is what was asked of its connection.
LEMMA AskedMatches ==
    ASSUME NEW b
    PROVE  Matches(b) <=> Lookup!Asked(op, rec[b].cid, rec[b].spec)
BY DEF Matches, Lookup!Asked, SpecCompare, Lookup!SpecCompare, StrEq, Lookup!StrEq

\* At the end of the directory an entry that was there all along has its record.
LEMMA StableRecorded ==
    ASSUME IInv, EndScan, NEW c \in Cid, Stable(c)
    PROVE  \E i \in DOMAIN list : /\ rec[list[i]].cid = c
                                  /\ rec[list[i]].spec \in since[c] \ {NoSpec}
<1>1. c \in seen /\ c # cur /\ dirOpen
  BY Constants DEF EndScan, AtEnd, CloseDir, IInv, ScanInv
<1>2. PICK i \in DOMAIN list : rec[list[i]].cid = c
  BY <1>1 DEF IInv, ScanInv
<1> QED
  BY <1>2 DEF IInv, ScanRecords

\* The first match is the answer, and when there is none, no connection that was there all
\* along is what was asked for.
LEMMA EndScanMaps ==
    ASSUME IInv, EndScan
    PROVE  Lookup!AReturn
<1>1. /\ pc = "scan" /\ pc' = "idle" /\ op.fn # "none" /\ (op.fn # "head" => conn = Null)
      /\ UNCHANGED <<proc, since, op, rec, list>>
  BY DEF EndScan, CloseDir, IInv, ScanInv, heapVars
<1>2. CASE \E i \in DOMAIN list : IsFirst(i) /\ conn' = list[i] /\ err' = "OK"
  <2>1. PICK i \in DOMAIN list : IsFirst(i) /\ conn' = list[i] /\ err' = "OK"
    BY <1>2
  <2> DEFINE c == rec[list[i]].cid
             s == rec[list[i]].spec
  <2>2. c \in Cid /\ s \in since[c] /\ s # NoSpec
    BY DEF IInv, ScanRecords
  <2>3. Lookup!Asked(op, c, s)
    BY <2>1, AskedMatches DEF IsFirst
  <2>4. conn' # Null
    BY <2>1, ListType, Constants DEF IInv
  <2>5. LookupAnswer' = Lookup!Answer("found", c, s)
    BY <1>1, <2>1, <2>4, FoundAnswer
  <2> HIDE DEF c, s
  <2> QED
    BY <1>1, <2>2, <2>3, <2>5 DEF Lookup!AReturn, Lookup!MayFind
<1>3. CASE /\ \A i \in DOMAIN list : ~Matches(list[i])
           /\ conn' = IF op.fn = "head" THEN Null ELSE conn
           /\ err' = IF op.fn = "head" \/ conn # Null THEN "OK" ELSE "NOCONNECTION"
  <2>1. LookupAnswer' = Lookup!NotFound
    BY <1>1, <1>3, NoneAnswer DEF Fails
  <2>2. Lookup!MayFindNone
    <3> SUFFICES ASSUME NEW c \in Cid, NoSpec \notin since[c]
                 PROVE  \E s \in since[c] : ~Lookup!Asked(op, c, s)
      BY DEF Lookup!MayFindNone
    <3>1. PICK i \in DOMAIN list : rec[list[i]].cid = c /\ rec[list[i]].spec \in since[c]
      BY StableRecorded DEF Stable
    <3>2. ~Lookup!Asked(op, c, rec[list[i]].spec)
      BY <1>3, <3>1, AskedMatches
    <3> QED
      BY <3>1, <3>2
  <2> QED
    BY <1>1, <2>1, <2>2 DEF Lookup!AReturn
<1> QED
  BY <1>2, <1>3 DEF EndScan

LEMMA StepMaps == IInv /\ [Next]_vars => [Lookup!ANext]_Lookup!avars
<1> SUFFICES ASSUME IInv, [Next]_vars
             PROVE  [Lookup!ANext]_Lookup!avars
  OBVIOUS
<1>1. CASE Kernel
  BY <1>1, KernelMaps DEF Lookup!ANext
<1>2. CASE Attach \/ AttachFails
  BY <1>2, AttachMaps
<1>3. CASE Detach
  BY <1>3, DetachMaps DEF Lookup!ANext
<1>4. CASE GetHead
  BY <1>4, StartMaps, CallTypes DEF GetHead, Call, Lookup!ANext
<1>5. CASE \E c \in Cid : FindFromCid(c)
  BY <1>5, StartMaps, CallTypes DEF FindFromCid, Call, Lookup!ANext
<1>6. CASE \E s \in Specs : FindFromSpec(s)
  BY <1>6, StartMaps, CallTypes DEF FindFromSpec, Call, Lookup!ANext
<1>7. CASE \E s \in Specs : FindFromSocket(s)
  <2>1. PICK s \in Specs, key \in SpecType :
            StartLookup(Call("socket", NoCid, key, s), Null)
    <3>1. PICK s \in Specs : FindFromSocket(s)
      BY <1>7
    <3>2. FamilyLen(Fam[s]) \in Nat
      BY Constants DEF FamilyLen
    <3> QED
      BY <3>1, <3>2, SocketSpecType DEF FindFromSocket
  <2> QED
    BY <2>1, StartMaps, CallTypes DEF Call, Lookup!ANext
<1>8. CASE \E s \in Specs : SocketRefused(s)
  BY <1>8, RefusedMaps DEF Lookup!ANext
<1>9. CASE (\E n \in Plain : ReadPlain(n)) \/ (\E c \in Cid : ReadCid(c)) \/ ReadSpec
  BY <1>9, InnerMaps DEF ReadPlain, ReadCid, ReadSpec, NextName, callVars, procVars
<1>10. CASE \E c \in Cid : ReadCidFails(c)
  BY <1>10, AbortMaps DEF ReadCidFails, Fails, Lookup!ANext
<1>11. CASE NoBuffer
  BY <1>11, AbortMaps DEF NoBuffer, Fails, Lookup!ANext
<1>12. CASE ReadSpecFails
  BY <1>12, AbortMaps DEF ReadSpecFails, Fails, Lookup!ANext
<1>13. CASE EndScan
  BY <1>13, EndScanMaps DEF Lookup!ANext
<1>14. CASE UNCHANGED vars
  <2>1. UNCHANGED <<proc, since, pc, op, LookupAnswer>>
    BY <1>14, SameAnswer DEF vars, procVars, heapVars, callVars
  <2> QED
    BY <2>1 DEF Lookup!avars
<1> QED
  BY <1>1, <1>2, <1>3, <1>4, <1>5, <1>6, <1>7, <1>8, <1>9, <1>10, <1>11, <1>12, <1>13,
     <1>14 DEF Next, Application, Scan

\* Every lookup implements ConnLookup: what it finds existed under its cid at some moment
\* of the call and was asked for, and it finds none only if none was there all along.
THEOREM LookupImplements == Spec => ImplementsLookup
<1>1. Spec => Lookup!AInit /\ [][Lookup!ANext]_Lookup!avars
  BY InitMaps, StepMaps, AgentInvariant, PTL DEF Spec
<1> QED
  BY <1>1 DEF ImplementsLookup, Lookup!ASpec

-----------------------------------------------------------------------------
(* Lookups by spec *)

\* No two connections that exist at once are one: no two entries have the same connection,
\* and no other entry has had the connection that an entry has had all along.
OneEntry ==
    /\ \A c, d \in Cid : proc[c] = proc[d] /\ proc[c] # NoSpec => c = d
    /\ \A c, d \in Cid, s \in Specs : since[c] = {s} /\ s \in since[d] => c = d

KeyIsSpec == op.fn = "spec" => op.key \in Specs

SInv == IInv /\ OneEntry /\ KeyIsSpec /\ SpecFindsOwn

\* strcmp finds an address that ends equal to itself.
LEMMA CompareSame ==
    ASSUME NEW s \in Specs
    PROVE  SpecCompare(s, s)
<1>1. Terminated(s)
  BY AgentAssumption DEF AgentAssumption
<1> QED
  BY <1>1 DEF SpecCompare, StrEq, Terminated

\* Steps of the kernel: a connection is opened under one cid, and what an entry
\* has been all along it still is.
LEMMA KernelOneEntry ==
    ASSUME SInv, Kernel
    PROVE  OneEntry'
<1>1. PICK c \in Cid, s \in Specs \cup {NoSpec} :
          /\ KSet(c, s)
          /\ s = NoSpec \/ \A d \in Cid : proc[d] # s
          /\ proc[c] = NoSpec \/ s = NoSpec
  <2>1. PICK c \in Cid : KClose(c) \/ \E s \in Specs : KOpen(c, s)
    BY DEF Kernel
  <2>2. CASE KClose(c)
    BY <2>2 DEF KClose
  <2>3. CASE \E s \in Specs : KOpen(c, s)
    BY <2>3 DEF KOpen
  <2> QED
    BY <2>1, <2>2, <2>3
<1>2. /\ proc \in [Cid -> Specs \cup {NoSpec}] /\ dirOpen \in BOOLEAN
      /\ since \in [Cid -> SUBSET (Specs \cup {NoSpec})]
  BY DEF SInv, IInv, TypeOK, ProcTypeOK
<1>3. \A d, e \in Cid : proc'[d] = proc'[e] /\ proc'[d] # NoSpec => d = e
  BY <1>1, <1>2 DEF KSet, SInv, OneEntry
<1>4. ASSUME NEW d \in Cid, NEW e \in Cid, NEW t \in Specs, since'[d] = {t}, t \in since'[e]
      PROVE  d = e
  <2>1. CASE ~dirOpen
    BY <1>1, <1>4, <2>1 DEF KSet, SInv, OneEntry
  <2>2. CASE dirOpen
    <3>1. /\ since' = [since EXCEPT ![c] = @ \cup {s}]
          /\ \A f \in Cid : proc[f] \in since[f] /\ since[f] \subseteq since'[f]
      BY <1>1, <1>2, <2>2 DEF KSet, SInv, IInv, ScanInv
    <3>2. since[d] = {t} /\ proc[d] = t /\ t # NoSpec
      BY <1>4, <3>1, Constants
    <3>3. CASE t \in since[e]
      BY <3>2, <3>3 DEF SInv, OneEntry
    <3>4. CASE t \notin since[e]
      <4>1. e = c /\ t = s
        BY <1>2, <1>4, <3>1, <3>4
      <4> QED
        BY <1>1, <3>2, <4>1
    <3> QED
      BY <3>3, <3>4
  <2> QED
    BY <2>1, <2>2
<1> QED
  BY <1>3, <1>4 DEF OneEntry

\* A scan begins with what each entry is.
LEMMA OpenOneEntry ==
    ASSUME OneEntry, UNCHANGED <<proc, since>> \/ OpenDir
    PROVE  OneEntry'
BY Constants DEF OneEntry, OpenDir

\* Steps that end no call by spec leave its answer right.
LEMMA AnswerStays ==
    ASSUME SInv, ~Answered' \/ op'.fn # "spec" \/ err' \in Fails
                 \/ UNCHANGED <<pc, op, err, conn, rec, since>>
    PROVE  SpecFindsOwn'
BY DEF SInv, SpecFindsOwn, Succeeded, Answered, FindsKey

\* The first match of the list has the addresses and ports asked for.
LEMMA EndScanFindsOwn ==
    ASSUME \A s, t \in Specs : SpecCompare(s, t) => s = t,
           SInv, EndScan, op.fn = "spec"
    PROVE  FindsKey(op.key)'
<1> DEFINE key == op.key
<1>1. key \in Specs /\ conn = Null /\ UNCHANGED <<since, op, rec, list>>
  BY DEF SInv, KeyIsSpec, IInv, ScanInv, EndScan, CloseDir, heapVars
<1>2. \A c \in Cid : since[c] = {key} => Stable(c)
  BY <1>1, Constants DEF Stable
<1>3. \A i \in DOMAIN list : Matches(list[i]) <=> SpecCompare(rec[list[i]].spec, key)
  BY DEF Matches
<1>4. \A i \in DOMAIN list : rec[list[i]].spec \in Specs
  BY DEF SInv, IInv, ScanRecords, TypeOK, ProcTypeOK
<1>5. CASE \E i \in DOMAIN list : IsFirst(i) /\ conn' = list[i] /\ err' = "OK"
  <2>1. PICK i \in DOMAIN list : IsFirst(i) /\ conn' = list[i] /\ err' = "OK"
    BY <1>5
  <2>2. rec[list[i]].spec = key
    BY <1>1, <1>3, <1>4, <2>1 DEF IsFirst
  <2>3. rec[list[i]].cid \in Cid /\ key \in since[rec[list[i]].cid]
    BY <2>2 DEF SInv, IInv, ScanRecords
  <2>4. \A c \in Cid : since[c] = {key} => rec[list[i]].cid = c
    BY <1>1, <2>3 DEF SInv, OneEntry
  <2> QED
    BY <1>1, <2>1, <2>2, <2>4 DEF FindsKey
<1>6. CASE /\ \A i \in DOMAIN list : ~Matches(list[i])
           /\ err' = IF op.fn = "head" \/ conn # Null THEN "OK" ELSE "NOCONNECTION"
  <2>1. ASSUME NEW c \in Cid, since[c] = {key}
        PROVE  FALSE
    <3>1. PICK i \in DOMAIN list : rec[list[i]].spec \in since[c]
      BY <1>2, <2>1, StableRecorded DEF SInv
    <3>2. SpecCompare(rec[list[i]].spec, key)
      BY <1>1, <2>1, <3>1, CompareSame
    <3> QED
      BY <1>3, <1>6, <3>2
  <2> QED
    BY <1>1, <1>6, <2>1 DEF FindsKey
<1> QED
  BY <1>5, <1>6 DEF EndScan

LEMMA SpecInit == Init => SInv
<1> SUFFICES ASSUME Init
             PROVE  SInv
  OBVIOUS
<1>1. OneEntry
  BY DEF OneEntry, Init, ProcInit
<1>2. op.fn = "none"
  BY DEF Init, NoCall, Call
<1> QED
  BY <1>1, <1>2, InitInv DEF SInv, KeyIsSpec, SpecFindsOwn

LEMMA SpecStep ==
    ASSUME \A s, t \in Specs : SpecCompare(s, t) => s = t,
           SInv, [Next]_vars
    PROVE  SInv'
<1>1. IInv'
  BY NextInv DEF SInv
<1>2. CASE Kernel
  <2>1. OneEntry'
    BY <1>2, KernelOneEntry
  <2>2. SpecFindsOwn'
    <3>1. dirOpen \/ UNCHANGED since
      BY <1>2 DEF Kernel, KOpen, KClose, KSet
    <3>2. UNCHANGED <<pc, op, err, conn, rec>> /\ (dirOpen => pc # "idle")
      BY <1>2 DEF Kernel, callVars, heapVars, SInv, IInv, ScanInv
    <3> QED
      BY <3>1, <3>2, AnswerStays DEF Answered
  <2> QED
    BY <1>1, <1>2, <2>1, <2>2 DEF SInv, KeyIsSpec, Kernel, callVars
<1>3. CASE Attach \/ AttachFails
  <2>1. op.fn = "none" /\ UNCHANGED <<proc, since, op>>
    BY <1>3 DEF Attach, AttachFails, SInv, IInv, ScanInv, procVars
  <2> QED
    BY <1>1, <2>1, OpenOneEntry, AnswerStays DEF SInv, KeyIsSpec
<1>4. CASE Detach \/ \E s \in Specs : SocketRefused(s)
  <2>1. op'.fn # "spec" /\ UNCHANGED <<proc, since>>
    BY <1>4 DEF Detach, SocketRefused, NoCall, Call, procVars
  <2> QED
    BY <1>1, <2>1, OpenOneEntry, AnswerStays DEF SInv, KeyIsSpec
<1>5. ASSUME NEW call, NEW out, StartLookup(call, out), call.fn = "spec" => call.key \in Specs
      PROVE  SInv'
  <2>1. OneEntry'
    BY <1>5, OpenOneEntry DEF StartLookup, SInv, procVars
  <2>2. pc' = "scan" \/ err' \in Fails
    BY <1>5 DEF StartLookup, Fails
  <2>3. op' = call
    BY <1>5 DEF StartLookup
  <2> QED
    BY <1>1, <1>5, <2>1, <2>2, <2>3, AnswerStays DEF SInv, KeyIsSpec, Answered
<1>6. CASE GetHead \/ (\E c \in Cid : FindFromCid(c)) \/ (\E s \in Specs : FindFromSpec(s))
  BY <1>5, <1>6 DEF GetHead, FindFromCid, FindFromSpec, Call
<1>7. CASE \E s \in Specs : FindFromSocket(s)
  BY <1>5, <1>7 DEF FindFromSocket, Call
<1>8. CASE (\E n \in Plain : ReadPlain(n)) \/ (\E c \in Cid : ReadCid(c)) \/ ReadSpec
  <2>1. pc' # "idle" /\ UNCHANGED <<proc, since, op>>
    BY <1>8 DEF ReadPlain, ReadCid, ReadSpec, NextName, callVars, procVars
  <2> QED
    BY <1>1, <2>1, OpenOneEntry, AnswerStays DEF SInv, KeyIsSpec, Answered
<1>9. CASE (\E c \in Cid : ReadCidFails(c)) \/ NoBuffer \/ ReadSpecFails
  <2>1. err' \in Fails /\ UNCHANGED <<proc, since, op>>
    BY <1>9 DEF ReadCidFails, NoBuffer, ReadSpecFails, Abort, Fails
  <2> QED
    BY <1>1, <2>1, OpenOneEntry, AnswerStays DEF SInv, KeyIsSpec
<1>10. CASE EndScan
  <2>1. UNCHANGED <<proc, since, op>>
    BY <1>10 DEF EndScan, CloseDir
  <2>2. SpecFindsOwn'
    BY <1>10, <2>1, EndScanFindsOwn, AnswerStays DEF SpecFindsOwn
  <2> QED
    BY <1>1, <2>1, <2>2, OpenOneEntry DEF SInv, KeyIsSpec
<1>11. CASE UNCHANGED vars
  <2>1. UNCHANGED <<proc, since, op>> /\ UNCHANGED <<pc, err, conn, rec>>
    BY <1>11 DEF vars, procVars, heapVars, callVars
  <2> QED
    BY <1>1, <2>1, OpenOneEntry, AnswerStays DEF SInv, KeyIsSpec
<1> QED
  BY <1>2, <1>3, <1>4, <1>6, <1>7, <1>8, <1>9, <1>10, <1>11 DEF Next, Application, Scan

\* When strcmp tells the connections apart, a lookup by spec finds the connection with these
\* addresses and ports, and does not miss it.
THEOREM SpecLookupIsOwn ==
    ASSUME \A s, t \in Specs : SpecCompare(s, t) => s = t
    PROVE  Spec => []SpecFindsOwn
<1>1. SInv /\ [Next]_vars => SInv'
  BY SpecStep
<1>2. SInv => SpecFindsOwn
  BY DEF SInv
<1> QED
  BY <1>1, <1>2, SpecInit, PTL DEF Spec
=============================================================================
