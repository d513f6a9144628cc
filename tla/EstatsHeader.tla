---------------------------- MODULE EstatsHeader ----------------------------
(***************************************************************************)
(* The kernel's header file and its two readers: the agent's parser        *)
(* (agent.c), which builds the spec and the read group, and the log's      *)
(* (log.c), which keeps the variables of the read group only.  Both go     *)
(* line by line, and the properties compare them with the sections of the  *)
(* header.  Then the agent's groups in use: the walk over the variables,   *)
(* which skips the deprecated ones, and detach.                            *)
(*                                                                         *)
(* A line names a group, or is a variable, is blank, or does not scan.     *)
(* The first line, the version, is read before and has no effect here.     *)
(***************************************************************************)
EXTENDS Naturals, Sequences, FiniteSetsExt, SequencesExt

CONSTANTS
    Group,     \* group names, "spec" and "read" among them
    Name,      \* variable names
    Headers    \* the headers considered: sequences of Line

Var == [name : Name, dep : BOOLEAN, off : Nat, len : Nat]
NoVar == [name |-> "none", dep |-> FALSE, off |-> 0, len |-> 0]
Line == [kind : {"group"}, group : Group, var : {NoVar}]
        \cup [kind : {"var"}, group : {"none"}, var : Var]
        \cup [kind : {"blank", "bad"}, group : {"none"}, var : {NoVar}]

\* What the kernel writes: variables come under a group, no group comes twice.
HeaderOk(h) ==
    /\ \A i \in DOMAIN h :
          h[i].kind \in {"var", "bad"} => \E j \in 1..(i - 1) : h[j].kind = "group"
    /\ \A i, j \in DOMAIN h :
          h[i].kind = "group" /\ h[j].kind = "group" /\ h[i].group = h[j].group => i = j

ASSUME HeaderAssumption ==
    /\ {"spec", "read"} \subseteq Group
    /\ \A h \in Headers : h \in Seq(Line) /\ HeaderOk(h)

VARIABLES
    header,          \* the lines of the file
    apc, apos,       \* the agent: parsing, attached, failed, detached or dead; line
    heap,            \* the estats_group structs that were ever allocated
    spec, read,      \* agent->spec, agent->read: index in heap, 0 for NULL
    curr,            \* curr_gp
    misuse,          \* a group was used or freed that is not allocated
    walk, visited,   \* estats_var* of the walk (0: NULL), and what it has had
    lpc, lpos,       \* the log's parser
    lgroup,          \* group_name
    lvars, bufsize   \* log->var_list_head, log->bufsize

agentVars == <<apc, apos, heap, spec, read, curr, misuse>>
walkVars == <<walk, visited>>
logVars == <<lpc, lpos, lgroup, lvars, bufsize>>
vars == <<header, agentVars, walkVars, logVars>>

VarEnd(v) == v.off + v.len
Larger(a, b) == IF a < b THEN b ELSE a

Alive(g) == g \in DOMAIN heap /\ heap[g].alive

Init ==
    /\ header \in Headers
    /\ apc = "parse" /\ apos = 1
    /\ heap = <<>> /\ spec = 0 /\ read = 0 /\ curr = 0 /\ misuse = FALSE
    /\ walk = 0 /\ visited = <<>>
    /\ lpc = "parse" /\ lpos = 1 /\ lgroup \in Group   \* group_name is not initialised
    /\ lvars = <<>> /\ bufsize = 0

-----------------------------------------------------------------------------
(* _estats_agent_parse_header *)

AtLine(kind) ==
    apc = "parse" /\ apos <= Len(header) /\ header[apos].kind = kind

NewGroup(alive) == [vars |-> <<>>, size |-> 0, alive |-> alive]

ParseBlank ==
    /\ AtLine("blank")
    /\ apos' = apos + 1
    /\ UNCHANGED <<header, apc, heap, spec, read, curr, misuse, walkVars, logVars>>

\* A group the agent keeps.
ParseGroup ==
    /\ AtLine("group") /\ header[apos].group \in {"spec", "read"}
    /\ heap' = Append(heap, NewGroup(TRUE))
    /\ curr' = Len(heap')
    /\ spec' = IF header[apos].group = "spec" THEN Len(heap') ELSE spec
    /\ read' = IF header[apos].group = "read" THEN Len(heap') ELSE read
    /\ apos' = apos + 1
    /\ UNCHANGED <<header, apc, misuse, walkVars, logVars>>

\* Mutant: curr_gp keeps pointing to the group that is freed.
ParseOtherGroupKeepsCurr ==
    /\ AtLine("group") /\ header[apos].group \notin {"spec", "read"}
    /\ heap' = Append(heap, NewGroup(FALSE))
    /\ curr' = Len(heap')
    /\ apos' = apos + 1
    /\ UNCHANGED <<header, apc, spec, read, misuse, walkVars, logVars>>

\* Mutant: curr_gp keeps pointing to the group before.
ParseOtherGroupIgnored ==
    /\ AtLine("group") /\ header[apos].group \notin {"spec", "read"}
    /\ heap' = Append(heap, NewGroup(FALSE))
    /\ apos' = apos + 1
    /\ UNCHANGED <<header, apc, spec, read, curr, misuse, walkVars, logVars>>

\* A group it does not know is freed at once.
ParseOtherGroup ==
    /\ AtLine("group") /\ header[apos].group \notin {"spec", "read"}
    /\ heap' = Append(heap, NewGroup(FALSE))
    /\ curr' = 0
    /\ apos' = apos + 1
    /\ UNCHANGED <<header, apc, spec, read, misuse, walkVars, logVars>>

\* The result of _estats_group_new is not looked at: without memory the name is
\* copied through a null pointer.
ParseGroupNoMemory ==
    /\ AtLine("group")
    /\ apc' = "dead"
    /\ UNCHANGED <<header, apos, heap, spec, read, curr, misuse, walkVars, logVars>>

\* Mutant: the size is that of the last variable.
ParseVarLastSize ==
    /\ AtLine("var")
    /\ apos' = apos + 1
    /\ IF curr = 0 THEN UNCHANGED <<heap, misuse>>
       ELSE /\ heap' = [heap EXCEPT ![curr].vars = Append(@, header[apos].var),
                                    ![curr].size = VarEnd(header[apos].var)]
            /\ misuse' = (misuse \/ ~heap[curr].alive)
    /\ UNCHANGED <<header, apc, spec, read, curr, walkVars, logVars>>

ParseVar ==
    /\ AtLine("var")
    /\ apos' = apos + 1
    /\ IF curr = 0 THEN UNCHANGED <<heap, misuse>>
       ELSE /\ heap' = [heap EXCEPT ![curr].vars = Append(@, header[apos].var),
                                    ![curr].size = Larger(@, VarEnd(header[apos].var))]
            /\ misuse' = (misuse \/ ~heap[curr].alive)
    /\ UNCHANGED <<header, apc, spec, read, curr, walkVars, logVars>>

\* A line in a group the agent does not know is not scanned.
ParseBadIgnored ==
    /\ AtLine("bad") /\ curr = 0
    /\ apos' = apos + 1
    /\ UNCHANGED <<header, apc, heap, spec, read, curr, misuse, walkVars, logVars>>

\* The file cannot be read, a line does not scan, or there is no memory for a
\* variable, which is freed; estats_agent_attach frees the agent.
ParseFails ==
    /\ apc = "parse"
    /\ apc' = "failed"
    /\ UNCHANGED <<header, apos, heap, spec, read, curr, misuse, walkVars, logVars>>

EndOfHeader ==
    /\ apc = "parse" /\ apos > Len(header)
    /\ apc' = "attached"
    /\ UNCHANGED <<header, apos, heap, spec, read, curr, misuse, walkVars, logVars>>

Parse ==
    \/ ParseBlank \/ ParseGroup \/ ParseOtherGroup \/ ParseGroupNoMemory
    \/ ParseVar \/ ParseBadIgnored \/ ParseFails \/ EndOfHeader

-----------------------------------------------------------------------------
(* The agent in use *)

\* The first variable after position i that is not deprecated, or 0.
NextUndeprecated(s, i) ==
    LET first == {j \in DOMAIN s : j > i /\ ~s[j].dep /\ \A k \in (i + 1)..(j - 1) : s[k].dep}
    IN  IF first = {} THEN 0 ELSE CHOOSE j \in first : TRUE

\* Mutant: the first variable is taken as it is.
GetVarHeadDeprecated ==
    /\ apc = "attached" /\ read # 0
    /\ IF heap[read].vars = <<>> THEN apc' = "dead" /\ UNCHANGED walkVars
       ELSE walk' = 1 /\ visited' = <<>> /\ UNCHANGED apc
    /\ UNCHANGED <<header, apos, heap, spec, read, curr, misuse, logVars>>

\* estats_agent_get_var_head: an empty list has a null head, whose flags are read.
\* Without a read group it returns an error.
GetVarHead ==
    /\ apc = "attached" /\ read # 0
    /\ IF heap[read].vars = <<>> THEN apc' = "dead" /\ UNCHANGED walkVars
       ELSE /\ walk' = NextUndeprecated(heap[read].vars, 0)
            /\ visited' = <<>> /\ UNCHANGED apc
    /\ UNCHANGED <<header, apos, heap, spec, read, curr, misuse, logVars>>

\* estats_agent_find_var_from_name changes nothing, but goes through the read group
\* without looking whether there is one.
FindVarNoGroup ==
    /\ apc = "attached" /\ read = 0
    /\ apc' = "dead"
    /\ UNCHANGED <<header, apos, heap, spec, read, curr, misuse, walkVars, logVars>>

\* estats_var_next, after the application has had the variable
VarNext ==
    /\ apc = "attached" /\ walk # 0
    /\ visited' = Append(visited, heap[read].vars[walk])
    /\ walk' = NextUndeprecated(heap[read].vars, walk)
    /\ UNCHANGED <<header, agentVars, logVars>>

\* estats_agent_detach: the variables of both groups, the groups, the agent.  A
\* group that is missing is a null pointer.
Detach ==
    /\ apc = "attached"
    /\ apc' = IF spec = 0 \/ read = 0 THEN "dead" ELSE "detached"
    /\ heap' = [g \in DOMAIN heap |->
                  IF g \in {spec, read} /\ spec # 0
                  THEN [heap[g] EXCEPT !.alive = FALSE] ELSE heap[g]]
    /\ misuse' = (misuse \/ \E g \in {spec, read} \ {0} : ~Alive(g))
    /\ walk' = 0 /\ visited' = <<>>
    /\ UNCHANGED <<header, apos, spec, read, curr, logVars>>

-----------------------------------------------------------------------------
(* _estats_log_parse_header *)

LogAt(kind) == lpc = "parse" /\ lpos <= Len(header) /\ header[lpos].kind = kind

LogBlank ==
    /\ LogAt("blank")
    /\ lpos' = lpos + 1
    /\ UNCHANGED <<header, agentVars, walkVars, lpc, lgroup, lvars, bufsize>>

\* Mutant: only a group it knows is noted.
LogGroupRead ==
    /\ LogAt("group")
    /\ lgroup' = IF header[lpos].group = "read" THEN "read" ELSE lgroup
    /\ lpos' = lpos + 1
    /\ UNCHANGED <<header, agentVars, walkVars, lpc, lvars, bufsize>>

LogGroup ==
    /\ LogAt("group")
    /\ lgroup' = header[lpos].group
    /\ lpos' = lpos + 1
    /\ UNCHANGED <<header, agentVars, walkVars, lpc, lvars, bufsize>>

\* A line of another group is not scanned.
LogSkip ==
    /\ LogAt("var") \/ LogAt("bad")
    /\ lgroup # "read"
    /\ lpos' = lpos + 1
    /\ UNCHANGED <<header, agentVars, walkVars, lpc, lgroup, lvars, bufsize>>

\* bufsize is set to 0 for the variable, then raised to its end.
LogVar ==
    /\ LogAt("var") /\ lgroup = "read"
    /\ bufsize' = Larger(0, VarEnd(header[lpos].var))
    /\ lvars' = Append(lvars, header[lpos].var)
    /\ lpos' = lpos + 1
    /\ UNCHANGED <<header, agentVars, walkVars, lpc, lgroup>>

\* The file cannot be read.
LogUnreadable ==
    /\ lpc = "parse"
    /\ lpc' = "failed"
    /\ UNCHANGED <<header, agentVars, walkVars, lpos, lgroup, lvars, bufsize>>

\* bufsize is 0 when the line does not scan, or there is no memory.
LogFails ==
    /\ LogAt("var") \/ LogAt("bad")
    /\ lgroup = "read"
    /\ lpc' = "failed" /\ bufsize' = 0
    /\ UNCHANGED <<header, agentVars, walkVars, lpos, lgroup, lvars>>

LogEnd ==
    /\ lpc = "parse" /\ lpos > Len(header)
    /\ lpc' = "open"
    /\ UNCHANGED <<header, agentVars, walkVars, lpos, lgroup, lvars, bufsize>>

Log == LogBlank \/ LogGroup \/ LogSkip \/ LogVar \/ LogFails \/ LogUnreadable \/ LogEnd

-----------------------------------------------------------------------------

Next == Parse \/ GetVarHead \/ FindVarNoGroup \/ VarNext \/ Detach \/ Log

Spec == Init /\ [][Next]_vars

-----------------------------------------------------------------------------
(* Properties *)

GroupType == [vars : Seq(Var), size : Nat, alive : BOOLEAN]

TypeOK ==
    /\ header \in Seq(Line)
    /\ apc \in {"parse", "attached", "failed", "detached", "dead"}
    /\ apos \in 1..(Len(header) + 1)
    /\ heap \in Seq(GroupType)
    /\ spec \in 0..Len(heap) /\ read \in 0..Len(heap) /\ curr \in 0..Len(heap)
    /\ misuse \in BOOLEAN
    /\ walk \in Nat /\ visited \in Seq(Var)
    /\ lpc \in {"parse", "open", "failed"} /\ lpos \in 1..(Len(header) + 1)
    /\ lgroup \in Group /\ lvars \in Seq(Var) /\ bufsize \in Nat

\* The group that lines are added to, and those of the agent, are never freed ones,
\* nor freed twice (agent.c:70, "we may have a double-free scenario").
NoMisuse == ~misuse

\* Every variable of a group lies inside the size by which snapshots and reads of
\* the group allocate, and no smaller size would do.
SizeCovers ==
    \A g \in DOMAIN heap :
        /\ \A i \in DOMAIN heap[g].vars : VarEnd(heap[g].vars[i]) <= heap[g].size
        /\ heap[g].size > 0 => \E i \in DOMAIN heap[g].vars : VarEnd(heap[g].vars[i]) = heap[g].size

\* What s has at the positions idx, in order.
Sublist(s, idx) ==
    [n \in 1..Cardinality(idx) |->
        s[CHOOSE i \in idx : Cardinality({j \in idx : j <= i}) = n]]

\* The lines of the section that group g has in the header.
InSection(i, g) ==
    \E k \in 1..i :
        /\ header[k].kind = "group" /\ header[k].group = g
        /\ \A j \in (k + 1)..i : header[j].kind # "group"
SectionOf(g) ==
    Sublist([i \in DOMAIN header |-> header[i].var],
            {i \in DOMAIN header : header[i].kind = "var" /\ InSection(i, g)})
HasSection(g) == \E i \in DOMAIN header : header[i].kind = "group" /\ header[i].group = g

\* An agent that attached has a group for each of the two sections the header has,
\* with the variables of that section in its order, and none of another.
GroupsAreSections ==
    apc = "attached" =>
        /\ (spec # 0) = HasSection("spec") /\ (read # 0) = HasSection("read")
        /\ spec # 0 => heap[spec].vars = SectionOf("spec")
        /\ read # 0 => heap[read].vars = SectionOf("read")

\* The log's own parser finds the same variables in a copy of the header.
LogAgrees == lpc = "open" => lvars = SectionOf("read")

\* A walk over the variables has been given those before the one it is at that are not
\* deprecated, in order, and when it ends all of them.
WalkSkipsDeprecated ==
    apc = "attached" /\ (walk # 0 \/ visited # <<>>) =>
        LET s == heap[read].vars IN
        visited = Sublist(s, {i \in DOMAIN s : ~s[i].dep /\ (walk = 0 \/ i < walk)})
=============================================================================
