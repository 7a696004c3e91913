------------------------------- MODULE Pickle -------------------------------
(***************************************************************************)
(* Pickler::pickle (pickler.cc) writes a graph of values to a file, and    *)
(* Unpickler::unpickle (unpickler.cc) reads it.                            *)
(*                                                                         *)
(* A node has a kind, what identifies it (the name of an atom or of a      *)
(* built-in, a UUID), and the nodes it refers to, the arity or the label   *)
(* last.  Kinds that the code treats alike are one: "atom" for every       *)
(* feature, "value" for the values that are not features, "tuple" for cons *)
(* and patterns, "abstraction" for the entities with a UUID, "resource"    *)
(* for the types that have no number in the types record.  The file is the *)
(* sequence of its entries.                                                *)
(***************************************************************************)
EXTENDS Naturals, Sequences, FiniteSets

VARIABLES
    source,         \* the graph before the call, and its temporary replacements
    memory,         \* the graph
    phase,          \* where pickle() is, then unpickle()
    queued,         \* todoFrom and todoTo: a node, and the place for its index
    listed,         \* nodes: [index, node], the last one first
    refs,           \* of each index, the indices it refers to; 0 if not known yet
    backups,        \* nodeBackups and nodeReplacementBackups: [node, saved]
    redirections,
    cursor,         \* the position in the list, or in the file
    output,         \* the file: entries [index, kind, id, out]
    outcome,        \* of pickle(): "written", "waits" or "resources"
    known,          \* the UUIDs of the entities of the machine that reads
    rebuilt         \* nodes of the Unpickler

pickleVars == <<source, memory, phase, queued, listed, refs, backups, redirections,
                cursor, output, outcome, known, rebuilt>>

PickleNode(kind, id, out) == [kind |-> kind, id |-> id, out |-> out]

RECURSIVE Follow(_, _)
Follow(m, n) == IF m[n].kind = "reference" THEN Follow(m, m[n].out[1]) ELSE n

\* The graphs: node 1 refers to 2 and 3, which are of any kind and may refer to
\* one another; records of equal and of different arities; features that are equal
\* but are not the same node, and replacements that share and hide nodes.
AnyNode(uuid, arity) ==
    {PickleNode("record", "", <<x, arity>>) : x \in {2, 3}}
    \cup {PickleNode("chunk", "", <<x>>) : x \in {1, 2, 3}}
    \cup {PickleNode("abstraction", uuid, <<x>>) : x \in {2, 3}}
    \cup {PickleNode("builtin", name, << >>) : name \in {"b", "c"}}
    \cup {PickleNode(kind, "", << >>) : kind \in {"value", "future", "resource"}}

PickleGraphs ==
    {<<PickleNode("tuple", "", <<2, 3, 5>>), two, three,
       PickleNode("arity", "", <<5, 6>>), PickleNode("atom", "a", << >>),
       PickleNode("atom", name, << >>), PickleNode("arity", "", features)>> :
        two \in AnyNode("u2", 4), three \in AnyNode("u3", 7),
        name \in {"a", "b"}, features \in {<<5, 6>>, <<6, 5>>, <<6, 6>>}}

TemporaryReplacements == {<< >>, <<<<3, 6>>>>, <<<<2, 3>>>>, <<<<2, 3>>, <<3, 6>>>>}

PickleOf(graph, replacements) ==
    /\ source = [nodes |-> graph, replacements |-> replacements]
    /\ memory = source.nodes
    /\ phase = "replace"
    /\ queued = << >> /\ listed = << >> /\ refs = << >> /\ redirections = << >>
    /\ backups = [nodes |-> << >>, replacements |-> << >>]
    /\ output = << >> /\ outcome = "none" /\ rebuilt = << >>
    /\ cursor = 1 /\ known = {}

PickleInit ==
    \E graph \in PickleGraphs, replacements \in TemporaryReplacements :
        PickleOf(graph, replacements)

-----------------------------------------------------------------------------
(* pickle(): collecting the nodes *)

Backup(m, n) == [node |-> n, saved |-> m[n]]

\* reinit() of a node from another one
Reinit(m, n, from) ==
    IF n = from THEN m
    ELSE IF m[from].kind \in {"atom", "value", "reference"} THEN [m EXCEPT ![n] = m[from]]
    ELSE [m EXCEPT ![n] = PickleNode("reference", "", <<from>>)]

RECURSIVE ReplaceAll(_, _)
ReplaceAll(s, replacements) ==
    IF replacements = << >> THEN s
    ELSE LET last == Len(replacements)
             r == replacements[last]
         IN ReplaceAll([memory |-> Reinit(s.memory, r[1], r[2]),
                        saved |-> <<Backup(s.memory, r[1])>> \o s.saved],
                       SubSeq(replacements, 1, last - 1))

RECURSIVE RestoreNodes(_, _)
RestoreNodes(m, saved) ==
    IF saved = << >> THEN m
    ELSE RestoreNodes([m EXCEPT ![Head(saved).node] = Head(saved).saved], Tail(saved))

\* The temporary replacements, and the index of the value itself.
Replace ==
    /\ phase = "replace"
    /\ LET s == ReplaceAll([memory |-> memory, saved |-> << >>], source.replacements)
       IN /\ memory' = s.memory
          /\ backups' = [backups EXCEPT !.replacements = s.saved]
          /\ queued' = <<[from |-> Follow(s.memory, 1), index |-> 0, place |-> 1]>>
    /\ phase' = "collect"
    /\ UNCHANGED <<source, listed, refs, redirections, cursor, output, outcome, known, rebuilt>>

BindRef(r, to, index) == IF to.index = 0 THEN r ELSE [r EXCEPT ![to.index][to.place] = index]

\* One turn of the loop: a node that has an index, or serialize() of one that
\* has none yet.
Collect ==
    /\ phase = "collect" /\ queued # << >>
    /\ LET to == Head(queued)
           n == to.from
           c == memory[n]
           index == Len(refs) + 1
       IN IF c.kind = "serialized"
          THEN /\ refs' = BindRef(refs, to, c.out[1])
               /\ queued' = Tail(queued)
               /\ UNCHANGED <<memory, listed, backups>>
          ELSE /\ refs' = BindRef(Append(refs, [i \in 1..Len(c.out) |-> 0]), to, index)
               /\ queued' = Tail(queued) \o
                     [i \in 1..Len(c.out) |->
                        [from |-> Follow(memory, c.out[i]), index |-> index, place |-> i]]
               /\ listed' = <<[index |-> index, node |-> n]>> \o listed
               /\ backups' = [backups EXCEPT !.nodes = <<Backup(memory, n)>> \o @]
               /\ memory' = [memory EXCEPT ![n] = PickleNode("serialized", "", <<index>>)]
    /\ UNCHANGED <<source, phase, redirections, cursor, output, outcome, known, rebuilt>>

\* A future is waited for, after all of them are marked as needed; a resource is
\* an error.
Restore ==
    /\ phase = "collect" /\ queued = << >>
    /\ LET restored == RestoreNodes(memory, backups.nodes)
           Found(kind) == {n \in 1..Len(restored) :
                              restored[n].kind = kind /\ \E i \in 1..Len(listed) : listed[i].node = n}
           giveUp == Found("future") \cup Found("resource") # {}
           marked == [n \in 1..Len(restored) |->
                        IF n \in Found("future") THEN [restored[n] EXCEPT !.id = "needed"]
                        ELSE restored[n]]
       IN /\ memory' = IF giveUp THEN RestoreNodes(marked, backups.replacements) ELSE restored
          /\ outcome' = IF Found("future") # {} THEN "waits"
                        ELSE IF Found("resource") # {} THEN "resources" ELSE "none"
          /\ phase' = IF giveUp THEN "done" ELSE "values"
          /\ backups' = [backups EXCEPT !.nodes = << >>,
                                        !.replacements = IF giveUp THEN << >> ELSE @]
    /\ redirections' = [i \in 1..Len(refs) |-> i]
    /\ UNCHANGED <<source, queued, listed, refs, cursor, output, known, rebuilt>>

-----------------------------------------------------------------------------
(* pickle(): writing them *)

\* Fault: the index is not redirected.
WriteIndex(index) == index

WriteRef(index) == redirections[index]

Entry(index, c) ==
    [index |-> index, kind |-> c.kind, id |-> c.id,
     out |-> [i \in 1..Len(refs[index]) |-> WriteRef(refs[index][i])]]

NodeOf(index) == listed[Len(listed) + 1 - index].node

\* findFeature, findBuiltin and findArity: the nodes are equal; arities are only
\* compared when their labels have the same index.
EqualNodes(i, j) ==
    LET a == memory[NodeOf(i)]
        b == memory[NodeOf(j)]
        names(c) == [k \in 1..Len(c.out) |-> memory[Follow(memory, c.out[k])].id]
        label(index) == redirections[refs[index][Len(refs[index])]]
    IN /\ a.kind = b.kind
       /\ CASE a.kind \in {"atom", "builtin"} -> a.id = b.id
            [] a.kind = "arity" -> label(i) = label(j) /\ names(a) = names(b)
            [] OTHER -> FALSE

\* Which of writeValues, writeArities and writeOthers removes a node from the list.
WrittenIn(c) ==
    CASE c.kind \in {"atom", "builtin", "value"} -> "values"
      [] c.kind = "arity" -> "arities"
      [] OTHER -> "others"

Pending == SelectSeq(listed, LAMBDA p : WrittenIn(memory[p.node]) = phase)

\* A node is written, unless an equal one has been.
Write ==
    /\ phase \in {"values", "arities", "others"} /\ cursor <= Len(Pending)
    /\ LET index == Pending[cursor].index
           same == {i \in 1..Len(output) : EqualNodes(index, output[i].index)}
       IN IF same # {}
          THEN /\ redirections' = [redirections EXCEPT ![index] = output[CHOOSE i \in same : TRUE].index]
               /\ UNCHANGED output
          ELSE /\ output' = Append(output, Entry(index, memory[NodeOf(index)]))
               /\ UNCHANGED redirections
    /\ cursor' = cursor + 1
    /\ UNCHANGED <<source, memory, phase, queued, listed, refs, backups, outcome, known, rebuilt>>

NextPhase ==
    /\ phase \in {"values", "arities"} /\ cursor > Len(Pending)
    /\ phase' = IF phase = "values" THEN "arities" ELSE "others"
    /\ cursor' = 1
    /\ UNCHANGED <<source, memory, queued, listed, refs, backups, redirections, output,
                   outcome, known, rebuilt>>

-----------------------------------------------------------------------------
(* unpickle() *)

Unbound == PickleNode("unbound", "", << >>)

\* The end of pickle(); and a machine, that may have the entities, reads the file.
EndWrite ==
    /\ phase = "others" /\ cursor > Len(Pending)
    /\ memory' = RestoreNodes(memory, backups.replacements)
    /\ backups' = [backups EXCEPT !.replacements = << >>]
    /\ outcome' = "written"
    /\ phase' = "read" /\ cursor' = 1
    /\ rebuilt' = [i \in 1..Len(refs) |-> Unbound]
    /\ known' \in {{}, {"u2", "u3"}}
    /\ UNCHANGED <<source, queued, listed, refs, redirections, output>>

\* readValue; readGlobalEntity skips an entity that the machine has.
ReadValue(e) ==
    IF e.kind = "abstraction" /\ e.id \in known THEN PickleNode("entity", e.id, << >>)
    ELSE PickleNode(e.kind, e.id, e.out)

Read ==
    /\ phase = "read" /\ cursor <= Len(output)
    /\ LET e == output[cursor]
       IN /\ rebuilt' = [rebuilt EXCEPT ![e.index] = ReadValue(e)]
          /\ known' = known \cup (IF e.kind = "abstraction" THEN {e.id} ELSE {})
    /\ cursor' = cursor + 1
    /\ UNCHANGED <<source, memory, phase, queued, listed, refs, backups, redirections,
                   output, outcome>>

EndRead ==
    /\ phase = "read" /\ cursor > Len(output)
    /\ phase' = "done"
    /\ UNCHANGED <<source, memory, queued, listed, refs, backups, redirections, cursor,
                   output, outcome, known, rebuilt>>

PickleNext == Replace \/ Collect \/ Restore \/ Write \/ NextPhase \/ EndWrite \/ Read \/ EndRead

-----------------------------------------------------------------------------
(* Properties *)

\* What is pickled: the graph with its replacements.
Pickled ==
    [n \in 1..Len(source.nodes) |->
        LET to == {source.replacements[i][2] : i \in {k \in 1..Len(source.replacements) :
                                                        source.replacements[k][1] = n}}
        IN IF to = {} THEN source.nodes[n]
           ELSE PickleNode("reference", "", <<CHOOSE x \in to : TRUE>>)]

PickleAlike(a, b) ==
    IF b.kind = "entity" THEN a.kind = "abstraction" /\ a.id = b.id
    ELSE a.kind = b.kind /\ a.id = b.id /\ Len(a.out) = Len(b.out)

\* The pairs of a node and the index that stands for it.
RECURSIVE Represented(_, _)
Represented(g, pairs) ==
    LET next == pairs \cup UNION
            {{<<Follow(g, g[p[1]].out[i]), rebuilt[p[2]].out[i]>> : i \in 1..Len(rebuilt[p[2]].out)} :
                p \in {q \in pairs : PickleAlike(g[q[1]], rebuilt[q[2]])}}
    IN IF next = pairs THEN pairs ELSE Represented(g, next)

RECURSIVE ReachIn(_, _)
ReachIn(g, ns) ==
    LET next == ns \cup UNION {{Follow(g, g[n].out[i]) : i \in 1..Len(g[n].out)} : n \in ns}
    IN IF next = ns THEN ns ELSE ReachIn(g, next)

\* The value that is read is the one that was pickled, with its replacements and
\* with what is shared or cyclic in it; an entity stays one entity.  The value that
\* the caller holds is as it was, whether pickle() wrote it, waits or raised; it
\* waits when there is a future, and then all of them are needed.  A record is
\* read after its arity, which Record asserts, and an arity after its label
\* (pickler.cc, unpickler.cc).
PickleIsFaithful ==
    LET g == Pickled
        top == Follow(g, 1)
        pairs == Represented(g, {<<top, 1>>})
        reached == {g[n].kind : n \in ReachIn(g, {top})}
        needed == {n \in 1..Len(memory) : memory[n].id = "needed"}
        before(n, i) == \E k \in 1..(n - 1) : output[k].index = i
    IN /\ \A n \in 1..Len(output) :
             output[n].kind \in {"record", "arity"} =>
                before(n, output[n].out[Len(output[n].out)])
       /\ phase = "done" =>
          /\ outcome = IF "future" \in reached THEN "waits"
                       ELSE IF "resource" \in reached THEN "resources" ELSE "written"
          /\ outcome # "waits" => memory = source.nodes
          /\ outcome = "waits" =>
               /\ needed = {n \in ReachIn(g, {top}) : g[n].kind = "future"}
               /\ \A n \in 1..Len(memory) : n \notin needed => memory[n] = source.nodes[n]
          /\ outcome = "written" =>
               /\ \A p \in pairs : PickleAlike(g[p[1]], rebuilt[p[2]])
               /\ \A p, q \in pairs :
                    g[p[1]].kind \in {"chunk", "abstraction"} => (p[1] = q[1] <=> p[2] = q[2])

=============================================================================
