---------------------------- MODULE Replication ----------------------------
(***************************************************************************)
(* GraphReplicator (graphreplicator.hh), and its two users: the garbage    *)
(* collector (gcollect.cc) and the cloning of a space (sclone.cc).         *)
(*                                                                         *)
(* A graph is copied node by node, from lists of what is still to copy.  A *)
(* node that has been copied forwards to its copy, so that what was shared,*)
(* or cyclic, is so in the copy.  The contents of a node are               *)
(*                                                                         *)
(*   ref      a reference to a stable node                                 *)
(*   small    a value in the node itself, copied as it is                  *)
(*   struct   a value with stable nodes in it, such as a record            *)
(*   cell     an entity with an unstable node in it, or none, with a home  *)
(*   hold     a pointer to a stable node: FailedValue, ReadOnly            *)
(*   weak     the same, but weak: WeakReference                            *)
(*   gred     already replicated: GRedToStable, GRedToUnstable             *)
(*   todo     in a list, not initialized                                   *)
(*                                                                         *)
(* Spaces and threads are forwarded in the same way, by a pointer of their *)
(* own, and are left out.                                                  *)
(***************************************************************************)
EXTENDS Naturals, Sequences, FiniteSets

CONSTANT Sources   \* bound on the nodes of the graph

ASSUME SourcesAssumption == Sources \in Nat \ {0, 1}

Null == 0
RootNode == 1               \* an unstable node to copy, such as a register
RootCopy == Sources + 1     \* and its copy
RootSlot == 0               \* a pointer to a stable node, such as a protected node

VARIABLES
    job,        \* kind of replication, the nodes before, the loose ones, the
                \* entities whose home is cloned, and the root pointer
    nodes,      \* contents of the nodes
    loose,      \* the unstable ones
    todos,      \* stableNodes, unstableNodes: pairs of nodes; stableRefs, weakStableRefs:
                \* the pointers, each by the node that holds it
    rootRef,    \* the root pointer
    nodeBackups,
    done

replicationVars == <<job, nodes, loose, todos, rootRef, nodeBackups, done>>

Content(kind, out) == [kind |-> kind, out |-> out]
RefTo(n) == Content("ref", <<n>>)

IsCopyable(c) == c.kind \in {"small", "ref"}

RECURSIVE Dereference(_, _)
Dereference(m, n) == IF m[n].kind = "ref" THEN Dereference(m, m[n].out[1]) ELSE n

\* What the steps below change.
World == [nodes |-> nodes, loose |-> loose, todos |-> todos, root |-> rootRef]
Set(w, n, c) == [w EXCEPT !.nodes[n] = c]
NewNode(w) == Len(w.nodes) + 1
Alloc(w, c) == [w EXCEPT !.nodes = Append(@, c)]

-----------------------------------------------------------------------------
(* store.hh *)

\* init and copy of a node from another one
InitFrom(w, to, from) ==
    LET c == w.nodes[from]
    IN IF IsCopyable(c) THEN Set(w, to, c)
       ELSE IF from \notin w.loose THEN Set(w, to, RefTo(from))
       ELSE IF to \notin w.loose THEN Set(Set(w, to, c), from, RefTo(to))
       ELSE Set(Set(Alloc(w, c), to, RefTo(NewNode(w))), from, RefTo(NewNode(w)))

\* ensureStable
MakeStable(w, n) ==
    IF IsCopyable(w.nodes[n]) THEN Alloc(w, w.nodes[n])
    ELSE Set(Alloc(w, w.nodes[n]), n, RefTo(NewNode(w)))

-----------------------------------------------------------------------------
(* GraphReplicator *)

\* copyStableNode and copyUnstableNode, of a new node
CopyStableNode(w, from) ==
    [Alloc(w, Content("todo", << >>)) EXCEPT
        !.todos.stableNodes = <<<<NewNode(w), from>>>> \o @]
CopyUnstableNode(w, from) ==
    [Alloc(w, Content("todo", << >>)) EXCEPT
        !.loose = @ \cup {NewNode(w)},
        !.todos.unstableNodes = <<<<NewNode(w), from>>>> \o @]

CopyStableRef(w, slot) == [w EXCEPT !.todos.stableRefs = <<slot>> \o @]

\* Fault: a weak reference keeps its node alive.
CopyStrongRef(w, slot) == [w EXCEPT !.todos.stableRefs = <<slot>> \o @]

CopyWeakStableRef(w, slot) ==
    IF job.kind = "collect" THEN [w EXCEPT !.todos.weakStableRefs = <<slot>> \o @]
    ELSE CopyStableRef(w, slot)

\* The copy of contents c to a node, by its type: what gCollect does, and sClone
\* when the node is cloned.
CopyStruct(w, to, c) ==
    LET n == Len(c.out)
        new == [i \in 1..n |-> Len(w.nodes) + i]
        one == CopyStableNode(w, c.out[1])
    IN Set(IF n = 1 THEN one ELSE CopyStableNode(one, c.out[2]), to, Content("struct", new))

CopyCell(w, to, c) ==
    IF c.out = << >> THEN Set(w, to, c)
    ELSE Set(CopyUnstableNode(w, c.out[1]), to, Content("cell", <<NewNode(w)>>))

\* A pointer must not move before it is processed: it is put in a stable node.
CopyPointer(w, to, c) ==
    LET n == IF to \in w.loose THEN NewNode(w) ELSE to
        set == IF to \in w.loose THEN Set(Alloc(w, c), to, RefTo(n)) ELSE Set(w, to, c)
    IN IF c.kind = "weak" THEN CopyWeakStableRef(set, n) ELSE CopyStableRef(set, n)

CopyContent(w, to, c) ==
    CASE c.kind = "small" -> Set(w, to, c)
      [] c.kind = "struct" -> CopyStruct(w, to, c)
      [] c.kind = "cell" -> CopyCell(w, to, c)
      [] c.kind \in {"hold", "weak"} -> CopyPointer(w, to, c)

\* gCollect
GCollect(w, to, from) ==
    LET c == w.nodes[from]
    IN IF c.kind = "gred" THEN InitFrom(w, to, c.out[1]) ELSE CopyContent(w, to, c)

\* sClone: what has no home, or one that is not cloned, is shared.
SClone(w, to, from) ==
    LET c == w.nodes[from]
    IN IF c.kind = "gred" THEN InitFrom(w, to, c.out[1])
       ELSE IF c.kind \in {"small", "struct"} \/ from \in job.inside THEN CopyContent(w, to, c)
       ELSE InitFrom(w, to, from)

\* processNode of the garbage collector, and of the cloner, which makes a backup
\* of a node before it forwards it.
ProcessNode(w, to, from) ==
    LET copied == IF job.kind = "collect" THEN GCollect(w, to, from) ELSE SClone(w, to, from)
        forward == job.kind = "collect" \/ copied.nodes[from].kind # "gred"
    IN [world |-> IF forward THEN Set(copied, from, Content("gred", <<to>>)) ELSE copied,
        backups |-> IF job.kind = "clone" /\ forward
                    THEN <<<<from, copied.nodes[from]>>>> ELSE << >>]

Become(p) ==
    /\ nodes' = p.world.nodes /\ loose' = p.world.loose
    /\ todos' = p.world.todos /\ rootRef' = p.world.root
    /\ nodeBackups' = p.backups \o nodeBackups

\* processNodeInternal
ProcessStableNode ==
    /\ todos.stableNodes # << >>
    /\ LET next == Head(todos.stableNodes)
           w == [World EXCEPT !.todos.stableNodes = Tail(@)]
       IN Become(ProcessNode(w, next[1], Dereference(nodes, next[2])))
    /\ UNCHANGED <<job, done>>

ProcessUnstableNode ==
    /\ todos.stableNodes = << >> /\ todos.unstableNodes # << >>
    /\ LET next == Head(todos.unstableNodes)
           w == [World EXCEPT !.todos.unstableNodes = Tail(@)]
       IN Become(ProcessNode(w, next[1], Dereference(nodes, next[2])))
    /\ UNCHANGED <<job, done>>

\* The pointer of a slot
PointerIn(w, slot) == IF slot = RootSlot THEN w.root ELSE w.nodes[slot].out[1]
SetPointer(w, slot, n) ==
    IF slot = RootSlot THEN [w EXCEPT !.root = n] ELSE [w EXCEPT !.nodes[slot].out[1] = n]

\* processStableRefInternal
StableRef(w, slot, weak) ==
    LET from == Dereference(w.nodes, PointerIn(w, slot))
        dest == Dereference(w.nodes, w.nodes[from].out[1])
        Only(x) == [world |-> x, backups |-> << >>]
    IN IF PointerIn(w, slot) = Null THEN Only(w)
       ELSE IF w.nodes[from].kind = "gred"
       THEN Only(IF dest \in w.loose THEN SetPointer(MakeStable(w, dest), slot, NewNode(w))
                 ELSE SetPointer(w, slot, dest))
       ELSE IF weak THEN Only(SetPointer(w, slot, Null))
       ELSE ProcessNode(SetPointer(Alloc(w, Content("todo", << >>)), slot, NewNode(w)),
                        NewNode(w), from)

NoNodes == todos.stableNodes = << >> /\ todos.unstableNodes = << >>

ProcessStableRef ==
    /\ NoNodes /\ todos.stableRefs # << >>
    /\ Become(StableRef([World EXCEPT !.todos.stableRefs = Tail(@)],
                        Head(todos.stableRefs), FALSE))
    /\ UNCHANGED <<job, done>>

\* The weak ones come last.
ProcessWeakRef ==
    /\ NoNodes /\ todos.stableRefs = << >> /\ todos.weakStableRefs # << >>
    /\ Become(StableRef([World EXCEPT !.todos.weakStableRefs = Tail(@)],
                        Head(todos.weakStableRefs), TRUE))
    /\ UNCHANGED <<job, done>>

\* The end of doGC, or of doCloneSpace, which restores the nodes.
EndReplication ==
    /\ NoNodes /\ todos.stableRefs = << >> /\ todos.weakStableRefs = << >>
    /\ ~done /\ done' = TRUE
    /\ nodes' = [n \in DOMAIN nodes |->
                    LET those == {i \in DOMAIN nodeBackups : nodeBackups[i][1] = n}
                    IN IF those = {} THEN nodes[n]
                       ELSE nodeBackups[CHOOSE i \in those : \A j \in those : j <= i][2]]
    /\ nodeBackups' = << >>
    /\ UNCHANGED <<job, loose, todos, rootRef>>

-----------------------------------------------------------------------------
(* The graphs that are replicated *)

\* The nodes that are part of the contents of others.
Owned(m) == UNION {{m[n].out[i] : i \in DOMAIN m[n].out} :
                      n \in {k \in DOMAIN m : m[k].kind \in {"struct", "cell"}}}
LooseIn(m) == {RootNode} \cup UNION {{m[n].out[i] : i \in DOMAIN m[n].out} :
                      n \in {k \in DOMAIN m : m[k].kind = "cell"}}

Others == 2..Sources
Contents ==
    {Content("small", << >>), Content("cell", << >>)}
    \cup {Content(k, <<n>>) : k \in {"ref", "struct", "cell", "hold", "weak"}, n \in Others}
    \cup {Content("struct", p) : p \in {q \in Others \X Others : q[1] < q[2]}}

\* A node is in one place only, no reference leads to an unstable node, and none
\* leads to itself.
IsGraph(m) ==
    /\ \A n, k \in DOMAIN m : \A i \in DOMAIN m[n].out, j \in DOMAIN m[k].out :
          /\ m[n].kind \in {"struct", "cell"} /\ m[k].kind \in {"struct", "cell"}
          /\ m[n].out[i] = m[k].out[j]
          => n = k /\ i = j
    /\ \A n \in DOMAIN m : m[n].kind \in {"ref", "hold", "weak"} => m[n].out[1] \notin LooseIn(m)
    /\ \A n \in DOMAIN m : m[n].kind = "ref" =>
          \E k \in DOMAIN m : m[k].kind # "ref" /\ (m[n].out[1] = k \/ m[m[n].out[1]] = RefTo(k))

\* What can be reached from a node, or from some, by links of all kinds or by
\* the strong ones only.
RECURSIVE Reach(_, _, _)
Reach(m, from, weak) ==
    LET next == UNION {{m[n].out[i] : i \in DOMAIN m[n].out} :
                         n \in {k \in from : weak \/ m[k].kind # "weak"}} \ {Null}
    IN IF next \subseteq from THEN from ELSE Reach(m, from \cup next, weak)

\* Nothing that is not cloned leads into what is.
Cloneable(m, inside) ==
    Reach(m, {n \in DOMAIN m : m[n].kind \in {"cell", "hold", "weak"}} \ inside, TRUE)
        \cap inside = {}

Job(kind, before, inside, pointer) ==
    [kind |-> kind, before |-> before, inside |-> inside, root |-> pointer]

ReplicationOf(j) ==
    /\ job = j
    /\ nodes = Append(job.before, Content("todo", << >>))
    /\ loose = LooseIn(job.before) \cup {RootCopy}
    /\ todos = [stableNodes |-> << >>, unstableNodes |-> <<<<RootCopy, RootNode>>>>,
                stableRefs |-> <<RootSlot>>, weakStableRefs |-> << >>]
    /\ rootRef = job.root
    /\ nodeBackups = << >>
    /\ done = FALSE

ReplicationInit ==
    \E m \in {x \in [1..Sources -> Contents] : IsGraph(x)} :
       \E pointer \in ({Null} \cup Others) \ LooseIn(m) :
          /\ Reach(m, {RootNode, pointer} \ {Null}, TRUE) = 1..Sources
          /\ \/ ReplicationOf(Job("collect", m, {}, pointer))
             \/ \E inside \in SUBSET {n \in 1..Sources : m[n].kind = "cell"} :
                   Cloneable(m, inside) /\ ReplicationOf(Job("clone", m, inside, pointer))

ReplicationNext ==
    \/ ProcessStableNode
    \/ ProcessUnstableNode
    \/ ProcessStableRef
    \/ ProcessWeakRef
    \/ EndReplication

-----------------------------------------------------------------------------
(* Properties *)

\* The nodes of the graph and their copies, each with the ones it leads to; what
\* is below a node that is shared is shared.
RECURSIVE Correspond(_)
Correspond(R) ==
    LET before == job.before
        below(p) == {<<Dereference(before, before[p[1]].out[i]),
                       Dereference(nodes, nodes[p[2]].out[i])>> :
                         i \in {j \in DOMAIN before[p[1]].out \cap DOMAIN nodes[p[2]].out :
                                  nodes[p[2]].out[j] # Null}}
        copies == {p \in R : Dereference(nodes, p[1]) # p[2]}
        more == R \cup UNION {below(p) : p \in copies}
    IN IF more = R THEN R ELSE Correspond(more)

Correspondence ==
    Correspond({<<Dereference(job.before, RootNode), Dereference(nodes, RootCopy)>>}
               \cup IF job.root = Null THEN {}
                    ELSE {<<Dereference(job.before, job.root), Dereference(nodes, rootRef)>>})

Strong == Reach(job.before, {RootNode, job.root} \ {Null}, FALSE)

\* A collection, and a clone, of any graph, cyclic or with shared parts, is a copy
\* of it: what was one node is one node, what was two is two; a collection leaves
\* no link to the old memory, and clears just the weak references to what
\* is not otherwise reached; a clone shares just what is not in the space,
\* and the original is as it was (graphreplicator.hh, runCopyLoop; sclone.cc).
CopyIsFaithful ==
    done =>
      LET R == Correspondence
          old == job.before
          Shared(n) == job.kind = "clone" /\ old[n].kind \in {"cell", "hold", "weak"}
                                         /\ n \notin job.inside
      IN /\ \A p \in R :
               /\ nodes[p[2]].kind = old[p[1]].kind
               /\ DOMAIN nodes[p[2]].out = DOMAIN old[p[1]].out
               /\ IF Shared(p[1]) THEN p[2] = Dereference(nodes, p[1]) ELSE p[2] > Sources
               /\ old[p[1]].kind = "weak" /\ job.kind = "collect" =>
                     (nodes[p[2]].out[1] = Null <=> Dereference(old, old[p[1]].out[1]) \notin Strong)
         /\ \A p, q \in R : old[p[1]].kind # "small" => (p[1] = q[1] <=> p[2] = q[2])
         /\ job.kind = "clone" => \A n \in 1..Sources :
               IF n \in LooseIn(old) THEN nodes[Dereference(nodes, n)] = old[Dereference(old, n)]
               ELSE nodes[n] = old[n]

=============================================================================
