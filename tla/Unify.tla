-------------------------------- MODULE Unify --------------------------------
(***************************************************************************)
(* Unification, equality and pattern matching of the graphs of the store   *)
(* (unify.cc, unify.hh): StructuralDualWalk, which compares two graphs pair*)
(* by pair.  Each node it has compared with another one becomes a reference*)
(* to it, so that the walk of a cyclic graph ends; these temporary bindings*)
(* are undone when it fails, when it suspends, or in a subspace.           *)
(*                                                                         *)
(* A structure of two elements is a Cons, one of one element a Tuple; the  *)
(* labels of all tuples are the same.  Node `Fresh` is the one that two    *)
(* unstable nodes are moved to.  What a binding does to the threads that   *)
(* wait, and to the trail of a space, is in Dataflow and in Spaces.        *)
(***************************************************************************)
EXTENDS Naturals, Sequences, FiniteSets

CONSTANT MaxWidth   \* bound on the elements of a structure: 1 or 2

ASSUME MaxWidthAssumption == MaxWidth \in 1..2

Left == 1    \* the two operands; the right one is the pattern
Right == 2
Fresh == 6
StoreNodes == 1..6

Value(k) == [kind |-> k, args |-> << >>]
Struct(args) == [kind |-> "struct", args |-> args]
Ref(n) == [kind |-> "ref", args |-> <<n>>]
Capture(i) == [kind |-> "capture", args |-> <<i>>]   \* 0: wildcard, which has index -1
Conj(args) == [kind |-> "conj", args |-> args]
Open(args) == [kind |-> "open", args |-> args]       \* features 1, and 2 if there are two

VARIABLES
    task,        \* what is asked: kind, onTopLevel, the store before, the unstable nodes
    store,       \* contents of the nodes
    stack,       \* pairs to process, and its first pair is the current one
    rebindTrail, suspendTrail,
    captures,    \* what captures 1 and 2 hold; 0: nothing
    waiting,     \* the nodes that were asked to put the control variable in their lists
    result

unifyVars == <<task, store, stack, rebindTrail, suspendTrail, captures, waiting, result>>

\* The node that RichNode(n) stands for: at most one reference leads to another.
Deref(s, n) ==
    LET step(m) == IF s[m].kind = "ref" THEN s[m].args[1] ELSE m
    IN step(step(step(step(step(n)))))

\* getStructuralBehavior
IsVariable(v) == v.kind \in {"var", "future", "failed"}

\* getBindingPriority
BindingPriority(v) == CASE v.kind = "var" -> 90 [] v.kind = "future" -> 80 [] v.kind = "failed" -> 10

l == Deref(store, Head(stack)[1])
r == Deref(store, Head(stack)[2])

Zip(a, b) == [i \in 1..Len(a) |-> <<a[i], b[i]>>]

-----------------------------------------------------------------------------
(* StructuralDualWalk *)

\* undoBindings, oldest first
UndoBindings(s, trail) ==
    [n \in StoreNodes |->
        LET those == {i \in 1..Len(trail) : trail[i][1] = n}
        IN IF those = {} THEN s[n]
           ELSE trail[CHOOSE i \in those : \A j \in those : j <= i][2]]

\* The walk suspends: addToSuspendList of the control variable is called of all that
\* is transient in the pairs of the suspend trail.  A failed value has no list, and
\* asserts that it is never asked to keep anything; here, as without assertions, it
\* does not (see NoTestOnFailed in Dataflow).
SuspendOn(s, trail) ==
    {n \in StoreNodes :
        /\ IsVariable(s[n])
        /\ \E i \in 1..Len(trail) : n \in {Deref(s, trail[i][1]), Deref(s, trail[i][2])}}

\* The end of run, when the stack is empty.
Finish(s, trail, suspended) ==
    LET undone == UndoBindings(s, trail)
    IN /\ IF suspended # << >>
          THEN /\ store' = undone
               /\ waiting' = SuspendOn(undone, suspended)
               /\ result' = "wait"
          ELSE /\ store' = IF task.onTopLevel THEN s ELSE undone
               /\ result' = "true"
               /\ UNCHANGED waiting
       /\ stack' = << >> /\ rebindTrail' = << >> /\ suspendTrail' = << >>

\* The current pair is done: the next one.
GoOn(s, pushed, trail, suspended) ==
    LET rest == pushed \o Tail(stack)
    IN \/ /\ rest # << >>
          /\ store' = s /\ stack' = rest
          /\ rebindTrail' = trail /\ suspendTrail' = suspended
          /\ UNCHANGED <<waiting, result>>
       \/ /\ rest = << >>
          /\ Finish(s, trail, suspended)

Pass == GoOn(store, << >>, rebindTrail, suspendTrail) /\ UNCHANGED captures

\* waitFor: the pair is left for later, and the walk goes on with the others.
WaitForPair ==
    /\ GoOn(store, << >>, rebindTrail, Append(suspendTrail, <<l, r>>))
    /\ UNCHANGED captures

\* Fault: the temporary bindings stay.
CleanupKeepsBindings(how) ==
    /\ stack' = << >> /\ suspendTrail' = << >> /\ rebindTrail' = << >>
    /\ result' = how
    /\ UNCHANGED <<store, captures, waiting>>

\* cleanupOnFailure
CleanupOnFailure(how) ==
    /\ stack' = << >> /\ suspendTrail' = << >> /\ rebindTrail' = << >>
    /\ store' = UndoBindings(store, rebindTrail)
    /\ result' = how
    /\ UNCHANGED <<captures, waiting>>

\* rebind: the less stable of the two nodes becomes a reference to the other one.
Rebind(pushed) ==
    LET stableR == r \notin task.unstable
        stableL == l \notin task.unstable
        s == IF stableR THEN [store EXCEPT ![l] = Ref(r)]
             ELSE IF stableL THEN [store EXCEPT ![r] = Ref(l)]
             ELSE [store EXCEPT ![Fresh] = store[l], ![l] = Ref(Fresh), ![r] = Ref(Fresh)]
        backup == IF stableR THEN <<l, store[l]>> ELSE <<r, store[r]>>
    IN GoOn(s, pushed, Append(rebindTrail, backup), suspendTrail)

SameNode == l = r /\ Pass

\* doCapture
DoCapture ==
    /\ l # r /\ task.kind = "match" /\ store[r].kind = "capture"
    /\ captures' = [i \in {1, 2} |-> IF i = store[r].args[1] THEN l ELSE captures[i]]
    /\ GoOn(store, << >>, rebindTrail, suspendTrail)

\* doConjunction, which pushes the last part first
DoConjunction ==
    /\ l # r /\ task.kind = "match" /\ store[r].kind = "conj"
    /\ GoOn(store, [i \in 1..Len(store[r].args) |-> <<l, store[r].args[i]>>],
            rebindTrail, suspendTrail)
    /\ UNCHANGED captures

\* doOpenRecord, which pushes the first feature first
DoOpenRecord ==
    /\ l # r /\ task.kind = "match" /\ store[r].kind = "open"
    /\ LET n == Len(store[r].args)
       IN \/ IsVariable(store[l]) /\ store[l].kind # "failed" /\ WaitForPair
          \/ store[l].kind = "failed" /\ CleanupOnFailure("raise")
          \/ ~IsVariable(store[l]) /\ (store[l].kind # "struct" \/ Len(store[l].args) < n)
             /\ CleanupOnFailure("false")
          \/ /\ store[l].kind = "struct" /\ Len(store[l].args) >= n
             /\ GoOn(store, [i \in 1..n |-> <<store[l].args[n + 1 - i], store[r].args[n + 1 - i]>>],
                     rebindTrail, suspendTrail)
             /\ UNCHANGED captures

Special == task.kind = "match" /\ store[r].kind \in {"capture", "conj", "open"}

\* One of the two is a variable, and they are unified: the one to bind, and to
\* what.  A future waits, and a failed value raises its exception.
BindVariable ==
    /\ l # r /\ task.kind = "unify" /\ (IsVariable(store[l]) \/ IsVariable(store[r]))
    /\ LET leftIsBound ==
               /\ IsVariable(store[l])
               /\ IsVariable(store[r]) =>
                     BindingPriority(store[l]) > BindingPriority(store[r])
           self == IF leftIsBound THEN l ELSE r
           src == IF leftIsBound THEN r ELSE l
       IN \/ /\ store[self].kind = "var"
             /\ GoOn([store EXCEPT ![self] = Ref(src)], << >>, rebindTrail, suspendTrail)
             /\ UNCHANGED captures
          \/ store[self].kind = "future" /\ WaitForPair
          \/ store[self].kind = "failed" /\ CleanupOnFailure("raise")

\* Or they are compared.
WaitVariable ==
    /\ l # r /\ task.kind # "unify" /\ ~Special
    /\ LET self == IF IsVariable(store[l]) THEN l ELSE r
       IN /\ IsVariable(store[self])
          /\ \/ store[self].kind # "failed" /\ WaitForPair
             \/ store[self].kind = "failed" /\ CleanupOnFailure("raise")

\* Both are values.  Structures of different types or widths are different.
CompareValues ==
    /\ l # r /\ ~Special /\ ~IsVariable(store[l]) /\ ~IsVariable(store[r])
    /\ LET vl == store[l]
           vr == store[r]
           same == vl.kind = vr.kind /\ Len(vl.args) = Len(vr.args)
       IN \/ ~same /\ CleanupOnFailure("false")
          \/ same /\ vl.kind # "struct" /\ Pass
          \/ /\ same /\ vl.kind = "struct"
             /\ IF task.kind = "match"
                THEN GoOn(store, Zip(vl.args, vr.args), rebindTrail, suspendTrail)
                ELSE Rebind(Zip(vl.args, vr.args))
             /\ UNCHANGED captures

ProcessPair ==
    /\ result = "none"
    /\ UNCHANGED task
    /\ \/ SameNode
       \/ DoCapture
       \/ DoConjunction
       \/ DoOpenRecord
       \/ BindVariable
       \/ WaitVariable
       \/ CompareValues

-----------------------------------------------------------------------------
(* quickPatternMatch, before the walk *)

Quick(how, caps) == [how |-> how, captures |-> caps]
Unknown == Quick("none", captures)

Put(caps, p, v) == [i \in {1, 2} |-> IF i = store[p].args[1] THEN v ELSE caps[i]]

\* All but Cons
QuickMatchFlat(v, p) ==
    LET vv == store[v]
        vp == store[p]
        same == vv.kind = vp.kind /\ Len(vv.args) = Len(vp.args)
    IN CASE v = p -> Quick("true", captures)
         [] v # p /\ vp.kind = "capture" -> Quick("true", Put(captures, p, v))
         [] v # p /\ vp.kind # "capture" /\
               (IsVariable(vv) \/ IsVariable(vp) \/ vp.kind \in {"conj", "open"}) -> Unknown
         [] OTHER -> IF ~same THEN Quick("false", captures)
                     ELSE IF vv.kind # "struct" THEN Quick("true", captures)
                     ELSE IF store[vp.args[1]].kind # "capture" THEN Unknown
                     ELSE Quick("true", Put(captures, vp.args[1], vv.args[1]))

\* A Cons: its tail must be a capture, and its head no Cons.
IsCons(v) == v.kind = "struct" /\ Len(v.args) = 2

QuickMatch(v, p) ==
    IF v = p \/ ~IsCons(store[v]) \/ ~IsCons(store[p])
    THEN QuickMatchFlat(v, p)
    ELSE LET values == store[v].args
             patterns == store[p].args
             head == store[patterns[1]]
         IN IF store[patterns[2]].kind # "capture" \/ IsCons(head) \/ IsVariable(head)
                                                  \/ head.kind \in {"conj", "open"}
            THEN Unknown
            ELSE LET first == QuickMatchFlat(values[1], patterns[1])
                 IN IF first.how = "true"
                    THEN Quick("true", Put(first.captures, patterns[2], values[2]))
                    ELSE first

\* patternMatch, first part
QuickPatternMatch ==
    /\ result = "quick"
    /\ LET q == QuickMatch(Left, Right)
       IN /\ result' = q.how
          /\ captures' = q.captures
          /\ stack' = IF q.how = "none" THEN stack ELSE << >>
    /\ UNCHANGED <<task, store, rebindTrail, suspendTrail, waiting>>

-----------------------------------------------------------------------------
Args(nodes) == UNION {[1..w -> nodes] : w \in 1..MaxWidth}

\* What unify and equals are given: two structures, whose elements are these
\* themselves, a third node and a variable or an atom.  An operand that is
\* unstable, such as a register, is the element of no structure.
Operands(unstable) ==
    LET inner == {Left, Right, 3, 4} \ unstable
        structs == {Struct(args) : args \in Args(inner)}
        others == {Value(k) : k \in {"b", "var", "future", "failed"}}
    IN {[n \in StoreNodes |->
            CASE n = Left -> x [] n = Right -> y [] n = 3 -> z [] n = 4 -> u [] n > 4 -> Value("a")] :
          x \in structs, y \in structs, z \in structs \cup others,
          u \in {Value("a"), Value("var")}}

\* What patternMatch is given: values that may be cyclic, patterns that are not.
Patterns(nodes) ==
    UNION {{Struct(args), Conj(args), Open(args)} : args \in Args(nodes)}

Matchings ==
    {[n \in StoreNodes |->
        CASE n = Left -> x [] n = Right -> y [] n = 3 -> z [] n = 4 -> u
          [] n = 5 -> Capture(1) [] n = Fresh -> Value("a")] :
       x \in {Struct(args) : args \in Args({Left, 4})} \cup {Value("b"), Value("var")},
       y \in Patterns({3, 4, 5}),
       z \in Patterns({4, 5}) \cup {Capture(0), Capture(2), Value("b")},
       u \in {Value("a"), Value("var"), Value("failed")}}

Task(kind, onTopLevel, before, unstable) ==
    [kind |-> kind, onTopLevel |-> onTopLevel, before |-> before, unstable |-> unstable]

UnifyOf(t) ==
    /\ task = t
    /\ store = task.before
    /\ stack = <<<<Left, Right>>>>
    /\ rebindTrail = << >> /\ suspendTrail = << >>
    /\ captures = [i \in {1, 2} |-> 0]
    /\ waiting = {}
    /\ result = IF task.kind = "match" THEN "quick" ELSE "none"

UnifyInit ==
    \/ \E unstable \in SUBSET {Left, Right}, k \in {"unify", "equals"}, top \in BOOLEAN :
          \E s \in Operands(unstable) : UnifyOf(Task(k, top, s, unstable))
    \/ \E s \in Matchings : UnifyOf(Task("match", TRUE, s, {}))

UnifyNext == QuickPatternMatch \/ ProcessPair

-----------------------------------------------------------------------------
(* Reference definitions *)

Pairs == StoreNodes \X StoreNodes

\* The elements of the two nodes are related.
ElementsIn(s, p, R) ==
    LET a == s[Deref(s, p[1])].args
        b == s[Deref(s, p[2])].args
    IN Len(a) = Len(b) /\ \A i \in 1..Len(a) : <<a[i], b[i]>> \in R

Alike(v, w) == v.kind = w.kind /\ Len(v.args) = Len(w.args)

\* Equal as rational trees, whatever the unbound variables become: the largest
\* relation that holds of the elements wherever it holds of the structures.
RECURSIVE Narrow(_, _)
Narrow(s, R) ==
    LET kept == {p \in R : Deref(s, p[1]) = Deref(s, p[2]) \/ ElementsIn(s, p, R)}
    IN IF kept = R THEN R ELSE Narrow(s, kept)

Equal(s) ==
    Narrow(s, {p \in Pairs : LET v == s[Deref(s, p[1])]
                                 w == s[Deref(s, p[2])]
                             IN \/ Deref(s, p[1]) = Deref(s, p[2])
                                \/ ~IsVariable(v) /\ Alike(v, w)})

\* What must be equal for the operands to be: the smallest congruence.
RECURSIVE Grow(_, _)
Grow(s, R) ==
    LET inverse == {<<p[2], p[1]>> : p \in R}
        join == UNION {{<<p[1], q[2]>> : q \in {x \in R : x[1] = p[2]}} : p \in R}
        down == UNION {{<<s[p[1]].args[i], s[p[2]].args[i]>> : i \in 1..Len(s[p[1]].args)} :
                          p \in {q \in R : s[q[1]].kind = "struct" /\ Alike(s[q[1]], s[q[2]])}}
        more == R \cup inverse \cup join \cup down
    IN IF more = R THEN R ELSE Grow(s, more)

Closure(s) == Grow(s, {<<n, n>> : n \in StoreNodes} \cup {<<Left, Right>>})

\* Two values that must be equal are not.
Clash(s) ==
    \E p \in Closure(s) :
        ~IsVariable(s[p[1]]) /\ ~IsVariable(s[p[2]]) /\ ~Alike(s[p[1]], s[p[2]])

\* The pairs of a value and a pattern that meet.
Below(s, p) ==
    LET v == s[p[1]]
        w == s[p[2]]
        both == {i \in 1..Len(w.args) : i <= Len(v.args)}
    IN CASE w.kind = "conj" -> {<<p[1], w.args[i]>> : i \in 1..Len(w.args)}
         [] v.kind = "struct" /\ (w.kind = "open" \/ Alike(v, w)) ->
               {<<v.args[i], w.args[i]>> : i \in both}
         [] OTHER -> {}

RECURSIVE Meeting(_, _)
Meeting(s, R) ==
    LET more == R \cup UNION {Below(s, p) : p \in R}
    IN IF more = R THEN R ELSE Meeting(s, more)

Meet(s) == Meeting(s, {<<Left, Right>>})

\* A pair of them that matches for now, apart from the elements.
Matches(s, p) ==
    LET v == s[p[1]]
        w == s[p[2]]
    IN \/ p[1] = p[2]
       \/ w.kind \in {"capture", "conj"}
       \/ w.kind = "open" /\ v.kind = "struct" /\ Len(v.args) >= Len(w.args)
       \/ ~IsVariable(v) /\ Alike(v, w)

MayMatch(s, p) == Matches(s, p) \/ IsVariable(s[p[1]]) \/ IsVariable(s[p[2]])

-----------------------------------------------------------------------------
(* Properties *)

\* The graph is what it was, but for the variables in `vars`.
Restored(vars) ==
    \A n \in StoreNodes \ ({Fresh} \cup vars) :
        IF n \in task.unstable THEN store[Deref(store, n)] = task.before[n]
        ELSE store[n] = task.before[n]

Vars == {n \in StoreNodes : task.before[n].kind = "var"}

\* One of the nodes that are waited for will be determined.
WillBeWoken == \E n \in waiting : store[n].kind \in {"var", "future"}

UnifyIsRight ==
    LET s == task.before
        same == Closure(s)
    IN /\ Restored(IF result = "true" /\ task.onTopLevel THEN StoreNodes ELSE Vars)
       /\ \A n \in StoreNodes \ {Fresh} :
             Deref(store, n) = Fresh \/ <<n, Deref(store, n)>> \in same
       /\ result = "true" => LET equal == Equal(store) IN same \subseteq equal
       /\ result = "false" => Clash(s)
       /\ result = "wait" => WillBeWoken /\ \E p \in same : s[p[1]].kind = "future" /\ p[1] # p[2]
       /\ result = "raise" => \E p \in same : s[p[1]].kind = "failed" /\ p[1] # p[2]

EqualsIsRight ==
    LET s == task.before
        equal == Equal(s)
        Entailed == <<Left, Right>> \in equal
    IN /\ Restored(IF result = "true" /\ task.onTopLevel THEN StoreNodes ELSE {})
       /\ \A n \in Vars : store[n] = s[n]
       /\ result = "true" =>
             Entailed /\ {p \in Equal(store) : Fresh \notin {p[1], p[2]}}
                         = {p \in equal : Fresh \notin {p[1], p[2]}}
       /\ result = "false" => Clash(s)
       /\ result = "wait" => ~Entailed /\ WillBeWoken
       /\ result = "raise" => ~Entailed /\ \E p \in Closure(s) : s[p[1]].kind = "failed"

MatchIsRight ==
    LET s == task.before
        met == Meet(s)
        caught(i) == {p[1] : p \in {q \in met : s[q[2]].kind = "capture" /\ s[q[2]].args[1] = i}}
    IN /\ store = s
       /\ result = "true" =>
             /\ \A p \in met : Matches(s, p)
             /\ \A i \in {1, 2} : captures[i] \in IF caught(i) = {} THEN {0} ELSE caught(i)
       /\ result = "false" => \E p \in met : ~MayMatch(s, p)
       /\ result = "wait" => WillBeWoken /\ \E p \in met : ~Matches(s, p)
       /\ result = "raise" => \E p \in met : s[p[1]].kind = "failed" \/ s[p[2]].kind = "failed"

\* Whatever the graphs, cyclic ones too: a unification that succeeds makes equal
\* what must be equal and nothing else, one that fails has met two values that
\* differ; an equality is answered only when no binding can change the answer;
\* a match has captured what its pattern says.  Whatever it is, a walk that does
\* not succeed, or that is in a subspace, leaves the structures as it found
\* them, and one that suspends will be woken (unify.cc, StructuralDualWalk::run).
UnifyIsSound ==
    result \notin {"none", "quick"} =>
        CASE task.kind = "unify" -> UnifyIsRight
          [] task.kind = "equals" -> EqualsIsRight
          [] task.kind = "match" -> MatchIsRight
=============================================================================
