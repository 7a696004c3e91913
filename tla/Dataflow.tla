------------------------------ MODULE Dataflow ------------------------------
(***************************************************************************)
(* Threads and dataflow variables in the top-level space.                  *)
(*                                                                         *)
(*   variables.hh          Variable, ReadOnlyVariable, OptVar, ReadOnly,   *)
(*                         FailedValue, and their suspension lists         *)
(*   store.hh              references, dereferencing, become               *)
(*   unify.hh, unify.cc    unify and equals on variables                   *)
(*   emulate.cc            applyWaitBefore, applyRaise, terminate, run     *)
(*   reifiedthread.hh, runnable.hh   waking, suspending, injecting         *)
(*   modules/modvalue.hh   the built-ins a thread waits with               *)
(*                                                                         *)
(* A value is a node that is not transient, and two value nodes stand for  *)
(* different values.  Suspension lists are sets: the order of a list only  *)
(* decides the order in which threads enter the run queue, and the         *)
(* scheduler used here takes any of them (ThreadPool is the real one).     *)
(* A thread runs alone until it suspends, terminates, raises an exception  *)
(* or is preempted between two instructions.                               *)
(***************************************************************************)
EXTENDS Naturals, FiniteSets

CONSTANTS
    Threads,        \* the threads of the program
    None,           \* no thread, no node, no instruction in progress
    RaiseOnBlock,   \* threads with the debugger's raise-on-block flag
    Instructions,   \* the built-ins the program uses
    MaxNodes,       \* bound on the nodes the program allocates
    MaxInjections   \* bound on calls of Thread.injectException

Blocking == {"wait", "waitQuiet", "waitNeeded", "equals", "unify"}
Others == {"newReadOnly", "failedValue", "readOnly", "makeNeeded",
           "bindReadOnly", "injectException"}

ASSUME DataflowAssumption ==
    /\ IsFiniteSet(Threads) /\ None \notin Threads
    /\ RaiseOnBlock \subseteq Threads
    /\ Instructions \subseteq Blocking \cup Others
    /\ MaxNodes \in Nat /\ MaxInjections \in Nat

Nodes == {<<"node", i>> : i \in 1..MaxNodes}

\* The control variables of suspended equality tests.  A thread holds one; one
\* more is left behind by each exception that gets a thread out of its test.
Controls == {<<"control", i>> : i \in 1..(Cardinality(Threads) + MaxInjections)}

\* The node _terminationVar of a thread.
TerminationVar(t) == <<"terminationVar", t>>
TerminationVars == {TerminationVar(t) : t \in Threads}
Visible == Nodes \cup TerminationVars
AllNodes == Visible \cup Controls

Unbound == {"Variable", "ReadOnlyVariable"}
Transient == Unbound \cup {"OptVar", "ReadOnly", "FailedValue"}
Kinds == Transient \cup {"Free", "Value", "Reference"}

\* What a thread can block in: the instruction, and its operands.
Requests ==
    [op : {"wait", "waitQuiet", "waitNeeded"}, on : Visible, with : {None}]
    \cup [op : {"equals", "unify"}, on : Nodes, with : Nodes]

ASSUME NamesAssumption ==
    None \notin AllNodes \cup Requests /\ Threads \cap AllNodes = {}

VARIABLES
    store,        \* the nodes: kind, link (of a Reference, or the underlying
                  \* node of a ReadOnly), needed, pendings; and the threads
                  \* that a step has woken
    runnable,     \* threads whose _runnable flag is set
    ready,        \* threads in the pool
    running,      \* the current thread
    terminated,   \* threads whose _terminated flag is set
    doing,        \* the request a thread has suspended in, to be started
                  \* again when the thread runs
    waitee,       \* the node a thread suspended on last
    injected,     \* threads with an injectedException
    injections    \* calls so far

threadVars == <<runnable, ready, running, terminated, doing, waitee,
                injected, injections>>
vars == <<store, threadVars>>

-----------------------------------------------------------------------------
(* Nodes *)

\* RichNode::dereferenceLoop: where it is after each of its iterations.  Only the
\* program's nodes become references, and a chain longer than there are of them
\* never ends.
Follow(s, c) == IF s.kind[c] = "Reference" THEN s.link[c] ELSE c
Chain(s, n) ==
    LET chain[k \in 0..MaxNodes] ==
            IF k = 0 THEN n ELSE Follow(s, chain[k - 1])
    IN chain
DereferenceLoop(s, n) == Chain(s, n)[MaxNodes]
Deref(s, n) == IF s.kind[n] = "Reference" THEN DereferenceLoop(s, n) ELSE n
Ends(s, n) == s.kind[Deref(s, n)] # "Reference"
KindOf(s, n) == s.kind[Deref(s, n)]

\* The node that keeps the suspension list and the needed flag of n: a ReadOnly
\* delegates to its underlying node.
Base(s, n) ==
    LET d == Deref(s, n)
    IN IF s.kind[d] = "ReadOnly" THEN Deref(s, s.link[d]) ELSE d

\* ReadOnly::needsProtection.
NeedsProtection(kind) == kind \in Unbound \cup {"OptVar"}

IsNeeded(s, n) ==
    LET b == Base(s, n)
    IN CASE s.kind[b] = "OptVar" -> FALSE
         [] s.kind[b] \in Unbound -> s.needed[b]
         [] OTHER -> TRUE

\* Fault: a read-only view keeps wakeables to itself.
AddToSuspendListOfView(s, n, w) ==
    LET b == Deref(s, n)
    IN IF s.kind[b] \in Transient
       THEN [s EXCEPT !.kind[b] = IF @ = "OptVar" THEN "Variable" ELSE @,
                      !.pendings[b] = @ \cup {w}]
       ELSE s

\* addToSuspendList of wakeable w on node n: an OptVar first becomes a Variable.
\* A FailedValue asserts that this is never asked of it; in a build without
\* assertions, as here, nothing happens (NoTestOnFailed says where it is asked).
AddToSuspendList(s, n, w) ==
    LET b == Base(s, n)
    IN IF NeedsProtection(s.kind[b])
       THEN [s EXCEPT !.kind[b] = IF @ = "OptVar" THEN "Variable" ELSE @,
                      !.pendings[b] = @ \cup {w}]
       ELSE s

\* Fault: a ReadOnly that was woken for nothing does not suspend again.
WakeReadOnlyOnce(s, list) ==
    LET futures == {r \in list \cap Nodes : s.kind[r] = "ReadOnly"}
        settled == {r \in futures : ~NeedsProtection(KindOf(s, s.link[r]))}
    IN [s EXCEPT
          !.kind = [n \in AllNodes |-> IF n \in settled THEN "Reference" ELSE @[n]]]

\* Fault: a ReadOnly suspends again on everything that is transient.
WakeReadOnlyTransient(s, list) ==
    LET futures == {r \in list \cap Nodes : s.kind[r] = "ReadOnly"}
        again == {r \in futures : KindOf(s, s.link[r]) \in Transient}
        Rejoined(n) == {r \in again : Base(s, s.link[r]) = n}
    IN [s EXCEPT
          !.kind = [n \in AllNodes |->
                      IF n \in futures \ again THEN "Reference" ELSE @[n]],
          !.pendings = [n \in AllNodes |-> @[n] \cup Rejoined(n)]]

\* Waking those in a list that has been detached from its variable: a thread
\* is woken; a control variable becomes unit, which wakes the thread behind it;
\* a ReadOnly becomes its underlying node, unless that is still unbound: then it
\* suspends again, as by addToSuspendList.  An entry whose control variable is
\* unit is inert, so it is dropped from the other lists.
WakeReadOnly(s, list) ==
    LET futures == {r \in list \cap Nodes : s.kind[r] = "ReadOnly"}
        again == {r \in futures : NeedsProtection(KindOf(s, s.link[r]))}
        settled == futures \ again
        Rejoined(n) == {r \in again : Deref(s, s.link[r]) = n}
    IN [s EXCEPT
          !.kind = [n \in AllNodes |->
                      IF n \in settled THEN "Reference"
                      ELSE IF @[n] = "OptVar" /\ Rejoined(n) # {} THEN "Variable"
                      ELSE @[n]],
          !.link = [n \in AllNodes |->
                      IF n \in settled /\ s.kind[s.link[n]] = "Reference"
                      THEN s.link[s.link[n]] ELSE @[n]],
          !.pendings = [n \in AllNodes |-> @[n] \cup Rejoined(n)]]

WakeControls(s, list) ==
    LET controls == list \cap Controls
    IN [s EXCEPT
          !.kind = [n \in AllNodes |-> IF n \in controls THEN "Value" ELSE @[n]],
          !.needed = [n \in AllNodes |-> n \notin controls /\ @[n]],
          !.pendings = [n \in AllNodes |->
                          IF n \in controls THEN {} ELSE @[n] \ controls],
          !.woken = @ \cup UNION {s.pendings[c] : c \in controls}]
WakeThreads(s, list) == [s EXCEPT !.woken = @ \cup (list \cap Threads)]
Wake(s, list) == WakeReadOnly(WakeControls(WakeThreads(s, list), list), list)

\* wakeUpPendings of node n: its list is detached first.
WakeUpPendings(s, n) == Wake([s EXCEPT !.pendings[n] = {}], s.pendings[n])

\* Fault: becoming needed wakes nobody.
MarkNeededQuietly(s, n) ==
    LET b == Base(s, n)
    IN IF NeedsProtection(s.kind[b])
       THEN [s EXCEPT !.kind[b] = IF @ = "OptVar" THEN "Variable" ELSE @,
                      !.needed[b] = TRUE]
       ELSE s

\* markNeeded of node n.
MarkNeeded(s, n) ==
    LET b == Base(s, n)
    IN IF s.kind[b] = "OptVar"
       THEN [s EXCEPT !.kind[b] = "Variable", !.needed[b] = TRUE]
       ELSE IF s.kind[b] \in Unbound /\ ~s.needed[b]
       THEN WakeUpPendings([s EXCEPT !.needed[b] = TRUE], b)
       ELSE s

\* Fault: RichNode::reinit does not look whether a node is to become itself.
BecomeUnchecked(s, n, src) ==
    [s EXCEPT !.kind[n] = "Reference", !.link[n] = src, !.needed[n] = FALSE]

\* become, with RichNode::reinit, which does nothing to a node that is to become
\* itself.
Become(s, n, src) ==
    IF n = src THEN s
    ELSE [s EXCEPT !.kind[n] = "Reference", !.link[n] = src, !.needed[n] = FALSE]

\* Fault: the need of a variable is not passed on to what it is bound to.
BindUnneeded(s, n, src) == WakeUpPendings(Become(s, n, src), n)

\* OptVar::bind and VariableBase::doBind at top level: node n becomes src.
Bind(s, n, src) ==
    LET s1 == IF s.needed[n] THEN MarkNeeded(s, src) ELSE s
    IN WakeUpPendings(Become(s1, n, src), n)

-----------------------------------------------------------------------------
(* What becomes of the running thread *)

Init ==
    /\ store = [kind |-> [n \in AllNodes |->
                            IF n \in TerminationVars THEN "OptVar" ELSE "Free"],
                link |-> [n \in AllNodes |-> None],
                needed |-> [n \in AllNodes |-> FALSE],
                pendings |-> [n \in AllNodes |-> {}],
                woken |-> {}]
    /\ runnable = Threads
    /\ ready = Threads
    /\ running = None
    /\ terminated = {}
    /\ doing = [t \in Threads |-> None]
    /\ waitee = [t \in Threads |-> None]
    /\ injected = {}
    /\ injections = 0

\* A step leaves store s.  Given the pool and the threads that are runnable while
\* it wakes threads, ReifiedThread::wakeUp resumes those that are not runnable,
\* whatever else has become of them.
Update(s, pool, active) ==
    /\ store' = [s EXCEPT !.woken = {}]
    /\ runnable' = active \cup s.woken
    /\ ready' = pool \cup (s.woken \ active)

\* The running thread gets past its instruction and goes on.
Proceed(t, s) ==
    /\ Update(s, ready, runnable)
    /\ doing' = [doing EXCEPT ![t] = None]
    /\ waitee' = [waitee EXCEPT ![t] = None]
    /\ UNCHANGED <<running, terminated, injected, injections>>

\* The thread stops for good: Runnable::terminate, then _terminationVar is
\* bound to unit.
Terminate(t, s) ==
    LET v == TerminationVar(t)
        unit == [s EXCEPT !.kind[v] = "Value", !.needed[v] = FALSE, !.pendings[v] = {}]
    IN /\ Update(Wake(unit, s.pendings[v]), ready \ {t}, runnable \ {t})
       /\ terminated' = terminated \cup {t}

\* Thread::applyRaise, after which run() returns: either a handler is where the
\* thread goes on next time, or the exception is not caught.
Raise(t, s) ==
    /\ \/ Update(s, ready \cup {t}, runnable) /\ UNCHANGED terminated
       \/ Terminate(t, s)
    /\ running' = None
    /\ doing' = [doing EXCEPT ![t] = None]
    /\ waitee' = [waitee EXCEPT ![t] = None]

\* Thread::suspendOnVar.  Waking the running thread before this has no effect.
Suspend(t, r, w, s) ==
    /\ LET s1 == AddToSuspendList(s, w, t)
       IN Update([s1 EXCEPT !.woken = @ \ {t}], ready, runnable \ {t})
    /\ running' = None
    /\ doing' = [doing EXCEPT ![t] = r]
    /\ waitee' = [waitee EXCEPT ![t] = w]
    /\ UNCHANGED <<terminated, injected, injections>>

RaiseNow(t, s) == Raise(t, s) /\ UNCHANGED <<injected, injections>>

\* Thread::applyWaitBefore of node w, in request r.
WaitBefore(t, r, w, quiet, s) ==
    IF t \in RaiseOnBlock /\ KindOf(s, w) \in {"OptVar", "Variable"}
    THEN RaiseNow(t, s)
    ELSE IF quiet THEN Suspend(t, r, w, s)
    ELSE IF KindOf(s, w) = "FailedValue" THEN RaiseNow(t, s)
    ELSE Suspend(t, r, w, MarkNeeded(s, w))

-----------------------------------------------------------------------------
(* The built-ins that may block *)

Wait(t, r) ==
    IF KindOf(store, r.on) \in Transient
    THEN WaitBefore(t, r, Deref(store, r.on), FALSE, store)
    ELSE Proceed(t, store)

WaitQuiet(t, r) ==
    IF KindOf(store, r.on) \in Transient \ {"FailedValue"}
    THEN WaitBefore(t, r, Deref(store, r.on), TRUE, store)
    ELSE Proceed(t, store)

WaitNeeded(t, r) ==
    IF IsNeeded(store, r.on)
    THEN Proceed(t, store)
    ELSE WaitBefore(t, r, Deref(store, r.on), TRUE, store)

IsVar(n) == KindOf(store, n) \in Transient

\* The next control variable: one that was never used, or is unit by now.
FreeControls == {c \in Controls : store.kind[c] \in {"Free", "Value"}}
NextControl == CHOOSE c \in FreeControls : TRUE

\* StructuralDualWalk::run for equals stops at the pair of operands, puts a
\* control variable behind each that is transient, and waits for it.  A thread
\* that must not block raises instead; nothing waits for the control variable it
\* leaves in the lists, which is as good as unit.
Behind(s, n, c) == AddToSuspendList(MarkNeeded(s, n), n, c)
EqualsSuspends(t, r) ==
    LET c == NextControl
        s0 == [store EXCEPT !.kind[c] = "Variable"]
        s1 == IF IsVar(r.on) THEN Behind(s0, r.on, c) ELSE s0
        s2 == IF IsVar(r.with) THEN Behind(s1, r.with, c) ELSE s1
    IN /\ FreeControls # {}
       /\ IF t \in RaiseOnBlock THEN RaiseNow(t, Wake(s2, {c}))
          ELSE WaitBefore(t, r, c, FALSE, s2)

\* RichNode::isSameNode, of dereferenced nodes.
IsSameNode(l, r) == l = r

\* Value.'=='.
Equals(t, r) ==
    LET first == IF IsVar(r.on) THEN r.on ELSE r.with
    IN IF IsSameNode(Deref(store, r.on), Deref(store, r.with)) \/ ~IsVar(first)
       THEN Proceed(t, store)
       ELSE IF KindOf(store, first) = "FailedValue" THEN RaiseNow(t, store)
       ELSE EqualsSuspends(t, r)

\* Binding priorities: of two variables the one with the higher priority is
\* bound, or the right one.
BindingPriority(kind) ==
    CASE kind = "OptVar" -> 100
      [] kind = "Variable" -> 90
      [] kind \in {"ReadOnlyVariable", "ReadOnly"} -> 80
      [] kind = "FailedValue" -> 10
BindsLeft(l, r) ==
    /\ IsVar(l)
    /\ IsVar(r) => BindingPriority(store.kind[l]) > BindingPriority(store.kind[r])

\* unify of two nodes of which one at least is a variable; two values that
\* differ make it fail.
Unify(t, r) ==
    LET l == Deref(store, r.on)
        other == Deref(store, r.with)
        n == IF BindsLeft(l, other) THEN l ELSE other
        src == IF BindsLeft(l, other) THEN other ELSE l
        same == IsSameNode(l, other)
    IN \/ same /\ Proceed(t, store)
       \/ /\ ~same /\ store.kind[n] \in {"OptVar", "Variable"}
          /\ Proceed(t, Bind(store, n, src))
       \/ /\ ~same /\ store.kind[n] \in {"ReadOnlyVariable", "ReadOnly"}
          /\ WaitBefore(t, r, Base(store, n), FALSE, store)
       \/ /\ ~same /\ store.kind[n] \in {"FailedValue", "Value"}
          /\ RaiseNow(t, store)

Perform(t, r) ==
    \/ r.op = "wait" /\ Wait(t, r)
    \/ r.op = "waitQuiet" /\ WaitQuiet(t, r)
    \/ r.op = "waitNeeded" /\ WaitNeeded(t, r)
    \/ r.op = "equals" /\ Equals(t, r)
    \/ r.op = "unify" /\ Unify(t, r)

\* Dereferencing an operand must come to an end for anything to happen.
IsOperand(n) == store.kind[n] # "Free" /\ Ends(store, n)
HasOperands(r) == IsOperand(r.on) /\ (r.with # None => IsOperand(r.with))

\* The thread is between two instructions.
Executes(t) == running = t /\ doing[t] = None

Start(t, r) ==
    /\ Executes(t)
    /\ r.op \in Instructions
    /\ HasOperands(r)
    /\ Perform(t, r)

\* Fault: a thread that was woken takes it that what it waited for has come.
RetryTrusting(t) ==
    /\ running = t
    /\ doing[t] # None
    /\ Proceed(t, store)

\* A thread that was woken starts the same instruction again.
Retry(t) ==
    /\ running = t
    /\ doing[t] # None
    /\ HasOperands(doing[t])
    /\ Perform(t, doing[t])

-----------------------------------------------------------------------------
(* The other built-ins *)

\* The next node that is allocated.
IsNext(n) ==
    /\ store.kind[n] = "Free"
    /\ \A i \in 1..MaxNodes : i < n[2] => store.kind[<<"node", i>>] # "Free"

\* A variable or a value of the program, newReadOnly, failedValue.
Create(t, n, kind) ==
    /\ Executes(t)
    /\ IsNext(n)
    /\ \/ kind \in {"OptVar", "Value"}
       \/ kind = "ReadOnlyVariable" /\ "newReadOnly" \in Instructions
       \/ kind = "FailedValue" /\ "failedValue" \in Instructions
    /\ Proceed(t, [store EXCEPT !.kind[n] = kind])

\* readOnly, the operator !!: node n is a read-only view of x.
MakeReadOnly(t, n, x) ==
    /\ Executes(t)
    /\ "readOnly" \in Instructions
    /\ IsNext(n)
    /\ IsOperand(x)
    /\ LET u == Deref(store, x)
           s == [store EXCEPT !.link[n] = u]
       IN IF NeedsProtection(store.kind[u])
          THEN Proceed(t, AddToSuspendList([s EXCEPT !.kind[n] = "ReadOnly"], u, n))
          ELSE Proceed(t, [s EXCEPT !.kind[n] = "Reference"])

MakeNeeded(t, x) ==
    /\ Executes(t)
    /\ "makeNeeded" \in Instructions
    /\ IsOperand(x)
    /\ Proceed(t, MarkNeeded(store, x))

\* bindReadOnly: a type error on anything but an unbound ReadOnlyVariable.  One that
\* is bound to itself only wakes those who wait for it.
BindReadOnly(t, x, y) ==
    /\ Executes(t)
    /\ "bindReadOnly" \in Instructions
    /\ IsOperand(x) /\ IsOperand(y)
    /\ IF KindOf(store, x) = "ReadOnlyVariable"
       THEN Proceed(t, Bind(store, Deref(store, x), Deref(store, y)))
       ELSE RaiseNow(t, store)

\* Thread.injectException: the exception replaces an earlier one, and the thread
\* is resumed unless it is runnable.
InjectException(t, u) ==
    /\ Executes(t)
    /\ "injectException" \in Instructions
    /\ injections < MaxInjections
    /\ injections' = injections + 1
    /\ injected' = injected \cup {u}
    /\ Update([store EXCEPT !.woken = {u}], ready, runnable)
    /\ UNCHANGED <<running, terminated, doing, waitee>>

\* The last instruction of the thread.
Exit(t) ==
    /\ Executes(t)
    /\ Terminate(t, store)
    /\ running' = None
    /\ UNCHANGED <<doing, waitee, injected, injections>>

-----------------------------------------------------------------------------
(* The run loop *)

Preempt(t) ==
    /\ Executes(t)
    /\ running' = None
    /\ ready' = ready \cup {t}
    /\ UNCHANGED <<store, runnable, terminated, doing, waitee, injected, injections>>

\* popNext(): the thread runs, and first of all raises the exception that was
\* injected into it.
Dispatch(t) ==
    /\ running = None
    /\ t \in ready \ (terminated \cup injected)
    /\ ready' = ready \ {t}
    /\ running' = t
    /\ UNCHANGED <<store, runnable, terminated, doing, waitee, injected, injections>>

Interrupt(t) ==
    /\ running = None
    /\ t \in (ready \cap injected) \ terminated
    /\ Raise(t, store)
    /\ injected' = injected \ {t}
    /\ UNCHANGED injections

\* A terminated thread is passed over.
PassOver(t) ==
    /\ running = None
    /\ t \in ready \cap terminated
    /\ ready' = ready \ {t}
    /\ UNCHANGED <<store, runnable, running, terminated, doing, waitee,
                   injected, injections>>

Next ==
    \/ \E t \in Threads : \E r \in Requests : Start(t, r)
    \/ \E t \in Threads : Retry(t)
    \/ \E t \in Threads, n \in Nodes, kind \in Kinds : Create(t, n, kind)
    \/ \E t \in Threads, n \in Nodes, x \in Visible : MakeReadOnly(t, n, x)
    \/ \E t \in Threads, x \in Visible : MakeNeeded(t, x)
    \/ \E t \in Threads, x, y \in Nodes : BindReadOnly(t, x, y)
    \/ \E t, u \in Threads : InjectException(t, u)
    \/ \E t \in Threads : Exit(t)
    \/ \E t \in Threads : Preempt(t)
    \/ \E t \in Threads : Dispatch(t)
    \/ \E t \in Threads : Interrupt(t)
    \/ \E t \in Threads : PassOver(t)

Spec == Init /\ [][Next]_vars

\* The pool is fair (ThreadPool implements Scheduler), the preemption timer ends
\* every run, and an instruction that is started again ends, unless it is to
\* dereference a circle.  The last is weak fairness of Retry: it is all that a
\* thread can do in such a state.
Retries(t) == running = t /\ doing[t] # None /\ HasOperands(doing[t])
Fairness ==
    \A t \in Threads :
        /\ SF_vars(Dispatch(t) \/ Interrupt(t) \/ PassOver(t))
        /\ WF_vars(Preempt(t))
        /\ []<>~Retries(t)

FairSpec == Spec /\ Fairness

-----------------------------------------------------------------------------
(* Properties *)

Blocked(t) == t \notin runnable /\ t \notin terminated

TypeOK ==
    /\ store.kind \in [AllNodes -> Kinds]
    /\ store.link \in [AllNodes -> AllNodes \cup {None}]
    /\ store.needed \in [AllNodes -> BOOLEAN]
    /\ store.pendings \in [AllNodes -> SUBSET (Threads \cup Controls \cup Nodes)]
    /\ \A n \in AllNodes :
          store.kind[n] \notin Unbound => ~store.needed[n] /\ store.pendings[n] = {}
    /\ store.woken = {}
    /\ runnable \subseteq Threads /\ ready \subseteq runnable
    /\ running \in runnable \cup {None}
    /\ terminated \subseteq Threads /\ injected \subseteq Threads
    /\ doing \in [Threads -> Requests \cup {None}]
    /\ waitee \in [Threads -> AllNodes \cup {None}]
    /\ injections \in 0..MaxInjections

\* A thread that is blocked stays in the suspension list of an unbound variable,
\* the one that its request waits for at this moment, however many other
\* variables it was bound to in between; and what it waits for has not come:
\* no wake-up was lost.  An equality test waits through its control variable,
\* which is in the list of each operand that is unbound, and of one at least (a
\* failed value has no list, see NoTestOnFailed).
HangsOn(n, w) ==
    /\ store.kind[Base(store, n)] \in Unbound
    /\ w \in store.pendings[Base(store, n)]
NoLostWakeup ==
    \A t \in Threads : Blocked(t) =>
        /\ doing[t] # None
        /\ HangsOn(waitee[t], t)
        /\ doing[t].op = "waitNeeded" => ~IsNeeded(store, doing[t].on)
        /\ doing[t].op = "equals" =>
              /\ waitee[t] \in Controls
              /\ \A n \in {doing[t].on, doing[t].with} :
                    KindOf(store, n) \in Transient \ {"FailedValue"}
                        => HangsOn(n, waitee[t])
              /\ \E n \in {doing[t].on, doing[t].with} : HangsOn(n, waitee[t])

\* A read-only view stays in the suspension list of the variable it views, until
\* that is determined: then it is a plain reference to the value, and what waits
\* for the view goes on.
FuturesFollow ==
    \A r \in Nodes : store.kind[r] = "ReadOnly" => HangsOn(r, r)

\* Dereferencing ends: RichNode gives transparent access to every node.  It does
\* not, once a variable was bound to a view of itself: ReadOnly::wakeUp then
\* makes the view refer, through the variable, to itself.
DereferenceEnds ==
    \A n \in AllNodes : store.kind[n] # "Free" => Ends(store, n)

\* There is no other way to a circle, and this one always makes one: whatever chains
\* of bindings, views, futures and wake-ups came before, a step makes dereferencing
\* loop exactly if it binds a variable to a read-only view of itself, as X = !!X does.
BindsToOwnView ==
    \E x, r \in Nodes :
        /\ NeedsProtection(store.kind[x])
        /\ store.kind[r] = "ReadOnly" /\ Base(store, r) = x
        /\ store'.kind[x] = "Reference" /\ store'.link[x] = r
OnlyOwnViewsClose ==
    [][DereferenceEnds => (DereferenceEnds' <=> ~BindsToOwnView)]_vars

\* The threads and the store they share are an instance of what dataflow
\* variables promise: no binding, need or value is ever lost or taken back, also
\* not through chains of bindings and read-only views, and every thread goes on
\* exactly when its request is satisfied; all this until a circle is made.
Status(s, n) ==
    CASE KindOf(s, Base(s, n)) = "Value" -> "value"
      [] KindOf(s, Base(s, n)) = "FailedValue" -> "failed"
      [] OTHER -> "unknown"
Promise == INSTANCE DataflowStore WITH
    Nodes <- Visible,
    entity <- [n \in Visible |-> Base(store, n)],
    status <- [n \in Visible |-> Status(store, n)],
    needed <- [n \in Visible |-> store.kind[n] # "Free" /\ IsNeeded(store, n)],
    waiting <- doing,
    interrupted <- injected \cup RaiseOnBlock,
    circular <- ~DereferenceEnds
ImplementsPromise == Promise!Spec

\* Runnable::resume asserts that it is called on a live thread.
ResumeOnlyLive == ready \cap terminated = {}

\* FailedValue::addToSuspendList asserts that it is never called.  An equality test
\* of an unbound variable and a failed value suspends, and calls it of the latter.
NoTestOnFailed ==
    \A t \in Threads : Blocked(t) /\ doing[t].op = "equals" =>
        \A n \in {doing[t].on, doing[t].with} : KindOf(store, n) # "FailedValue"
=============================================================================
