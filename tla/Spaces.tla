------------------------------- MODULE Spaces -------------------------------
(***************************************************************************)
(* Computation spaces: speculative constraints, stability, search.         *)
(*                                                                         *)
(*   space.hh             Space: trail, script, counters, installation     *)
(*   reifiedspace.hh      what a program does with a space; distributors   *)
(*   variables.hh         speculative binding, waking under a space        *)
(*   modules/modspace.hh  new and choose                                   *)
(*   vm.cc, emulate.cc    the run loop's part: install, kill, applyFail    *)
(*                                                                         *)
(* One operating-system thread executes everything; the machine is one     *)
(* record, and each of the methods is an operator from machine to machine. *)
(* A constraint is the binding of a variable of the program to a value.    *)
(***************************************************************************)
EXTENDS Integers, Sequences, FiniteSets, SequencesExt, FiniteSetsExt

CONSTANTS
    SubSpaces,      \* spaces the program creates
    Top,            \* the top-level space
    Vars,           \* variables of the program, created in the top-level space
    Values,
    None,           \* no value, no space, no thread, nothing to wait for
    Extras,         \* threads of the program besides the first one of each space
    MaxHelpers,     \* bound on the machine's own threads alive at a time, one more
                    \* is a spare that a run does not need, see FreeHelper
    MaxChoices,     \* bound on calls of Space.choose
    Liberties       \* what else the program does, see below

\* Programs differ in the following, each of which can be left out of a run.
\*   optimized   variables start as OptVar, not as Variable: no thread of the
\*               top-level space has waited for them first
\*   outerWait   a thread waits for a variable of a space above its own
\*   kill        Space.kill, by a thread of the top-level space
\*   merge       Space.merge of a space that is not failed, and the constraints
\*               of which are compatible with those where it is merged
\*   nested      a space is created in another subspace
AllLiberties == {"optimized", "outerWait", "kill", "merge", "nested"}

ASSUME SpacesAssumption ==
    /\ IsFiniteSet(SubSpaces) /\ IsFiniteSet(Vars) /\ IsFiniteSet(Extras)
    /\ Top \notin SubSpaces /\ None \notin SubSpaces \cup Values \cup {Top} /\ None # "unit"
    /\ MaxHelpers \in Nat /\ MaxChoices \in Nat
    /\ Liberties \subseteq AllLiberties

Spaces == SubSpaces \cup {Top}

\* The first thread of a space, further ones, and the machine's own: DummyThread
\* and UnifyThread.
Root(s) == <<"root", s>>
OzThreads == {Root(s) : s \in Spaces} \cup {<<"extra", e>> : e \in Extras}
Helpers == {<<"helper", i>> : i \in 0..MaxHelpers}
Spare == <<"helper", 0>>
Threads == OzThreads \cup Helpers

\* What a thread can wait for: a variable, the status variable of a space, the
\* variable of its distributor.
StatusVar(s) == <<"status", s>>
ChoiceVar(s) == <<"choice", s>>
DoneVar(t) == <<"done", t>>
\* What a space can constrain: a variable of the program, or the _terminationVar of
\* a thread.
Store == Vars \cup {DoneVar(t) : t \in OzThreads}
Waitees == Store \cup {StatusVar(s) : s \in SubSpaces} \cup {ChoiceVar(s) : s \in SubSpaces}

\* Variables and threads are no other things.
ASSUME NamesAssumption ==
    /\ None \notin Threads \cup Waitees
    /\ Vars \cap ({DoneVar(t) : t \in OzThreads} \cup {StatusVar(s) : s \in SubSpaces}
                    \cup {ChoiceVar(s) : s \in SubSpaces}) = {}

Answers == {"unbound", "failed", "entailed", "stuck", "alternatives", "merged"}

VARIABLES
    vm,        \* the machine, a record of
               \*   space                     _currentSpace
               \*   parent, status, peopled, count, answer, distributor, chosen,
               \*   trail, script             the fields of each Space
               \*   bound, home, optimized    the variables
               \*   pendings                  the suspension lists
               \*   kind, at                  threads: what they are, their space
               \*   runnable, terminated, dead, running
               \*   waits                     the instruction to execute again
               \*   rebound                   a failed assertion, see BindStatusVar
    choices,   \* calls of Space.choose so far
    told,      \* history: the constraints each space was told
    killed     \* history: spaces on which Space.kill was called

\* peopled abstracts threadCount, which nothing decrements, to "is not zero"; chosen
\* is whether the variable of the distributor is bound; a thread that is scheduled
\* is one that is runnable and is not running (see ThreadPool for the order).
vars == <<vm, choices, told, killed>>

\* Do, with each element of a sequence in turn.
Through(Do(_, _), m, s) ==
    LET after[i \in 0..Len(s)] == IF i = 0 THEN m ELSE Do(after[i - 1], s[i])
    IN after[Len(s)]

-----------------------------------------------------------------------------
(* The tree of spaces *)

\* SpaceRef: a merged space stands for the space it was merged into.
Real(m, s) ==
    LET chain[k \in 0..Cardinality(SubSpaces)] ==
            IF k = 0 THEN s
            ELSE LET c == chain[k - 1]
                 IN IF m.status[c] = "merged" THEN m.parent[c] ELSE c
    IN chain[Cardinality(SubSpaces)]
Parent(m, s) == Real(m, m.parent[s])

\* The spaces from s up to, and without, its ancestor a.
UpTo(m, s, a) ==
    LET up[k \in 0..Cardinality(SubSpaces)] ==
            IF k = 0 THEN << >>
            ELSE LET below == up[k - 1]
                     next == IF below = << >> THEN s ELSE Parent(m, Last(below))
                 IN IF Len(below) < k - 1 \/ next = a
                    THEN below ELSE Append(below, next)
    IN up[Cardinality(SubSpaces)]
UpFrom(m, s) == UpTo(m, s, Top)
Path(m, s) == ToSet(UpFrom(m, s)) \cup {Top}
IsAncestor(m, a, s) == a \in Path(m, s)
IsAlive(m, s) == \A a \in Path(m, s) : m.status[a] # "failed"
SpaceOf(m, t) == Real(m, m.at[t])

-----------------------------------------------------------------------------
(* Threads and the counters of runnable threads *)

\* Space::incRunnableThreadCount of s goes up as long as a counter was zero.
Inc(m, s) ==
    LET up == UpFrom(m, s)
        level == {i \in DOMAIN up : \A j \in 1..(i - 1) : m.count[up[j]] = 0}
    IN [m EXCEPT !.count = [a \in SubSpaces |->
                              IF \E i \in level : up[i] = a THEN @[a] + 1 ELSE @[a]]]

\* Runnable::resume.
Resume(m, t) ==
    Inc([m EXCEPT !.runnable = @ \cup {t}], SpaceOf(m, t))

\* ReifiedThread::wakeUp: a runnable thread is not resumed, nor, if it is a
\* DummyThread, a terminated one.
WakeUp(m, t) ==
    IF t \in m.runnable \cup m.terminated THEN m ELSE Resume(m, t)

\* A thread of the machine that is dead, and that no suspension list holds any
\* more, is garbage.  TypeOK says that MaxHelpers is enough for a run.
FreeHelper(m) ==
    LET free == {h \in Helpers \ {Spare} : /\ h \notin m.runnable
                                          /\ \A w \in Waitees : h \notin m.pendings[w]}
    IN IF free = {} THEN Spare ELSE CHOOSE h \in free : TRUE
New(m, t, kind, s) ==
    [m EXCEPT !.kind[t] = kind, !.at[t] = s, !.peopled[s] = TRUE,
              !.terminated = @ \ {t}, !.dead = @ \ {t}]

\* Fault: constraints on variables of the spaces above are forgotten.
IsStableTrusting(m, s) == m.count[s] <= 0

\* Space::isStable: "TODO Check suspension list".
IsStable(m, s) == m.count[s] <= 0 /\ m.trail[s] = << >>

\* Fault: a space without runnable threads is not looked at again.
DecLevelNoDummy(acc, a) ==
    LET m == [acc.m EXCEPT !.count[a] = @ - 1]
    IN IF ~acc.on THEN acc ELSE [m |-> m, on |-> m.count[a] = 0]

\* Space::decRunnableThreadCount, at one level of the tree: a space that runs out
\* of runnable threads and is stable gets a DummyThread, which will report it.
DecLevel(acc, a) ==
    LET m == [acc.m EXCEPT !.count[a] = @ - 1]
        d == FreeHelper(m)
    IN IF ~acc.on THEN acc
       ELSE IF m.count[a] # 0 THEN [m |-> m, on |-> FALSE]
       ELSE IF IsStable(m, a) THEN [m |-> Resume(New(m, d, "dummy", a), d), on |-> TRUE]
       ELSE [m |-> m, on |-> TRUE]
Dec(m, s) == Through(DecLevel, [m |-> m, on |-> TRUE], UpFrom(m, s)).m

-----------------------------------------------------------------------------
(* Variables *)

\* A waiter enters the suspension list of w; an OptVar becomes a Variable of the
\* current space.
AddToSuspendList(m, w, t) ==
    LET m1 == [m EXCEPT !.pendings[w] = @ \cup {t}]
    IN IF w \in Store /\ m.optimized[w]
       THEN [m1 EXCEPT !.optimized[w] = FALSE, !.home[w] = m.space]
       ELSE m1

\* wakeUpPendings and wakeUpPendingsSubSpace: everything at the top level, the
\* threads of the current space and below it elsewhere; the list is emptied.
WakeUpPendings(m, w) ==
    LET woken == {t \in m.pendings[w] : IsAncestor(m, m.space, SpaceOf(m, t))}
    IN Through(WakeUp, [m EXCEPT !.pendings[w] = {}], SetToSeq(woken))

\* Fault: no backup of the variable is made.
BindNoBackup(m, v, x) == WakeUpPendings([m EXCEPT !.bound[v] = x], v)

\* VariableBase::doBind, bindSubSpace and OptVar::bind: a binding is speculative
\* when the variable is not homed in the current space.
Bind(m, v, x) ==
    LET m1 == [m EXCEPT !.bound[v] = x]
        m2 == IF m.space # Top /\ Real(m, m.home[v]) # m.space
              THEN [m1 EXCEPT !.trail[m.space] = Append(@, v)]
              ELSE m1
    IN WakeUpPendings(m2, v)

\* Space::bindStatusVar asserts that the status variable is not determined; rebound
\* records that the assertion failed.
CanAnswer(m, s) == m.answer[s] = "unbound"
BindStatusVar(m, s, a) ==
    IF CanAnswer(m, s)
    THEN WakeUpPendings([m EXCEPT !.answer[s] = a], StatusVar(s))
    ELSE [m EXCEPT !.rebound = TRUE]

-----------------------------------------------------------------------------
(* Failure, installation and deinstallation *)

\* Undoes the trail of s.
Restore(m, s) ==
    [m EXCEPT !.bound = [v \in Store |-> IF Contains(m.trail[s], v) THEN None ELSE @[v]],
              !.trail[s] = << >>]

\* Fault: the bindings of the failed space stay in the store.
FailKeepingTrail(m, s) ==
    LET p == Parent(m, s)
        m1 == Dec([m EXCEPT !.status[s] = "failed"], p)
    IN BindStatusVar([m1 EXCEPT !.trail[s] = << >>, !.space = p], s, "failed")

\* Space::fail.
Fail(m, s) ==
    LET p == Parent(m, s)
        m1 == Dec([m EXCEPT !.status[s] = "failed"], p)
    IN BindStatusVar([Restore(m1, s) EXCEPT !.space = p], s, "failed")

\* Space::deinstallThis of the current space: the trail becomes the script.  If
\* the space has no runnable thread, a DummyThread waits for every variable that
\* is constrained, to install the space when one of them is bound.
PropagateOn(m, d, s) ==
    LET waiting(acc, v) == AddToSuspendList(acc, v, d)
    IN Through(waiting, New(m, d, "dummy", s), m.trail[s])
DeinstallThis(m, s) ==
    LET d == FreeHelper(m)
        moved == [i \in DOMAIN m.trail[s] |-> <<m.trail[s][i], m.bound[m.trail[s][i]]>>]
        m1 == IF m.count[s] <= 0 /\ m.trail[s] # << >> THEN PropagateOn(m, d, s) ELSE m
    IN [Restore(m1, s) EXCEPT !.script[s] = @ \o moved, !.space = Parent(m, s)]

\* Space::deinstallTo ancestor a of the current space.
DeinstallTo(m, a) ==
    Through(DeinstallThis, m, UpTo(m, m.space, a))

Conflicts(m, c) == m.bound[c[1]] \notin {None, c[2]}

\* One equation of a script, unless one before it has failed.
Execute(acc, c) ==
    IF acc.failed \/ Conflicts(acc.m, c) THEN [acc EXCEPT !.failed = TRUE]
    ELSE IF acc.m.bound[c[1]] = c[2] THEN acc
    ELSE [acc EXCEPT !.m = Bind(acc.m, c[1], c[2])]

\* Fault: the script is executed again by every installation.
InstallThisAgain(m, s) ==
    LET done == Through(Execute, [m |-> m, failed |-> FALSE], m.script[s])
    IN IF done.failed THEN Fail(done.m, s) ELSE done.m

\* Space::installThis: the script is executed in the current space, then cleared.
InstallThis(m, s) ==
    LET done == Through(Execute, [m |-> m, failed |-> FALSE], m.script[s])
        m1 == IF done.failed THEN Fail(done.m, s) ELSE done.m
    IN [m1 EXCEPT !.script[s] = << >>]

\* Space::install: nothing is done for a space that is not alive; otherwise from
\* the common ancestor down, until a space fails.
InstallBelow(m, s) ==
    IF m.space # Parent(m, s) \/ m.status[s] = "failed" THEN m
    ELSE InstallThis([m EXCEPT !.space = s], s)
Install(m, s) ==
    IF m.space = s \/ ~IsAlive(m, s) THEN m
    ELSE LET common == CHOOSE a \in Path(m, s) \cap Path(m, m.space) :
                          \A b \in Path(m, s) \cap Path(m, m.space) : IsAncestor(m, b, a)
             m1 == DeinstallTo(m, common)
         IN Through(InstallBelow, m1, Reverse(UpTo(m, s, common)))

-----------------------------------------------------------------------------
(* The end of a thread *)

\* Space::checkStability of the current space, when one of its threads has ended.
\* A blocked space is not stable if it has constrained an outer variable; its
\* status variable is then bound to suspended(V), and V becomes its status
\* variable: those who waited go on, and the space has no answer yet.
Suspended(m, s) ==
    LET m1 == WakeUpPendings(m, StatusVar(s))
    IN [m1 EXCEPT !.waits = [t \in Threads |-> IF @[t] = StatusVar(s) THEN None ELSE @[t]]]
CheckStability(m, s) ==
    LET p == Parent(m, s)
        answer == IF m.distributor[s] THEN "alternatives"
                  ELSE IF m.peopled[s] THEN "stuck" ELSE "entailed"
        m1 == DeinstallTo(m, p)
    IN IF IsStable(m, s) THEN BindStatusVar([m EXCEPT !.space = p], s, answer)
       ELSE IF m.count[s] > 0 THEN m1
       ELSE IF CanAnswer(m, s) THEN Suspended(m1, s)
       ELSE [m1 EXCEPT !.rebound = TRUE]

\* Space::notifyThreadTerminated.
CountTerminated(m, s) ==
    LET m1 == [m EXCEPT !.count[s] = @ - 1]
    IN IF m1.count[s] = 0 THEN Dec(m1, Parent(m, s)) ELSE m1
NotifyTerminated(m, s) ==
    IF s = Top THEN m ELSE CheckStability(CountTerminated(m, s), s)

\* Runnable::terminate; Thread::terminate then binds _terminationVar, wherever
\* the former has left the machine.  A helper that has ended is forgotten by the
\* suspension lists: to wake it has no effect.
Terminate(m, t) ==
    LET m1 == [m EXCEPT !.runnable = @ \ {t}, !.terminated = @ \cup {t},
                        !.dead = @ \cup {t}, !.running = None]
        m2 == [m1 EXCEPT !.pendings = [w \in Waitees |-> @[w] \ {t}], !.kind[t] = "none"]
        s == SpaceOf(m, t)
    IN IF t \in Helpers THEN NotifyTerminated(m2, s)
       ELSE Bind(NotifyTerminated(m1, s), DoneVar(t), "unit")

-----------------------------------------------------------------------------
(* The machine *)

Init ==
    /\ vm = [space |-> Top,
             parent |-> [s \in SubSpaces |-> None],
             status |-> [s \in Spaces |-> IF s = Top THEN "normal" ELSE "none"],
             peopled |-> [s \in Spaces |-> s = Top],
             count |-> [s \in SubSpaces |-> 0],
             answer |-> [s \in SubSpaces |-> "unbound"],
             distributor |-> [s \in SubSpaces |-> FALSE],
             chosen |-> [s \in SubSpaces |-> FALSE],
             trail |-> [s \in SubSpaces |-> << >>],
             script |-> [s \in SubSpaces |-> << >>],
             bound |-> [v \in Store |-> None],
             home |-> [v \in Store |-> Top],
             optimized |-> [v \in Store |-> v \notin Vars \/ "optimized" \in Liberties],
             pendings |-> [w \in Waitees |-> {}],
             kind |-> [t \in Threads |-> IF t = Root(Top) THEN "oz" ELSE "none"],
             at |-> [t \in Threads |-> IF t = Root(Top) THEN Top ELSE None],
             runnable |-> {Root(Top)}, terminated |-> {}, dead |-> {},
             running |-> None,
             waits |-> [t \in Threads |-> None],
             rebound |-> FALSE]
    /\ choices = 0
    /\ told = [s \in Spaces |-> {}]
    /\ killed = {}

\* VirtualMachine::run, one turn: install the space of a thread that is scheduled,
\* kill the thread if this fails, else run it.  A helper runs to its end at once.
RunHelper(m, t) ==
    LET s == m.at[t]
        m1 == IF m.kind[t] = "dummy" \/ m.chosen[s] THEN m
              ELSE WakeUpPendings([m EXCEPT !.chosen[s] = TRUE], ChoiceVar(s))
    IN Terminate(m1, t)
Dispatch(t) ==
    LET m == Install(vm, SpaceOf(vm, t))
    IN /\ vm.running = None
       /\ t \in vm.runnable
       /\ vm' = IF m.space # SpaceOf(m, t)
                THEN [m EXCEPT !.runnable = @ \ {t}, !.dead = @ \cup {t}]
                ELSE IF t \in Helpers THEN RunHelper(m, t)
                ELSE [m EXCEPT !.running = t]
       /\ UNCHANGED <<choices, told, killed>>

\* Between two turns the top-level space may be installed: before alarms, before a
\* garbage collection, and when run() returns.
Idle ==
    /\ vm.running = None
    /\ vm.space # Top
    /\ vm' = Install(vm, Top)
    /\ UNCHANGED <<choices, told, killed>>

\* The running thread is preempted.
Preempt ==
    /\ vm.running # None
    /\ vm' = [vm EXCEPT !.running = None]
    /\ UNCHANGED <<choices, told, killed>>

-----------------------------------------------------------------------------
(* The instructions of the running thread t, in the current space *)

Executes(t) == vm.running = t /\ vm.waits[t] = None

\* Thread::applyFail: a conflict fails the current space, and the thread is left to
\* be killed; the exception at the top level is not modelled.
Tell(t, v, x) ==
    LET s == vm.space
    IN /\ Executes(t)
       /\ s = Top => ~Conflicts(vm, <<v, x>>)
       /\ vm' = IF Conflicts(vm, <<v, x>>) THEN [Fail(vm, s) EXCEPT !.running = None]
                ELSE IF vm.bound[v] = x THEN vm
                ELSE Bind(vm, v, x)
       /\ told' = [told EXCEPT ![s] = @ \cup {<<v, x>>}]
       /\ UNCHANGED <<choices, killed>>

\* The thread reaches an instruction that needs the value of w.
Need(t, w) ==
    /\ Executes(t)
    /\ vm' = [vm EXCEPT !.waits[t] = w]
    /\ UNCHANGED <<choices, told, killed>>
NeedVar(t, v) == (vm.space = Top \/ "outerWait" \in Liberties) /\ Need(t, v)
Ask(t, s) ==
    /\ vm.status[s] \in {"normal", "failed"}
    /\ Parent(vm, s) = vm.space
    /\ Need(t, StatusVar(s))

\* Such an instruction, the first time and each time the thread is woken; see
\* Runnable::suspendOnVar.
IsDetermined(w) ==
    \/ w \in Store /\ vm.bound[w] # None
    \/ \E s \in SubSpaces : \/ w = StatusVar(s) /\ vm.answer[s] # "unbound"
                            \/ w = ChoiceVar(s) /\ vm.chosen[s]
Suspend(m, t) ==
    Dec([m EXCEPT !.runnable = @ \ {t}, !.running = None], SpaceOf(m, t))
Wait(t) ==
    LET w == vm.waits[t]
    IN /\ vm.running = t
       /\ w # None
       /\ vm' = IF IsDetermined(w) THEN [vm EXCEPT !.waits[t] = None]
                ELSE AddToSuspendList(Suspend(vm, t), w, t)
       /\ UNCHANGED <<choices, told, killed>>

Exit(t) ==
    /\ Executes(t)
    /\ vm' = Terminate(vm, t)
    /\ UNCHANGED <<choices, told, killed>>

Create(m, t, s) ==
    Resume([New(m, t, "oz", s) EXCEPT !.home[DoneVar(t)] = s], t)

Spawn(t, e) ==
    /\ Executes(t)
    /\ vm.kind[<<"extra", e>>] = "none"
    /\ vm' = Create(vm, <<"extra", e>>, vm.space)
    /\ UNCHANGED <<choices, told, killed>>

\* Space.new.
NewSpace(t, s) ==
    LET m == [vm EXCEPT !.status[s] = "normal", !.parent[s] = vm.space]
    IN /\ Executes(t)
       /\ vm.status[s] = "none"
       /\ vm.space = Top \/ "nested" \in Liberties
       /\ vm' = Create(m, Root(s), s)
       /\ UNCHANGED <<choices, told, killed>>

\* Space.choose, called by the first thread of a space, which then waits.
Choose(t) ==
    LET s == vm.space
    IN /\ Executes(t)
       /\ s # Top /\ t = Root(s)
       /\ choices < MaxChoices
       /\ ~vm.distributor[s]
       /\ vm' = [vm EXCEPT !.distributor[s] = TRUE, !.chosen[s] = FALSE,
                           !.waits[t] = ChoiceVar(s)]
       /\ choices' = choices + 1
       /\ UNCHANGED <<told, killed>>

\* Fault: the status variable keeps the answer given before the choice was made.
CommitKeepingAnswer(t, s) ==
    LET h == FreeHelper(vm)
    IN /\ Executes(t)
       /\ vm.status[s] = "normal" /\ Parent(vm, s) = vm.space
       /\ vm.distributor[s]
       /\ vm' = [Resume(New(vm, h, "unify", s), h) EXCEPT !.distributor[s] = FALSE]
       /\ UNCHANGED <<choices, told, killed>>

\* Space.commit, of an alternative that exists, to a space that has not failed: a
\* UnifyThread will bind the variable; a determined status variable is replaced.
Commit(t, s) ==
    LET h == FreeHelper(vm)
    IN /\ Executes(t)
       /\ vm.status[s] = "normal" /\ Parent(vm, s) = vm.space
       /\ vm.distributor[s]
       /\ vm' = [Resume(New(vm, h, "unify", s), h)
                    EXCEPT !.distributor[s] = FALSE, !.answer[s] = "unbound"]
       /\ UNCHANGED <<choices, told, killed>>

\* Space.kill: the status variable, a new one if it was determined, is bound to
\* failed.
Kill(t, s) ==
    LET m == Dec([vm EXCEPT !.status[s] = "failed", !.answer[s] = "unbound"], vm.space)
        m1 == IF CanAnswer(vm, s) THEN WakeUpPendings(m, StatusVar(s)) ELSE m
    IN /\ Executes(t)
       /\ "kill" \in Liberties /\ vm.space = Top
       /\ vm.status[s] = "normal" /\ Parent(vm, s) = Top
       /\ vm' = [m1 EXCEPT !.answer[s] = "failed"]
       /\ killed' = killed \cup {s}
       /\ UNCHANGED <<choices, told>>

\* Fault: the destination goes on counting the merged space itself.
MergeCountsTwice(m, s, d) ==
    LET m1 == [m EXCEPT !.status[s] = "merged", !.peopled[d] = @ \/ m.peopled[s]]
    IN IF d # Top THEN [m1 EXCEPT !.count[d] = @ + m.count[s]] ELSE m1

\* Space::merge, but for the constraints: s becomes a reference to d.
MergeCounts(m, s, d) ==
    LET m1 == [m EXCEPT !.status[s] = "merged", !.peopled[d] = @ \/ m.peopled[s]]
    IN IF d # Top /\ m.count[s] > 0
       THEN [m1 EXCEPT !.count[d] = @ + m.count[s] - 1]
       ELSE m1

\* Space.merge of a space of the current one.
Merge(t, s) ==
    LET d == vm.space
        m == IF CanAnswer(vm, s) THEN BindStatusVar(vm, s, "merged") ELSE vm
    IN /\ Executes(t)
       /\ "merge" \in Liberties
       /\ vm.status[s] = "normal" /\ Parent(vm, s) = d
       /\ \A i \in DOMAIN vm.script[s] : ~Conflicts(vm, vm.script[s][i])
       /\ vm' = InstallThis(MergeCounts(m, s, d), s)
       /\ told' = [told EXCEPT ![d] = @ \cup told[s]]
       /\ UNCHANGED <<choices, killed>>

Next ==
    \/ Idle \/ Preempt
    \/ \E t \in Threads : Dispatch(t)
    \/ \E t \in OzThreads :
          \/ \E v \in Vars : (\E x \in Values : Tell(t, v, x)) \/ NeedVar(t, v)
          \/ Wait(t) \/ Exit(t) \/ Choose(t)
          \/ \E e \in Extras : Spawn(t, e)
          \/ \E s \in SubSpaces : \/ NewSpace(t, s) \/ Ask(t, s) \/ Commit(t, s)
                                  \/ Kill(t, s) \/ Merge(t, s)

Spec == Init /\ [][Next]_vars

-----------------------------------------------------------------------------
(* Properties *)

\* MaxHelpers is enough: no thread of the machine has been given the name of another
\* (see FreeHelper).
HelpersSuffice == vm.kind[Spare] = "none"

\* The machine is a machine, and its sets of threads agree with each other.
TypeOK ==
    /\ vm.space \in Spaces /\ vm.status[vm.space] = "normal"
    /\ \A s \in SubSpaces :
          /\ vm.status[s] \in {"none", "normal", "failed", "merged"}
          /\ vm.answer[s] \in Answers
          /\ ToSet(vm.trail[s]) \subseteq Store
          /\ vm.trail[s] # << >> => s \in Path(vm, vm.space)
          /\ vm.script[s] # << >> => s \notin Path(vm, vm.space)
    /\ \A v \in Vars : vm.bound[v] \in Values \cup {None}
    /\ vm.running \in vm.runnable \cup {None}
    /\ vm.running # None => SpaceOf(vm, vm.running) = vm.space
    /\ vm.runnable \cap vm.terminated = {}
    /\ \A w \in Waitees : vm.pendings[w] \cap vm.runnable \subseteq Helpers
    /\ choices \in 0..MaxChoices
    /\ HelpersSuffice

\* What the current space sees is what it and the spaces above it were told: no
\* speculative constraint of another space is visible and none of theirs is
\* missing, whatever was installed, deinstalled, merged, killed or has failed
\* (bindSubSpace, deinstallThis, installThis).
Told(spaces) == UNION {told[s] : s \in spaces}
Isolation ==
    {c \in Vars \X Values : vm.bound[c[1]] = c[2]} = Told(Path(vm, vm.space))

\* The counters of runnable threads obey the invariant documented at
\* space-decl.hh:371-378, as long as the space is alive: threads of the space
\* that are runnable, and spaces below it that have some.
Children(s) == {c \in SubSpaces : vm.status[c] = "normal" /\ Parent(vm, c) = s}
RunnableCounts ==
    \A s \in SubSpaces : vm.status[s] = "normal" /\ IsAlive(vm, s) =>
        vm.count[s] = Cardinality({t \in vm.runnable : SpaceOf(vm, t) = s})
                      + Cardinality({c \in Children(s) : vm.count[c] > 0})

\* A space fails because it was killed, or a space above it was, or because what it
\* and the spaces above it were told is contradictory.
FailureSound ==
    \A s \in SubSpaces : vm.status[s] = "failed" =>
        \/ Path(vm, s) \cap killed # {}
        \/ \E c, d \in Told(Path(vm, s)) : c[1] = d[1] /\ c[2] # d[2]

\* A space that was reported succeeded, or ready to choose, has no runnable thread
\* and adds nothing to what the spaces above it were told (checkStability).
Done == {"entailed", "stuck", "alternatives"}
AnswerTrue ==
    \A s \in SubSpaces :
        vm.status[s] = "normal" /\ IsAlive(vm, s) /\ vm.answer[s] \in Done =>
            /\ vm.count[s] = 0
            /\ told[s] \subseteq Told(Path(vm, s) \ {s})

\* A status variable is bound once (the assertion of bindStatusVar).
StatusBoundOnce == ~vm.rebound

\* When no thread can run, a space that is the only one has been reported, unless it
\* has constrained a variable of the space above: nobody waits for ever for a space
\* that is stable (decRunnableThreadCount, checkStability, DummyThread).  Of several
\* spaces one may take the wake-ups of another (wakeUpPendingsSubSpace).
EveryStableSpaceAnswered ==
    vm.runnable = {} =>
        \A s \in SubSpaces :
            /\ \A o \in SubSpaces \ {s} : vm.status[o] = "none"
            /\ vm.status[s] = "normal" /\ IsAlive(vm, s)
            /\ told[s] \subseteq Told(Path(vm, s) \ {s})
            => vm.answer[s] # "unbound"

\* A space with a thread that waits for a variable of a space above it is not
\* reported succeeded (platform-test/space/basic.oz:118-120).
BlockedNotSucceeded ==
    \A s \in SubSpaces :
        vm.status[s] = "normal" /\ vm.answer[s] \in {"entailed", "stuck"} =>
            \A t \in OzThreads : vm.at[t] = s => vm.waits[t] \notin Vars

\* A thread of the machine that is dead is not resumed (space.hh:46-49).
DeadStaysDead == vm.runnable \cap vm.dead = {}

=============================================================================
