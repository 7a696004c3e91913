# Mozart 2: specifications of the virtual machine

This directory holds TLA+ specifications of the Mozart 2 virtual machine, which runs Oz: light
threads that synchronise on dataflow variables, and computation spaces in which they speculate.
The specifications are translated from the C++ code under `src/vm/vm/main` (the machine) and
`src/vm/boostenv/main` (its host), checked with TLC, and in part proved with TLAPS.

Paths below are relative to `src/vm/vm/main` unless they start with `src/` or `boostenv/`
(= `src/vm/boostenv/main`). `PROJECT.json` maps each definition to the lines it translates.

## 1. The system

One operating-system thread executes a virtual machine. It calls `VirtualMachine::run`, which picks
an Oz thread from the run queue, installs the computation space of the thread, and lets the thread
run until it blocks, ends, raises or is preempted. A second operating-system thread, the I/O thread
of the process, runs timers and socket handlers; it talks to a machine through three flags
(preempt, exit the loop, collect garbage) and a queue of events behind a mutex. A process can have
several machines, which exchange pickled messages as such events.

| Component | State | Operations | Interacts with |
|---|---|---|---|
| Thread pool (`threadpool*.hh`) | three queues, two counters | schedule, unschedule, reschedule, popNext | `Runnable`, run loop |
| Run loop (`vm.cc`) | current thread, request flags, alarms | run: exit, collect, alarms, pop, install, kill, run, reschedule | pool, spaces, host |
| Threads (`runnable.hh`, `emulate.cc`, `reifiedthread.hh`) | runnable, terminated, dead, priority, injected exception, frames | resume, suspend, terminate, kill, setPriority, injectException | pool, variables, spaces |
| Dataflow variables (`variables.hh`) | kind, home space, needed flag, suspension list | bind, bindReadOnly, markNeeded, addToSuspendList, wakeUp | threads, store, trail of the space |
| Store (`store.hh`) | nodes, references | become, dereference, build | everything |
| Unification (`unify.hh`, `unify.cc`) | work stack, undo and suspend trails, during a call | unify, equals, pattern match | variables |
| Spaces (`space.hh`, `reifiedspace.hh`, `modspace.hh`) | tree, status, status variable, trail, script, two counters, distributor | new, install, deinstall, fail, ask, choose, commit, merge, kill, clone | threads, variables, run loop |
| Host (`boostenv/`) | list of machines, event queues, timers, monitors, count of pending I/O | create, post an event, preempt, kill, monitor, terminate | run loop, streams |
| Memory (`memmanager*`, `gcollect*`, `sclone*`) | heaps, replicas | allocate, collect, clone a space | all nodes |
| Data (`atomtable`, `dictionary`, `records`, `smallint`, `utf`, `pickler`, ...) | tables and values | look-ups, arithmetic, conversions | — |

What makes them correct, and hard:

* **Pool.** Every thread that waits to run is in one queue once, of its priority, and is served in
  bounded time. Hard: threads are woken, blocked, reprioritised, killed and preempted in any order,
  and three asserts that would notice a slip are compiled out.
* **Variables.** Information only grows; a thread goes on exactly when what it waits for is there,
  and is never forgotten. Hard: variables are bound to variables while other threads are suspended
  on both; a suspension can be for a value or for a need; read-only views and equality tests
  suspend *themselves*, and must suspend again when they are woken for nothing; exceptions take
  threads out of the middle of a wait.
* **Spaces.** Constraints of a space are visible in it and below, and nowhere else; a space is
  reported stable, failed, or ready to choose exactly when it is. Hard: the store is shared and
  constraints are taken out and put in again at every switch; counters cascade through the tree;
  reports are made by helper threads when nothing else is left.
* **Host.** A machine is always preempted, every event is handled or refused, a machine terminates
  when nothing can wake it, and its monitors hear of that. Hard: flags without locks, handlers that
  outlive what they refer to.

`PROJECT.json` lists under `hazards` where in the code each of these bites.

## 2. Modules

| Module | Models | Lines |
|---|---|---|
| `Scheduler` | what a fair pool promises (abstract) | 51 |
| `ThreadPool` | `threadpool*.hh`, `vm.cc`, the life of a `Runnable` | 417 |
| `ThreadPoolProofs` | theorems about `ThreadPool` | 1181 |
| `DataflowStore` | what dataflow variables promise (abstract) | 85 |
| `Dataflow` | `variables.hh`, `store.hh`, `unify.*`, the end of a run in `emulate.cc`, built-ins of `modvalue.hh` | 611 |
| `DataflowProofs` | what the operators of `Dataflow` do to references and suspension lists, and theorems | 5884 |
| `Spaces` | `space.hh`, `reifiedspace.hh`, `modspace.hh`, `variables.hh` under a space, the loop's install and kill | 606 |
| `SpacesProofs` | what the operators of `Spaces` do to the tree and to constraints, and theorems | 9097 |
| `Preemption` | one machine and its host: `BoostVM::run`, `terminate`, the timers, the flags, events | 501 |
| `Environment` | several machines: list, events, ports, monitors, kill, crash, end of the process | 491 |
| `PreemptionProofs` | theorems about `Preemption` | 380 |
| `EnvironmentProofs` | theorems about `Environment` | 4289 |
| `Unify` | the walk of `unify.cc` and the quick pattern matcher | 436 |
| `Replication` | `graphreplicator.hh` with `gcollect.cc` and `sclone.cc` | 318 |
| `Pickle` | `pickler.cc`, `unpickler.cc` | 297 |
| `Dictionary` | `dictionary.hh`: a red-black tree | 270 |
| `MemoryManager` | `memmanager.*`, and the swap of two managers by a collection | 207 |
| `Utf` | `utf.hh` | 194 |
| `Arithmetic` | `smallint.hh`, `bigint.hh` | 130 |
| `ArithmeticProofs` | theorem about `Arithmetic` | 701 |
| `AtomTable` | `atomtable.hh`: a crit-bit tree | 129 |
| `StorageProofs` | theorems about `MemoryManager` and `AtomTable` | 1970 |
| `Induction` | induction over the natural numbers, for the proofs | 41 |
| `MCThreadPool`, `MCDataflow`, `MCSpaces`, `MCHost`, `MCData` | instances for TLC | |

`MCHost` holds `Preemption` and `Environment`, and `MCData` the eight modules of data, side by side: they
share no variable, and each behaviour is one of a single module, which variable `part` chooses.

Definitions whose comment starts with "Fault:" are not part of a specification. Each is a plausible
mistake in one operator, which some property must notice; `PROJECT.json` pairs them under `mutants`.

### ThreadPool

State: the flags of threads as sets (`created`, `runnable`, `terminated`, `dead`), `priority`, the
`queues` as sequences, `remainings`, `currentThread`, `inLoop` (inside `run()`), the flag `exitRun`,
and a history variable `waited`, the number of pops in a row that passed each queue over.

| Action | Code |
|---|---|
| `Create` | the constructor of `Thread`, which resumes unless `createSuspended` |
| `Resume`, `Suspend`, `Terminate`, `SetPriority` | the methods of `Runnable`, with their calls of the pool |
| `Run`, `Kill` | one turn of the loop: `popNext()`, then the space installs, or is failed |
| `Return` | `Thread::run` returns, the thread is scheduled anew if it is runnable |
| `BreakLoop`, `ExitLoop`, `InvokeAgain` | the two ends of the loop, and the host that calls again |
| `RequestExitRun` | another operating-system thread, at any time |

What a thread computes is any interleaving of its calls. `popNext()` is the pair of operators
`NextQueue` (its choice) and `RemainingsAfter` (its effect on the counters, with the second turn of
the do-while loop included). The code tests whether the popped thread is terminated; `PoolConsistent`
says that it never is, without injected exceptions (see `dataflow_zombie`).

### Dataflow

Nodes are named; a value is a node of kind `Value`, and a variable that is bound becomes a
`Reference`, as `become()` makes it. A `store` record holds kinds, links, needs and suspension lists.
The methods are operators from store to store and are nested as the calls are (`Bind` calls
`MarkNeeded` of the source, then `Become`, then `Wake`). A wake-up that reaches a thread is gathered
in `store.woken`, and `Update` resumes it as `ReifiedThread::wakeUp` does.

A thread is in one of the blocking instructions (`doing`, its request) or between two instructions.
`Start` and `Retry` perform a request: `Wait`, `WaitQuiet`, `WaitNeeded`, `Equals`, `Unify`, each of
which proceeds, raises or suspends as `applyWaitBefore` decides; a thread that runs after a suspension
executes the instruction again, as in the code. `Create`, `MakeReadOnly`, `MakeNeeded`, `BindReadOnly`
and `InjectException` are the other built-ins, and `Exit`, `Preempt`, `Dispatch`, `Interrupt` and
`PassOver` are what the loop and the emulator do around them. Threads are chosen from `ready` in any
order; `ThreadPool` is the actual order.

Two abstractions: suspension lists are sets, since their order only decides the order in the pool;
and a control variable that has been woken is taken out of the other lists, where its node would be
an inert `unit`.

Nothing stops a program that binds a variable to a read-only view of itself, as by `X = !!X`, here as little as in
the code. `Bind` makes X a reference to the view and wakes the view, which becomes a copy of that
reference (`WakeReadOnly`, `variables.hh:255-264`), and `RichNode::dereferenceLoop` never ends on either: run
`dataflow_circle`. `BindsToOwnView` describes such a step, by `unify` or by `bindReadOnly`. A thread that dereferences in a circle
does nothing more (`IsOperand`); the other threads go on. No run or theorem of this module excludes a program: two views of one
variable, or a future and its view, may be unified too, and wait; a future that is bound to itself only wakes those who
wait for it, since `reinit` does nothing then (`Become`).

A failed value is transient but has no list, and `FailedValue::addToSuspendList` is `assert(false)` (`variables.hh:300-302`).
An equality test of an unbound variable and a failed value asks it all the same (`unify.cc:309-317`): run
`dataflow_failed`. The model goes on as a build without assertions does (the README of the repository builds `Release`):
`AddToSuspendList` then changes nothing, and the test waits for the variable alone.

`DataflowStore` has neither lists nor references: entities, what is known of them, whether they are
needed, and the request of each thread. A step may only add knowledge; a thread may go on only when
its request is satisfied, and does so eventually. This is promised until a circle of references is made (`circular`, which
`ImplementsPromise` maps to `~DereferenceEnds`), and then nothing is. `ImplementsPromise` maps a node to the node it
stands for or views (`Base`), and its status and need to those of that node.

### Spaces

The machine is one record `vm`, and each C++ method is an operator from machine to machine of the same
name (`Inc`, `Dec`, `Fail`, `DeinstallThis`, `InstallThis`, `CheckStability`, ...), so that an action is
the composition of calls that the code makes. A constraint is a binding of a variable of the program
to one of two values. A variable has a `home` and may still be an `OptVar` (`optimized`); the trail of a
space is the sequence of the variables to restore, its script the sequence of pairs to unify.
`DummyThread` and `UnifyThread` are helpers, which run to their end at once; a helper that is dead and
is in no suspension list may be used again.

`told` and `killed` are history variables: what each space was told, and which were killed.

What programs do is chosen by the constant `Liberties`, so that runs can avoid behaviour in which the
code is known to go wrong (each of these has a run of its own, or a hazard with a note): variables
that no thread of the top level has waited for (`"optimized"`), threads that wait for variables above
their space (`"outerWait"`), `"kill"`, `"merge"`, `"nested"`. `Merge` is restricted to compatible constraints (otherwise the
script fails the already merged space, and `bindStatusVar` is called twice), and `Kill` to a caller at the
top level (below, the unconditional decrement of the parent's counter at `space.hh:293` can make it negative).

The counter of threads that `checkStability` reads to tell `entailed` from `stuck` is incremented for each new thread and
never decremented, so that the model, as the code, reports a space whose threads have all ended as stuck, where
`src/platform-test/space/basic.oz:61` expects `entailed`. No run asks for the difference; `AnswerTrue` treats both as success.

### Preemption

Three operating-system threads are interleaved: the machine's, the I/O thread, and one that posts an
event. Each accesses the flags and the queues one at a time, in the order of the code:
`requestExitRun()` is two steps (`RequestExitRun`), since it sets two flags, and `postVMEvent` is a push, these
two and a notification (`PostEvent`, `RequestExitRun`, `NotifyAll`). `handlers` is the queue of `io_context`: what
is posted to it is executed later and in order, so that arming and stopping the timer (`ArmTimer`, `StopTimer`)
lag behind `run()` (`Call`, `Return`). The timers are external, modelled from how they are used: a pending wait
may be queued as an `"expired"` handler at any time. `alarmTimer` is never given an expiry (`boostvm.cc:158`
sets the one of the preemption timer), so that its waits end at once, and a machine with an alarm set
goes through its loop over and over until the time has come; `AlarmRings` holds all the same.

### Environment

Machines are numbered as they are created. `vm[m]` is the state of a machine: where it is in its life
(`pc`), its events, its monitors, its stream, its count of nodes that asynchronous operations will bind.
`post` is the holder of `_vmsMutex` between the push of an event and its notification. The built-ins are `New`,
`Send` and `SendPickled` (before and after pickling), `Kill`, `Monitor`, `GetStream`, `CloseStream`, `StartAsyncIO`; a machine
leaves `run()` by `HandleEvents` (of a kill), by `FinishVM` or by `Crash` (`std::bad_alloc`, `boostvm.cc:83-98`), and ends in the steps
of `terminate()`: `TerminateVM`, `NotifyMonitor` once for each monitor, `RemoveVM`, `DeleteWork`. `RunIO` is the end of the process.
How a machine comes to handle its events is in `Preemption`; here it is the fairness of `HandleEvents`.

What the code loses, the model loses: an event that is posted to a machine that has left `run()` and is
still in the list is never handled (hazard at `boostvm.cc:138`), and `GetStream` after `CloseStream` leaves a
count that nothing decrements (`boostvm.cc:224`), which `AsyncCounts` describes.

### The modules of data

* `Dictionary`, `AtomTable`, `MemoryManager`: an action per operation; the property compares the structure with the
  history of operations.
* `Arithmetic`: a number, and its exact value as a history variable, go through any sequence of operations,
  with words of `Digits` + 1 bits. `a % 0`, which `SmallInt::modValue` does not test, is left out.
* `Unify`: one walk (unify, equals or match, at the top level or in a subspace) over every graph of a few
  nodes, one pair per step. The reference is the greatest bisimulation (`Equal`), and the closure under
  structure for unification. `waiting` is the set of nodes that a walk which suspends calls `addToSuspendList` of:
  every transient operand, failed values included, which assert that it is never called (run `dataflow_failed`). One that is
  not failed is always among them (`WillBeWoken`), so that the walk is woken.
* `Replication`: one collection or clone of every graph of `Sources` nodes, one turn of `runCopyLoop` per
  step. The reference is an isomorphism between what is reached before and after.
* `Utf`: every sequence of units from those at the limits of the tests in the code.
* `Pickle`: a few graphs, each with several sets of replacements, futures, resources and entities known to
  the reader, one turn of a loop per step.

`MemoryManager`, `AtomTable` and `Arithmetic` are also proved about. The others use recursive operators and are for TLC only.

## 3. Runs

| Run | Instance | Distinct states | Result |
|---|---|---|---|
| `thread_pool` | 3 threads, ratios 2 and 2, 2 changes of priority, 1 exit request | 243,660 | holds |
| `dataflow` | 2 threads, 3 nodes; wait, waitNeeded, ==, unify, !! | 167,306 | holds |
| `dataflow_interrupts` | 2 threads of which one has raise-on-block, 2 nodes, 1 injection, ten built-ins | 472,864 | holds |
| `spaces` | 1 variable, 2 values, kill, merge; 2 spaces, possibly nested, or 1 space with an extra thread and 2 choices | 521,285 | holds |
| `host` | 1 machine with 2 Oz threads and 2 requests; 2 machines and 4 calls | 447,368 | holds |
| `data` | see Bounds | 2,389,348 | holds |
| `dataflow_zombie` | injection into a terminated thread | | `ResumeOnlyLive` violated |
| `dataflow_circle` | `X = !!X` | | `DereferenceEnds` violated |
| `dataflow_failed` | a variable `==` a failed value | | `NoTestOnFailed` violated |
| `spaces_blocked` | a space that waits for an outer variable | | `BlockedNotSucceeded` violated |
| `spaces_isolation` | a variable first waited for in a space | | `Isolation` violated |
| `spaces_dead` | two variables, a space that fails | | `DeadStaysDead` violated |

Properties that hold:

* `PoolConsistent`: the queues hold exactly the threads that are runnable and do not run, each once, in
  the queue of its priority; nothing dead is runnable.
* `BoundedBypass`: the counters never make a non-empty queue wait for more than `BypassBound` pops.
  `FirstInFirstOut`: within a priority nobody overtakes. `ImplementsScheduler`: `FairSpec` refines `Scheduler`.
* `NoLostWakeup`: a blocked thread is in the suspension list of an unbound variable, the one that its
  request is about *now*, and what it waits for is not there. `FuturesFollow`: the same for read-only
  views. `OnlyOwnViewsClose`: a step makes a circle of references exactly if it binds a variable to a
  view of itself. `ImplementsPromise`: `FairSpec` refines `DataflowStore`, until there is such a circle. The others hold even then.
* `Isolation`: the store shows what the current space and those above it were told, no less and no more.
  `RunnableCounts`: the invariant documented at `space-decl.hh:371-378`. `FailureSound`: a space fails only by
  contradiction or kill.
* `AnswerTrue`, `StatusBoundOnce`, `EveryStableSpaceAnswered`: reports are true, made once, and always made (the last, of
  a space that is the only one).
* `RequestsArrive`: no order of the two flags loses a request while an Oz thread runs. `TimerOutlivesHandlers`: the timer
  is deleted after the last handler that uses it. `ThreadsYield`, `PostedIsHandled`, `AlarmRings`: what must eventually
  happen in a machine.
* `PortIsReliable`: every message once and in order while the port is open. `TerminatedIsLast`, `MonitorsHear`: the end of a
  machine is reported after its last message, once for each request, with its reason. `FoundStaysAlive`,
  `SleepersAreWoken`: the two mutexes do what they are for. `AsyncCounts`: the count that decides whether a
  machine may end. `ExitCodeIsInitial`, `KilledEnds`.
* `DictionaryIsMap`, `DictionaryIsRedBlack`, `AtomsAreInterned`, `ChunksAreApart`, `UnifyIsSound`, `CopyIsFaithful`, `IntegersAreExact`,
  `UtfIsCanonical`, `PickleIsFaithful`: each module of data against its reference, as the comment before each states.

The type invariants of `ThreadPool`, `Dataflow`, `Preemption` and `Environment` (`TypeOK`, `PreemptionTypeOK`,
`EnvironmentTypeOK`) document the state, and no run lists them; all but that of `Preemption` are proved.

The six violations, each a disagreement of the code with its own assertions, comments or tests, are
under `findings` in `PROJECT.json` with the quoted lines. Three are in spaces, whose tests are switched
off (`src/platform-test/CMakeLists.txt:141-143`), which is consistent with what the runs find.
`dataflow_circle` and `dataflow_failed` are why `dataflow` says what it says of circles and of failed values.

### Bounds

* Three threads are the least with which one queue is full while another one is served and a third
  thread changes queue. With ratios of 2 both counters run out, also in one turn of the do-while loop;
  the code's ratios of 10 are covered by the proof. Two changes of priority reach all three queues.
* Two threads and three nodes give chains of two bindings, a view of a variable that is bound to another
  one, and an equality test between two variables and a third. A thread suspended for a need and one
  suspended for a value of the same variable is the critical pair. The run with interrupts has two
  nodes, since its ten built-ins make it larger; one injection is enough to interrupt each state of a
  wait, and a second one would only replace the first (`emulate.hh:222`). Both runs make circles, by
  `unify` and by `bindReadOnly`; three nodes give a view of a view, and a variable that is bound to a view of another one
  which is then bound to it.
* Two spaces are the least with siblings or nesting; one variable and two values give conflict,
  entailment and independence. The programs of `spaces` have two spaces that do not choose, or a single one, which does
  and has a second thread (`FightsOrSearches` in `MCSpaces`): with a space inside another one that chooses, `AnswerTrue` and
  `StatusBoundOnce` do not hold (hazards at `space.hh:397` and `space.hh:311`). `EveryStableSpaceAnswered` speaks of a
  space that is the only one: with two on one variable, `wakeUpPendingsSubSpace` drops the wake-ups of the other space
  (hazard at `variables.hh:135`). Two choices are needed for an answer to be replaced twice. At most
  four helpers are alive at a time (`MaxHelpers`): there is one more, `Spare`, which `FreeHelper` takes when there is no
  other, and `TypeOK` says that no run ever does.

* `host`: two Oz threads are one that runs and one that waits; two requests are an event and an alarm, or
  an event before and one during a wait. A backlog of one call and one late expiry are what is needed
  for a handler to meet a timer that has since been armed again or stopped. Two machines and four calls
  let a machine be created, asked for its stream, sent to and killed, in every order.
* `data`: nine keys are enough for every case of the removal from a red-black tree; strings of up to two
  characters of two bits have shared prefixes, prefixes of each other, and differences in each bit; heaps of
  two and three units with chunks of one and two fill up and change size; graphs of four or five nodes with two
  elements have sharing and cycles of length two; words of five bits have all the corners of the overflow
  tests, and a product of two of them is within `MaxNumber`'s reach on both sides; four bytes are the longest
  form of UTF-8, three words a pair of surrogates and a neighbour.

Deadlock checking is off where programs may end: all threads have terminated or wait for each other,
which Oz programs may do. `NoLostWakeup` and `EveryStableSpaceAnswered` are what is to hold then.
`thread_pool` checks for deadlock: the host can always call again.

### Fairness

* `ThreadPool`: weak fairness of a turn of the loop, because the machine's operating-system thread keeps
  running and calls `run()` again at once when threads are left (`boostvm.cc:106-168`); weak fairness of
  `Return`, because the preemption timer expires each millisecond and every infinite path of the emulator
  traverses a call, where preemption is tested (`emulate.cc:1341-1344`). Changes of priority and
  exit requests are bounded by constants: without end, either starves a thread, as in the code.
* `Dataflow`: strong fairness of dispatching each thread, which is what `Scheduler` promises and
  `thread_pool` checks of the pool; weak fairness of preemption; and a thread does not stay in an
  instruction that it is executing again, which is its only enabled step. This says nothing of a thread with an operand on a
  circle of references: its instruction does not end, and the machine of such a program hangs (`dataflow_circle`).
* `Preemption`: weak fairness of the machine's own steps, of the thread that posts, of the I/O thread, and of the
  timers: the operating system runs each of the three threads, and time passes. An Oz thread is never
  assumed to end. An input or output that was started ends, which is the assumption about the outside.
* `Environment`: weak fairness of posting, of handling events (what `PostedIsHandled` says of one machine), and of the steps of
  ending. Nothing is assumed about built-ins, inputs and outputs, or of a machine with no event.
* `Spaces` and the modules of data state safety only.

## 4. Proofs

The theorems below hold for every value of the constants that satisfies the named assumptions of the modules. Each
inductive invariant has been checked with TLC, on the instances of the runs, before its proof.

| Theorem | States |
|---|---|
| `ThreadPoolProofs`: `TypeCorrect`, `PoolIsConsistent`, `BypassIsBounded` | `Spec => []P`, for `TypeOK`, `PoolConsistent`, `BoundedBypass` |
| `ThreadsKeepTheirOrder` | `Spec => FirstInFirstOut`, an action property |
| `PoolIsAScheduler` | `Spec => Fair!Safety`: each step of the pool is a step of `Scheduler` or stutters |
| `DataflowProofs`: `CirclesComeFromOwnViews` | `Spec => OnlyOwnViewsClose`, an action property |
| `DataflowTypes`, `NoThreadIsForgotten`, `ViewsFollowTheirVariable` | `Spec => [](DereferenceEnds => P)`, for `TypeOK`, `NoLostWakeup`, `FuturesFollow` |
| `DataflowIsAPromise` | `Spec => Promise!Safety`: each step is a step of `DataflowStore` or stutters |
| `PreemptionProofs`: `NoRequestIsLost`, `TimerIsDeletedLast` | `PreemptionSpec => []P`, for `RequestsArrive`, `TimerOutlivesHandlers` |
| `EnvironmentProofs`: `EnvironmentTypes`, `NoWakeupIsLost`, `PosterFindsAlive`, `InitialGivesExitCode`, `NodesAreCounted`, `PortsAreReliable`, `TerminationComesLast`, `MonitorsAreTold` | `EnvironmentSpec => []P`, for `EnvironmentTypeOK`, `SleepersAreWoken`, `FoundStaysAlive`, `ExitCodeIsInitial`, `AsyncCounts`, `PortIsReliable`, `TerminatedIsLast`, `MonitorsHear` |
| `SpacesProofs`: `SpacesAreIsolated`, `FailuresHaveReasons` | `Spec => []P`, for `Isolation`, `FailureSound`, when `"optimized"` is not among the liberties |
| `CountersAreExact`, `MachineIsInOrder` | `Spec /\ []HelpersSuffice => []P`, for `RunnableCounts`, `TypeOK`, under the same condition |
| `StorageProofs`: `MemoryIsApart`, `AtomsStayInterned` | `MemorySpec => []ChunksAreApart`, `AtomTableSpec => []AtomsAreInterned` |
| `ArithmeticProofs`: `IntegersStayExact` | `ArithmeticSpec => []IntegersAreExact` |

### The pool

For every finite or infinite set of threads, every positive ratio and every bound. Assumptions: `NoThread` is not a
thread, ratios are positive, bounds are natural numbers.

`IInv == TypeOK /\ PoolConsistent` is inductive. The argument is about contents of queues:
`PushContents`, `PopContents` and `RemoveContents` say what `push`, `pop` and `ThreadQueue::remove` do to
what a queue contains and to its being free of duplicates, and `ScheduleContents`, `UnscheduledContents` and
`PopNextContents` lift this to the pool. Each action then moves one thread across the line between
`runnable` and the queues. `PoolConsistent` alone is not inductive, since it does not say that the
current thread is a thread, nor that `runnable` is a subset of the created ones.

`BoundedBypass` is not inductive: one must know what the counters still allow. `BypassInv` bounds
`waited[p] + StillToWait(p)`, where `StillToWait` is the number of pops that the two counters can still give
to the other queues before queue `p` is served. `OthersComeCloser` says that a pop of another queue
decreases it by one at least; `StillToWaitBound` that refilling stays within `BypassBound`.

`FirstInFirstOut` needs the positions of threads in the queues rather than their contents: `push` adds behind, `pop` and
`remove` keep the relative order of what stays. For the refinement, `ready` is the contents of the queues, so
that `PoolConsistent` makes each action a step of `Scheduler`. Its fairness part stays with TLC.

### Dataflow variables

For every finite set of threads and every bound on nodes and injected exceptions (`DataflowAssumption`), where threads are not
nodes and `None` is neither a node nor a request (`NamesAssumption`).

`IInv` is `StoreInv(store)` with types and three facts about threads: the operands of a request exist
(`KnownOperands`), nobody is left in `woken`, and each blocked thread hangs on the right node (`WaitingRightly`). `StoreInv` says
that references lead to existing nodes and never in circles (`Acyclic`: there is a rank that decreases), that only
variables have lists and needs, that control variables in a list are not yet bound and have only threads behind them, and
that every view is in the list of the variable it views.

`NoLostWakeup` is not inductive, since it speaks of the node at the *end* of a chain of references and views, and a
binding changes the end of every chain that runs through the node bound. The first part of `DataflowProofs` therefore
treats dereferencing through its equations: in an acyclic store the equations of `Dereference` and `Base` have one
solution (`Redirect`), and each operator on stores is described by what it does to that solution and to the
lists (`Evolves`). In the middle of `Bind` some threads wait for a node that has gone and are still to be woken: `WakeInv` is
the invariant there. For the refinement, `Advances` is proved of each action: what is known only grows, because the solution
after a binding is the solution before followed by the redirection, and a thread proceeds when its request is satisfied.

All this needs that the chains end, and they do not always. The store of a program that binds a variable to a view of
itself has a `Loop`: some references that lead only to each other. The second part of `DataflowProofs` is about *any* store,
in order or not, of which little is known but its fields (`Shaped`): no operator takes a reference away, and none but a binding
makes an unbound variable anything else (`Stays`), so that a loop stays for ever (`LoopStays`), and dereferencing does not end on it
(`LoopNeverEnds`). `BindOwnView` follows the code through such a binding and finds the loop, and `OwnViewCloses` says it of the
step. Conversely each action that binds no variable to a view of itself keeps `IInv` (`NextAdvances`): the rank of `Acyclic` can be
chosen anew. `JInv`, that either `IInv` holds or there is a loop, is thus inductive for every program (`JInvStep`).
From it follow `CirclesComeFromOwnViews`, the three other invariants for as long as dereferencing ends, and
`DataflowIsAPromise`: a step leaves a loop behind, and `circular` is true from then on, or it keeps `IInv` and `Advances`.

The proof has corrected the model in places that TLC's instances do not reach: a view that is settled refers to what
its variable refers to by now, since `become` copies a reference (`WakeReadOnly`); the control variable of a test
that raises is dead from then on (`Wake(s2, {c})`); and the bound on control variables is a guard of `EqualsSuspends`.

### Computation spaces

For every finite set of spaces, variables and further threads, every set of values, every bound, and every set of liberties
without `"optimized"`: variables are never `OptVar`. The hypothesis is needed: with it, `spaces_isolation` shows
`Isolation` violated by what the code does.

`Isolation` says what can be seen where the machine is. It is far from inductive, since the constraints of all the other
spaces come from scripts. The invariant `IInv` (`Holds`, of the machine and the two histories) consists of:

* `WellRun`: the fields have their types, the parents of spaces form a tree (`Tree`: there is a rank that decreases towards the
  top), and threads that run have started in a space that was created.
* `Core`, where constraints are. The spaces from the current one to the top are normal, have no script, and only they have a
  trail (`Installed`). A variable that is bound was told at the top or is in one trail (`Bindings`), that of
  the space where it was told and not above (`Trails`). All that was told where the machine is can be seen (`Visible`). Scripts say
  nothing that was not told, and do not contradict themselves (`Scripts`). What was told to any other normal space is in its
  script or was told above (`Hidden`). A failed space has a reason (`Failures`), and one that was not created is empty (`Unborn`).
* `RunsHere`: the thread that runs is in the current space.

The calls that an action is made of are followed one after the other, in three groups. Most only wake and count threads
(`Murmur`): binding a status variable, `Inc`, `Dec`, `WakeUpPendings`, `PropagateOn`. Others move constraints and the machine,
and keep `Core`: `Bind`, `DeinstallThis`, `InstallThis`, `Fail`, and then `Install` and `CheckStability`, which loop over
them. In the middle of such a loop one space is entered with its script not yet executed: `Core(m, g, h)` leaves out, for that
space `h`, what is not so yet, and `Pending` says that what was told there can be seen or is still in the script. The actions
come last (`...Holds`). Paths in the tree are recursive functions bounded by the number of spaces; `RankBound` shows that the bound suffices,
`PathFacts` gives the path of a space from that of its parent, and `MergedPath` what becomes of paths when a space is merged.

`Merge` is as restricted as in the model: the constraints of the space agree with those where it is merged.

`RunnableCounts` (`CountersAreExact`) speaks of spaces that are alive: a space counts its runnable threads and the spaces
right below it that count some. It is not inductive, and not only because every call that counts goes up the tree one level at a time.
`CInv` adds `Sound(vm, Top)` to `IInv`; `Sound(m, a)` says that `Books(m, a)` holds, or that `Spare` was needed. `Books` has four parts:

* `Tallied(m, a)`: the counters are those that are due (`Due`), but for one thread too many in space `a`. This is how things are when a
  thread of `a` has stopped, or a space below `a` has failed or run out of threads, and `Dec` has still to go up from `a`; when it has come
  to the top nothing is too many. In `Dec` itself, `a` moves up (`Descends`).
* `Counters`: no counter is negative, a space that was not created counts nothing, and one that has failed has kept a counter that is
  not zero or was right below the top. The last part is what stops `Inc` and `Dec` at a failed space, which still counts for those that go by.
* `Queued` and `Scheduled`: a thread of the program is either runnable or in one suspension list, or neither, so that `WakeUp` counts no thread
  twice; only threads that exist are runnable, wait and run.

A call tallies (`Tallies`) when it stops no thread, moves none, and keeps `Sound`. `Space::fail` decrements the counter of
the parent whether or not the space was counted there (`space.hh:293`), which is right only because a space is failed while it is
installed for a thread of its own or of a space below it that is runnable (`Called`), or is a child of the top, which counts
nothing. The proof of `InstallKeeps` shows that this goes on being so on the way down, as the scripts that are executed wake threads
but stop none; `MergedBooks` is the case in which two counters become one.

`HelpersSuffice` is about the model: a thread of the machine gets a name out of `MaxHelpers`, and no theorem can say how many are
alive at a time, since a space posts one more each time it is left with constraints. Where names run out, the model would give one thread the
name of another, which the code, with memory, does not do. Each run of `TypeOK` checks that its bound is enough.

### One machine and its host

For every bound on threads, requests and handlers that wait. `RequestsArrive` is inductive together with the types
of the flags. `TimerOutlivesHandlers` is not: it depends on the order of the queue
of the I/O thread. `Queued` says that nothing but expiries and alarms is behind `stopTimer`, which only a
machine that has left `run()` has posted, and that once `deleteTimer` is in the queue the timer is stopped, does not
wait, is not armed again, and has nothing behind. Each handler that is taken moves these facts by one place.

### Several machines

For every positive number of machines and every number of calls. There are two inductive invariants.

`IInv` is for what depends on one machine and the poster: machines are records with the fields of the model, the
list holds existing numbers, and `InitialMachine`: the initial machine exists, is gone when the process has ended, and
from then on the exit code is its status. Two lemmas carry the rest: `OwnStep`, for a step in which one machine
changes and nothing is posted, and `PushStep`, for one that posts: since one event is posted at a time, no machine sleeps
on an event before, and only the one that is posted to may do so after.

`EInv` is for what one machine knows of another. `Counting` balances, for each machine, the nodes that it protects
with the answers on their way and the streams given out. `LinkedAll` holds for each *pair* of machines: what one has sent
is what the other has in its stream, followed by what is in its queue (`Reliable`); what the other hears of its end gives the reason and
is behind all its messages (`Told`); and once it has ended, the requests to monitor it are those that it has
answered and those that it has still to answer (`Heard`). A step is followed through the pairs in which its machine is
the sender, the receiver, both or neither. Subsequences by sender are taken with a recursive function (`Select`), whose
laws (of a concatenation, of a tail) are lemmas; a proof cannot reach inside `SelectSeq`.

### Memory

For every set of blocks (`NoBlock` is not one), every non-empty set of positive heap sizes and every bound.
`ChunksAreApart` is far from inductive, since it says nothing about where a new chunk may come from. `MemoryInv == Typed
/\ Owned /\ Placed /\ Separate` adds that each block of the system has one use (`Owned`), that the chunks in the heap
lie in the part that has been given and that a big chunk fills a block of its own (`Placed`), and that the chunks of
before a collection lie in blocks in which no new one is (`Separate`); outside of a collection the second manager
holds no extra block. `UnusedIsEmpty` then gives that a fresh block overlaps nothing, and the end of a
collection, which exchanges the managers, keeps the four parts.

### Atoms

For every width of a character, strings of every length, any number of them and any order. In the crit-bit tree of
`atomtable.hh` an atom is an inner node and a leaf at once, so that links go down to larger crit bits or back up to an
atom with a smaller one, which is the candidate that the walk then compares to its end. `TableInv` says of every
link, the one to the root included, which strings take it (`Takes`): the atom at its end is one of them, and has a
string (`Linked`); every atom whose string takes the link is the candidate, or agrees with the atom below up to its
crit bit (`Led`); none of these belongs between the two ends (`Dense`); and no two atoms belong at the same place
(`Single`). `AtomsAreInterned` alone says nothing of the tree. A bit that differs gives the place of a new atom
(`WalkFindsPlace`); `PlaceIsFree` says that no atom has the bits of its string or the same place, and `OtherLinks`
that the links which its string takes before stay as they are. `SameBits` is why a comparison of the candidate may
stop soon after its end: the first character behind it, all ones, differs in some bit from every character of a string. `WalkEnds` is
an induction over the turns of the loop.

The walk is a recursive function of the number of turns, and a character is the function from its places to bits: the prover
knows nothing of `^`, with which a number would be taken apart.

### Integers

For every width of the machine word. The invariant is `Canonical`: the number is `Shrink` of the exact integer,
that is, a `SmallInt` when it fits and a `BigInt` otherwise. There is a lemma for each operation. Addition and subtraction
test the signs of a result that has wrapped around; `MultiplyIsExact` is the hard one, because `SmallInt::multiplyValue`
takes a product of two operands below half the width as safe (`HalfSquared`) and tests by a division otherwise
(`QuotientFacts`); division overflows only for the least number by -1. Powers of two are a recursive function
(`PowerOfTwo`), as the prover knows nothing of `^`.

### What recursion needs

The prover has no induction over data. `Induction` proves, from the well-foundedness of the natural numbers, that a set of
naturals which contains 0 and the successor of each of its elements contains them all. With sets in place of
predicates this is first-order, and gives existence and uniqueness of recursive functions over `0..n`, on which chains of
references, `Select`, `PowerOfTwo` and the walk for an atom rest.

### Only model-checked

* Liveness, which with `ENABLED` is beyond the prover: `ThreadsYield`, `PostedIsHandled`, `AlarmRings`, `KilledEnds`, and the
  fairness of `ImplementsScheduler` and `ImplementsPromise`.
* Of `Spaces`: `AnswerTrue`, `StatusBoundOnce` and `EveryStableSpaceAnswered`. The first two do not hold for every value of the constants:
  with a space inside another one that chooses, or with `"outerWait"`, the code does otherwise (see Bounds and the hazards). And
  `HelpersSuffice`, above.
* `Unify`, `Replication`, `Pickle`, `Dictionary` and `Utf`: their references are recursive operators, on which the
  prover does not work.

## 5. What is left

1. For `Spaces`, the reports that rest on the counters (`AnswerTrue`, `StatusBoundOnce`), for one space on its own variables.
2. Cloning of a space together with its threads and trail: `Spaces` and `Replication` composed.
3. `WeakDictionary` with its finalization, after `Replication`.

### Not modelled

The source under `src/` has some 64,000 lines of implementation, of which most are not a state machine,
and the specifications cover a small part of them by count:

* the Oz library, the compiler in Oz and the bootstrap compiler in Scala (more than half of the lines):
  batch translators and library code, which the machine below runs;
* generated code (`cached/mozartbuiltins.cc`, the interfaces) and its generator, except for the copies of nodes;
* tables and glue in C++ headers: `coreinterfaces-decl.hh`, `matchdsl.hh`, `utils.hh`, built-in modules that convert
  arguments and call one method;
* most instructions of `emulate.cc`, which compute in registers that no other actor sees. What ends the run of
  a thread is in `Dataflow` and `Spaces`;
* sockets, pipes, files, child processes, the launcher, the development environment and packaging. What they post to
  a machine is in `Environment`;
* records, names, strings: immutable data.

Mapping more of these would add definitions without a property that several steps could violate.
