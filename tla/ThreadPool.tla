----------------------------- MODULE ThreadPool -----------------------------
(***************************************************************************)
(* The run queue of a Mozart virtual machine and the loop that drains it.  *)
(*                                                                         *)
(*   threadpool-decl.hh, threadpool.hh   ThreadQueue, ThreadPool           *)
(*   runnable-decl.hh, runnable.hh       Runnable: the life of a thread    *)
(*   vm.cc                               VirtualMachine::run               *)
(*                                                                         *)
(* Exactly one operating-system thread executes the machine, so one Oz     *)
(* thread runs at a time; everything that happens while it runs is either  *)
(* its own doing or the doing of the loop around it.  What the thread      *)
(* computes is left out: it may create threads, wake them, change their    *)
(* priorities, block, terminate, or be preempted, in any order.            *)
(***************************************************************************)
EXTENDS Naturals, Sequences, SequencesExt

CONSTANTS
    Threads,                  \* identities of the threads ever created
    NoThread,                 \* nullptr
    HiToMiddlePriorityRatio,  \* Hi pops between two chances for the others
    MiddleToLowPriorityRatio, \* Middle pops between two chances for Low
    MaxSetPriority,           \* bound on calls that change a priority
    MaxExitRequests           \* bound on requestExitRun() calls

ASSUME NoThreadAssumption == NoThread \notin Threads
ASSUME RatioAssumption ==
    /\ HiToMiddlePriorityRatio \in Nat \ {0}
    /\ MiddleToLowPriorityRatio \in Nat \ {0}
ASSUME BoundAssumption == MaxSetPriority \in Nat /\ MaxExitRequests \in Nat

ThreadPriority == {"tpLow", "tpMiddle", "tpHi"}

VARIABLES
    created,        \* threads whose constructor has run
    runnable,       \* threads whose _runnable flag is set
    terminated,     \* threads whose _terminated flag is set
    dead,           \* threads whose _dead flag is set: not in aliveThreads
    priority,       \* _priority of each thread
    queues,         \* the three ThreadQueues
    remainings,     \* remainings[tpHi], remainings[tpMiddle]
    currentThread,  \* VirtualMachine::_currentThread
    inLoop,         \* TRUE inside VirtualMachine::run
    exitRun,        \* the exit-run request flag
    setPriorities, exitRequests,  \* calls so far, for the two bounds
    waited          \* history: pops served by the other queues since a queue
                    \* was last served, or was last empty

threadVars == <<created, runnable, terminated, dead>>
poolVars == <<queues, remainings, waited>>
boundVars == <<setPriorities, exitRequests>>
vars == <<threadVars, priority, poolVars, currentThread, inLoop, exitRun, boundVars>>

-----------------------------------------------------------------------------
(* ThreadQueue *)

\* ThreadQueue::remove erases the first occurrence only.
ThreadQueueRemove(q, t) ==
    IF Contains(q, t)
    THEN RemoveAt(q, CHOOSE i \in 1..Len(q) :
                        q[i] = t /\ \A j \in 1..(i - 1) : q[j] # t)
    ELSE q

IsEmpty(p) == queues[p] = << >>
PoolIsEmpty == \A p \in ThreadPriority : IsEmpty(p)

\* Threads held by the pool.
Scheduled == {t \in Threads : \E p \in ThreadPriority : Contains(queues[p], t)}

\* What waited becomes when queue p served a thread and qs are the queues left.
Waiting(p, qs) ==
    [r \in ThreadPriority |->
        IF r = p \/ qs[r] = << >> THEN 0 ELSE waited[r] + 1]

-----------------------------------------------------------------------------
(* ThreadPool *)

\* Fault: the thread is pushed at the front.
ScheduleAtFront(t) ==
    queues' = [queues EXCEPT ![priority[t]] = << t >> \o @]

Schedule(t) ==
    queues' = [queues EXCEPT ![priority[t]] = Append(@, t)]

\* Fault: only the queue of the current priority is searched, after the
\* priority has been changed.
UnscheduledTooLate(t) ==
    [queues EXCEPT ![priority'[t]] = ThreadQueueRemove(@, t)]

Unscheduled(t) ==
    [p \in ThreadPriority |-> ThreadQueueRemove(queues[p], t)]

\* The queue popNext() serves.  When every remaining is spent and Low is empty
\* the do-while loop goes round once more with both remainings refilled.
NextQueue ==
    IF ~IsEmpty("tpHi") /\ remainings["tpHi"] > 0 THEN "tpHi"
    ELSE IF ~IsEmpty("tpMiddle") /\ remainings["tpMiddle"] > 0 THEN "tpMiddle"
    ELSE IF ~IsEmpty("tpLow") THEN "tpLow"
    ELSE IF ~IsEmpty("tpHi") THEN "tpHi"
    ELSE "tpMiddle"

\* Fault: the counter of Hi is decremented without the test that it is positive.
RemainingsAfterNoTest(p) ==
    CASE p = "tpHi" -> [tpHi |-> remainings["tpHi"] - 1,
                        tpMiddle |-> remainings["tpMiddle"]]
      [] p = "tpMiddle" -> [tpHi |-> HiToMiddlePriorityRatio,
                            tpMiddle |-> remainings["tpMiddle"] - 1]
      [] p = "tpLow" -> [tpHi |-> HiToMiddlePriorityRatio,
                         tpMiddle |-> MiddleToLowPriorityRatio]

\* Fault: serving Middle forgets to refill the Hi counter.
RemainingsAfterNoRefill(p) ==
    CASE p = "tpHi" ->
           IF remainings["tpHi"] > 0
           THEN [remainings EXCEPT !["tpHi"] = @ - 1]
           ELSE [tpHi |-> HiToMiddlePriorityRatio - 1,
                 tpMiddle |-> MiddleToLowPriorityRatio]
      [] p = "tpMiddle" ->
           IF remainings["tpMiddle"] > 0
           THEN [remainings EXCEPT !["tpMiddle"] = @ - 1]
           ELSE [remainings EXCEPT !["tpMiddle"] = MiddleToLowPriorityRatio - 1]
      [] p = "tpLow" ->
           [tpHi |-> HiToMiddlePriorityRatio,
            tpMiddle |-> MiddleToLowPriorityRatio]

\* The remainings popNext() leaves when it serves queue p.
RemainingsAfter(p) ==
    CASE p = "tpHi" ->
           IF remainings["tpHi"] > 0
           THEN [remainings EXCEPT !["tpHi"] = @ - 1]
           ELSE [tpHi |-> HiToMiddlePriorityRatio - 1,
                 tpMiddle |-> MiddleToLowPriorityRatio]
      [] p = "tpMiddle" ->
           [tpHi |-> HiToMiddlePriorityRatio,
            tpMiddle |-> IF remainings["tpMiddle"] > 0
                         THEN remainings["tpMiddle"] - 1
                         ELSE MiddleToLowPriorityRatio - 1]
      [] p = "tpLow" ->
           [tpHi |-> HiToMiddlePriorityRatio,
            tpMiddle |-> MiddleToLowPriorityRatio]

-----------------------------------------------------------------------------
(* Runnable *)

Init ==
    /\ created = {}
    /\ runnable = {}
    /\ terminated = {}
    /\ dead = {}
    /\ priority = [t \in Threads |-> "tpMiddle"]
    /\ queues = [p \in ThreadPriority |-> << >>]
    /\ remainings = [tpHi |-> 0, tpMiddle |-> 0]
    /\ currentThread = NoThread
    /\ inLoop = FALSE
    /\ exitRun = FALSE
    /\ setPriorities = 0
    /\ exitRequests = 0
    /\ waited = [p \in ThreadPriority |-> 0]

\* Code of the machine is executing: a thread that has not yet blocked, or the
\* environment (which wakes and creates threads between two calls of run()),
\* or the loop itself when it triggers an alarm.
Executing ==
    \/ currentThread = NoThread
    \/ currentThread \in runnable \cup terminated

\* The constructor followed by resume(), unless createSuspended.
Create(t, createSuspended) ==
    /\ Executing
    /\ t \notin created
    /\ created' = created \cup {t}
    /\ IF createSuspended
       THEN UNCHANGED <<runnable, queues>>
       ELSE runnable' = runnable \cup {t} /\ Schedule(t)
    /\ UNCHANGED <<terminated, dead, priority, remainings, waited,
                   currentThread, inLoop, exitRun, boundVars>>

\* Runnable::resume, under the assertions it starts with.
Resume(t) ==
    /\ Executing
    /\ t \in created \ (dead \cup terminated)
    /\ t \notin runnable
    /\ runnable' = runnable \cup {t}
    /\ Schedule(t)
    /\ UNCHANGED <<created, terminated, dead, priority, remainings, waited,
                   currentThread, inLoop, exitRun, boundVars>>

\* Runnable::setPriority, called by the program on any thread.
SetPriority(t, p) ==
    /\ setPriorities < MaxSetPriority
    /\ currentThread \in runnable
    /\ t \in created
    /\ p # priority[t]
    /\ setPriorities' = setPriorities + 1
    /\ priority' = [priority EXCEPT ![t] = p]
    /\ IF t \in runnable /\ currentThread # t
       THEN LET left == Unscheduled(t)
                qs == [left EXCEPT ![p] = Append(@, t)]
            IN /\ queues' = qs
               /\ waited' = [r \in ThreadPriority |->
                               IF left[r] = << >> THEN 0 ELSE waited[r]]
       ELSE UNCHANGED <<queues, waited>>
    /\ UNCHANGED <<threadVars, remainings, currentThread, inLoop, exitRun,
                   exitRequests>>

\* Runnable::suspend with skipUnschedule, as suspendOnVar calls it: only the
\* running thread blocks, and it is in no queue.
Suspend ==
    /\ currentThread \in runnable
    /\ runnable' = runnable \ {currentThread}
    /\ UNCHANGED <<created, terminated, dead, priority, poolVars,
                   currentThread, inLoop, exitRun, boundVars>>

\* Runnable::terminate, then dispose.
Terminate ==
    /\ currentThread \in runnable
    /\ runnable' = runnable \ {currentThread}
    /\ terminated' = terminated \cup {currentThread}
    /\ dead' = dead \cup {currentThread}
    /\ UNCHANGED <<created, priority, poolVars, currentThread, inLoop,
                   exitRun, boundVars>>

-----------------------------------------------------------------------------
(* VirtualMachine::run *)

AtLoopHead == inLoop /\ currentThread = NoThread

\* popNext() moves the chosen thread out of its queue and settles the counters.
\* The loop pops again while the thread is terminated; PoolConsistent says that
\* it never is.
PopNext(t) ==
    /\ AtLoopHead
    /\ ~exitRun
    /\ ~PoolIsEmpty
    /\ LET p == NextQueue
           qs == [queues EXCEPT ![p] = Tail(@)]
       IN /\ t = Head(queues[p])
          /\ queues' = qs
          /\ remainings' = RemainingsAfter(p)
          /\ waited' = Waiting(p, qs)

\* The space of the thread installs, and the thread runs.
Run(t) ==
    /\ PopNext(t)
    /\ currentThread' = t
    /\ UNCHANGED <<threadVars, priority, inLoop, exitRun, boundVars>>

\* The space of the thread is failed: Runnable::kill, and round the loop.
Kill(t) ==
    /\ PopNext(t)
    /\ runnable' = runnable \ {t}
    /\ dead' = dead \cup {t}
    /\ UNCHANGED <<created, terminated, priority, currentThread, inLoop,
                   exitRun, boundVars>>

\* Thread::run returned, because the thread blocked, terminated or was
\* preempted; it is scheduled anew if it is still runnable.
Return ==
    /\ inLoop
    /\ currentThread # NoThread
    /\ currentThread' = NoThread
    /\ IF currentThread \in runnable
       THEN Schedule(currentThread)
       ELSE UNCHANGED queues
    /\ UNCHANGED <<threadVars, priority, remainings, waited, inLoop, exitRun,
                   boundVars>>

\* popNext() found every queue empty: it has refilled both remainings, and
\* the loop breaks.
BreakLoop ==
    /\ AtLoopHead
    /\ ~exitRun
    /\ PoolIsEmpty
    /\ remainings' = [tpHi |-> HiToMiddlePriorityRatio,
                      tpMiddle |-> MiddleToLowPriorityRatio]
    /\ inLoop' = FALSE
    /\ UNCHANGED <<threadVars, priority, queues, waited, currentThread,
                   exitRun, boundVars>>

\* Fault: the request is tested and not cleared.
ExitLoopUncleared ==
    /\ AtLoopHead
    /\ exitRun
    /\ inLoop' = FALSE
    /\ UNCHANGED <<threadVars, priority, poolVars, currentThread, exitRun, boundVars>>

\* testAndClearExitRunRequested() ends the loop whatever the queues hold.
ExitLoop ==
    /\ AtLoopHead
    /\ exitRun
    /\ exitRun' = FALSE
    /\ inLoop' = FALSE
    /\ UNCHANGED <<threadVars, priority, poolVars, currentThread, boundVars>>

\* run() is called again: at once when it returned with threads in the pool,
\* otherwise after any event, whether or not the event woke a thread.
InvokeAgain ==
    /\ ~inLoop
    /\ inLoop' = TRUE
    /\ UNCHANGED <<threadVars, priority, poolVars, currentThread, exitRun,
                   boundVars>>

\* requestExitRun(), called from another operating-system thread at any time.
RequestExitRun ==
    /\ exitRequests < MaxExitRequests
    /\ ~exitRun
    /\ exitRun' = TRUE
    /\ exitRequests' = exitRequests + 1
    /\ UNCHANGED <<threadVars, priority, poolVars, currentThread, inLoop,
                   setPriorities>>

Next ==
    \/ \E t \in Threads, createSuspended \in BOOLEAN : Create(t, createSuspended)
    \/ \E t \in Threads : Resume(t)
    \/ \E t \in Threads, p \in ThreadPriority : SetPriority(t, p)
    \/ Suspend
    \/ Terminate
    \/ \E t \in Threads : Run(t)
    \/ \E t \in Threads : Kill(t)
    \/ Return
    \/ BreakLoop
    \/ ExitLoop
    \/ InvokeAgain
    \/ RequestExitRun

Spec == Init /\ [][Next]_vars

\* The operating system keeps running the machine's thread, which calls run()
\* again when run() returned InvokeAgainNow, and the preemption timer ends
\* every run of an Oz thread.
LoopStep == \/ \E t \in Threads : Run(t) \/ Kill(t)
            \/ BreakLoop
            \/ ExitLoop
            \/ ~PoolIsEmpty /\ InvokeAgain

FairSpec == Spec /\ WF_vars(LoopStep) /\ WF_vars(Return)

-----------------------------------------------------------------------------
(* Properties *)

TypeOK ==
    /\ created \subseteq Threads
    /\ runnable \subseteq created
    /\ terminated \subseteq dead
    /\ dead \subseteq created
    /\ priority \in [Threads -> ThreadPriority]
    /\ queues \in [ThreadPriority -> Seq(Threads)]
    /\ remainings \in [{"tpHi", "tpMiddle"} -> Nat]
    /\ remainings["tpHi"] <= HiToMiddlePriorityRatio
    /\ remainings["tpMiddle"] <= MiddleToLowPriorityRatio
    /\ currentThread \in Threads \cup {NoThread}
    /\ inLoop \in BOOLEAN
    /\ exitRun \in BOOLEAN
    /\ setPriorities \in 0..MaxSetPriority
    /\ exitRequests \in 0..MaxExitRequests
    /\ waited \in [ThreadPriority -> Nat]

\* A thread waits in the queue of its priority, a single time, exactly while
\* it is runnable and does not have the machine.  This is what the assertions
\* of ThreadPool::schedule and VirtualMachine::run count on, through every
\* order of blocking, waking, preemption and change of priority: a thread
\* lost from the queues never runs again, a thread that is in them twice
\* would be run once more after it blocked or died.
OnceInItsQueue ==
    \A p \in ThreadPriority :
        /\ IsInjective(queues[p])
        /\ \A t \in Threads : Contains(queues[p], t) => priority[t] = p
QueuedAreRunnable == Scheduled \subseteq runnable \ {currentThread}
RunnableAreQueued == runnable \ {currentThread} \subseteq Scheduled
DeadAreStopped == runnable \cap dead = {}
PoolConsistent == OnceInItsQueue /\ QueuedAreRunnable /\ RunnableAreQueued /\ DeadAreStopped

\* Pops that the head of a non-empty queue can see go to other queues.
BypassBound(p) ==
    CASE p = "tpHi" -> 1
      [] p = "tpMiddle" -> 2 * HiToMiddlePriorityRatio + 1
      [] p = "tpLow" -> HiToMiddlePriorityRatio
                        + MiddleToLowPriorityRatio * (HiToMiddlePriorityRatio + 1)

\* The counters of popNext() serve every queue within a fixed number of pops,
\* however full the others are kept: priorities are ratios, not precedence.
BoundedBypass == \A p \in ThreadPriority : waited[p] <= BypassBound(p)

\* Its inductive form: what a queue has waited plus what the two counters may
\* still make it wait stays within the bound.
StillToWait(p) ==
    CASE p = "tpHi" -> IF remainings["tpHi"] = 0 THEN 1 ELSE 0
      [] p = "tpMiddle" -> remainings["tpHi"]
                           + IF remainings["tpMiddle"] = 0
                             THEN HiToMiddlePriorityRatio + 1 ELSE 0
      [] p = "tpLow" -> remainings["tpHi"]
                        + remainings["tpMiddle"] * (HiToMiddlePriorityRatio + 1)
BypassInv ==
    \A p \in ThreadPriority :
        /\ waited[p] + StillToWait(p) <= BypassBound(p)
        /\ IsEmpty(p) => waited[p] = 0

\* Of the threads that queue r holds, one that is in q stays ahead of those
\* that were behind it in q and of those that were not in q.
KeepsOrder(q, r) ==
    \A i \in 1..Len(q), t \in Threads :
        /\ \A j \in 1..i : q[j] # t
        /\ Contains(r, q[i])
        /\ Contains(r, t)
        => \E k, l \in 1..Len(r) : k < l /\ r[k] = q[i] /\ r[l] = t

\* No step lets a thread overtake another one of its priority: a thread that
\* stays in its queue stays ahead of those that were behind it and of those
\* that join.
FirstInFirstOut ==
    [][\A p \in ThreadPriority : KeepsOrder(queues[p], queues'[p])]_vars

\* The pool is a fair scheduler: as long as the program stops changing
\* priorities and the outside stops asking for exits, every scheduled thread
\* gets the machine.
Fair == INSTANCE Scheduler WITH ready <- Scheduled, running <- currentThread
ImplementsScheduler == Fair!Spec
=============================================================================
