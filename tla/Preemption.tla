----------------------------- MODULE Preemption -----------------------------
(***************************************************************************)
(* How a virtual machine is interrupted by its host.                       *)
(*                                                                         *)
(*   boostvm.cc, boostvm.hh   BoostVM::run, terminate, postVMEvent and the *)
(*                            preemption timer                             *)
(*   vm.cc, vm-decl.hh        the loop of Oz threads and its three flags   *)
(*                                                                         *)
(* Three operating-system threads share a machine: its own, which runs Oz  *)
(* threads until it has to leave VirtualMachine::run; the I/O thread, which*)
(* executes one handler after the other and lets timers expire; and any    *)
(* thread that posts an event, of which there is one at a time, because it *)
(* holds _vmsMutex.  The flags and the queue of events are all they share. *)
(*                                                                         *)
(* An Oz thread computes for ever, spawns another one, sleeps, starts an   *)
(* input or output, asks for a collection, or ends.  Time is only whether  *)
(* the alarm has expired, and whether the machine's _referenceTime tells.  *)
(* A handler that is aborted does nothing, and is left out.                *)
(***************************************************************************)
EXTENDS Naturals, Sequences

CONSTANTS
    MaxThreads,   \* bound on the Oz threads at a time
    MaxRequests,  \* bound on the alarms, inputs and outputs, collections asked
                  \* for, and events from outside, all together
    MaxBacklog,   \* bound on the calls of run() that the I/O thread lags behind
    MaxLate       \* bound on the expiries that the I/O thread lags behind

ASSUME PreemptionAssumption ==
    /\ MaxThreads \in Nat \ {0}
    /\ MaxRequests \in Nat
    /\ MaxBacklog \in Nat \ {0} /\ MaxLate \in Nat \ {0}

VARIABLES
    at,          \* where the thread of the machine is
    nextInvoke,  \* the last answer of VirtualMachine::run
    ready,       \* how many Oz threads wait in the pool
    alarm,       \* the alarm: "none", "set", "expired", or "due" when
                 \* _referenceTime has passed it
    io,          \* an input or output: "none", "started", "done" (posted)
    preemptRequested, exitRunRequested, gcRequested,  \* the three flags
    vmEvents,    \* _vmEventsCallbacks
    terminationRequested,
    posting,     \* how far the holder of _vmsMutex is in postVMEvent
    expiryMax,   \* preemptionTimer->expiry() is time_point::max()
    timerWaits,  \* an asynchronous wait is pending on the preemption timer
    timerDeleted,
    alarmWaits,  \* an asynchronous wait is pending on alarmTimer
    handlers,    \* queue of the I/O thread
    alive,       \* the BoostVM exists
    requests     \* so far, for the bound

threadVars == <<at, nextInvoke, ready, alarm, io>>
flagVars == <<preemptRequested, exitRunRequested, gcRequested>>
eventVars == <<vmEvents, terminationRequested, posting>>
timerVars == <<expiryMax, timerWaits, timerDeleted, alarmWaits>>
preemptionVars == <<threadVars, flagVars, eventVars, timerVars, handlers, alive, requests>>

Places == {"call", "loop", "thread", "deciding", "waiting", "ending", "closing", "gone"}
RunAnswers == {"recNeverInvokeAgain", "recInvokeAgainNow", "recInvokeAgainLater"}
Handlers == {"arm", "stop", "expired", "stopTimer", "deleteTimer", "alarm"}
PostedEvents == {"kill", "feedback", "other"}

\* How many handlers of a kind are in the queue of the I/O thread.
HandlersLeft(h) == Len(SelectSeq(handlers, LAMBDA x : x = h))

Requested == requests < MaxRequests /\ requests' = requests + 1

One(b) == IF b THEN 1 ELSE 0

\* Oz threads that are ready, running, or blocked until the alarm or the I/O.
TotalThreads ==
    ready + One(at = "thread") + One(alarm # "none") + One(io # "none")

-----------------------------------------------------------------------------
(* BoostVM::run, around VirtualMachine::run *)

\* setReferenceTime: an alarm that has expired is now known to have expired.
ReferenceTimeSet(a) == IF a = "expired" THEN "due" ELSE a

\* alarmTimer.cancel(), and round again.
Call ==
    /\ at = "call"
    /\ HandlersLeft("arm") < MaxBacklog
    /\ alarm' = ReferenceTimeSet(alarm)
    /\ alarmWaits' = FALSE
    /\ handlers' = Append(handlers, "arm")
    /\ at' = "loop"
    /\ UNCHANGED <<nextInvoke, ready, io, flagVars, eventVars, expiryMax, timerWaits,
                   timerDeleted, alive, requests>>

\* What run() tells the external world.
RunAnswer(threads, anAlarm) ==
    IF threads > 0 THEN "recInvokeAgainNow"
    ELSE IF anAlarm = "none" THEN "recNeverInvokeAgain"
    ELSE "recInvokeAgainLater"

\* run() returns, and the timer is to stop.
Return(threads, anAlarm) ==
    /\ nextInvoke' = RunAnswer(threads, anAlarm)
    /\ handlers' = Append(handlers, "stop")
    /\ at' = "deciding"

\* testAndClearExitRunRequested()
ExitRun ==
    /\ at = "loop"
    /\ exitRunRequested
    /\ exitRunRequested' = FALSE
    /\ Return(ready, alarm)
    /\ UNCHANGED <<ready, alarm, io, preemptRequested, gcRequested, eventVars, timerVars,
                   alive, requests>>

\* One turn of the loop: collect garbage, trigger the alarm, select a thread.
Turn ==
    /\ at = "loop"
    /\ ~exitRunRequested
    /\ gcRequested' = FALSE
    /\ alarm' = IF alarm = "due" THEN "none" ELSE alarm
    /\ LET threads == ready + One(alarm = "due") IN
       \/ /\ threads > 0
          /\ ready' = threads - 1
          /\ at' = "thread"
          /\ UNCHANGED <<nextInvoke, handlers>>
       \/ /\ threads = 0
          /\ Return(0, alarm')
          /\ UNCHANGED ready
    /\ UNCHANGED <<io, preemptRequested, exitRunRequested, eventVars, timerVars, alive,
                   requests>>

\* The test at each call of a procedure, and the thread is scheduled anew.
TestPreemption ==
    /\ at = "thread"
    /\ preemptRequested
    /\ preemptRequested' = FALSE
    /\ ready' = ready + 1
    /\ at' = "loop"
    /\ UNCHANGED <<nextInvoke, alarm, io, exitRunRequested, gcRequested, eventVars, timerVars,
                   handlers, alive, requests>>

\* What the running Oz thread does of its own.
ThreadEnds ==
    /\ at = "thread"
    /\ at' = "loop"
    /\ UNCHANGED <<nextInvoke, ready, alarm, io, flagVars, eventVars, timerVars, handlers,
                   alive, requests>>

Spawn ==
    /\ at = "thread"
    /\ TotalThreads < MaxThreads
    /\ ready' = ready + 1
    /\ UNCHANGED <<at, nextInvoke, alarm, io, flagVars, eventVars, timerVars, handlers,
                   alive, requests>>

\* Time.alarm, and a wait for its result.
SetAlarm ==
    /\ at = "thread"
    /\ alarm = "none" /\ Requested
    /\ alarm' = "set"
    /\ at' = "loop"
    /\ UNCHANGED <<nextInvoke, ready, io, flagVars, eventVars, timerVars, handlers, alive>>

\* createAsyncIOFeedbackNode, and a wait for the node.
StartIO ==
    /\ at = "thread"
    /\ io = "none" /\ Requested
    /\ io' = "started"
    /\ at' = "loop"
    /\ UNCHANGED <<nextInvoke, ready, alarm, flagVars, eventVars, timerVars, handlers, alive>>

\* System.gcDo: requestGC(), by the thread of the machine.
RequestGC ==
    /\ at = "thread"
    /\ Requested
    /\ gcRequested' = TRUE
    /\ preemptRequested' = TRUE
    /\ UNCHANGED <<threadVars, exitRunRequested, eventVars, timerVars, handlers, alive>>

\* Totally finished, nothing can ever wake me again.
Finish ==
    /\ at = "deciding"
    /\ nextInvoke = "recNeverInvokeAgain" /\ io = "none" /\ vmEvents = << >>
    /\ at' = "ending"
    /\ UNCHANGED <<nextInvoke, ready, alarm, io, flagVars, eventVars, timerVars, handlers,
                   alive, requests>>

\* Pops one event and executes it, with the mutex held; the loop goes on
\* until the queue is empty or termination is requested.
HandleEvent ==
    /\ at = "deciding"
    /\ vmEvents # << >>
    /\ vmEvents' = Tail(vmEvents)
    /\ \/ /\ Head(vmEvents) = "kill"
          /\ terminationRequested' = TRUE
          /\ at' = "ending"
          /\ UNCHANGED <<nextInvoke, ready, io>>
       \/ /\ Head(vmEvents) = "feedback"
          /\ ready' = ready + 1
          /\ io' = "none"
          /\ nextInvoke' = "recInvokeAgainNow"
          /\ UNCHANGED <<at, terminationRequested>>
       \/ /\ Head(vmEvents) = "other"
          /\ nextInvoke' = "recInvokeAgainNow"
          /\ UNCHANGED <<at, ready, io, terminationRequested>>
    /\ UNCHANGED <<alarm, flagVars, posting, timerVars, handlers, alive, requests>>

InvokeAgainNow ==
    /\ at = "deciding"
    /\ vmEvents = << >> /\ nextInvoke = "recInvokeAgainNow"
    /\ at' = "call"
    /\ UNCHANGED <<nextInvoke, ready, alarm, io, flagVars, eventVars, timerVars, handlers,
                   alive, requests>>

\* Fault: nothing waits on the alarm timer.
SleepWithoutAlarm ==
    /\ at = "deciding"
    /\ vmEvents = << >>
    /\ \/ nextInvoke = "recInvokeAgainLater"
       \/ nextInvoke = "recNeverInvokeAgain" /\ io # "none"
    /\ at' = "waiting"
    /\ UNCHANGED <<nextInvoke, ready, alarm, io, flagVars, eventVars, timerVars, handlers,
                   alive, requests>>

\* _conditionWorkToDoInVM.wait(lock).  For an alarm it is the preemption timer
\* whose expiry is set, which cancels its wait; alarmTimer keeps its first
\* expiry, which is past.
Sleep ==
    /\ at = "deciding"
    /\ vmEvents = << >>
    /\ \/ /\ nextInvoke = "recInvokeAgainLater"
          /\ expiryMax' = FALSE /\ timerWaits' = FALSE
          /\ alarmWaits' = TRUE
       \/ /\ nextInvoke = "recNeverInvokeAgain" /\ io # "none"
          /\ UNCHANGED <<expiryMax, timerWaits, alarmWaits>>
    /\ at' = "waiting"
    /\ UNCHANGED <<nextInvoke, ready, alarm, io, flagVars, eventVars, timerDeleted, handlers,
                   alive, requests>>

\* A condition variable may wake a thread for nothing.
SpuriousWakeup ==
    /\ at = "waiting"
    /\ at' = "call"
    /\ UNCHANGED <<nextInvoke, ready, alarm, io, flagVars, eventVars, timerVars, handlers,
                   alive, requests>>

\* The first half of BoostVM::terminate.
Terminate ==
    /\ at = "ending"
    /\ handlers' = Append(handlers, "stopTimer")
    /\ alarmWaits' = FALSE
    /\ at' = "closing"
    /\ UNCHANGED <<nextInvoke, ready, alarm, io, flagVars, eventVars, expiryMax, timerWaits,
                   timerDeleted, alive, requests>>

\* removeTerminatedVM, under _vmsMutex: the machine deletes itself.
RemoveTerminatedVM ==
    /\ at = "closing"
    /\ posting = "none"
    /\ alive' = FALSE
    /\ at' = "gone"
    /\ UNCHANGED <<nextInvoke, ready, alarm, io, flagVars, eventVars, timerVars, handlers,
                   requests>>

-----------------------------------------------------------------------------
(* BoostVM::postVMEvent, called inside findVM *)

PostEvent(e) ==
    /\ posting = "none" /\ alive
    /\ \/ e = "feedback" /\ io = "started" /\ io' = "done" /\ UNCHANGED requests
       \/ e # "feedback" /\ Requested /\ UNCHANGED io
    /\ vmEvents' = Append(vmEvents, e)
    /\ posting' = "pushed"
    /\ UNCHANGED <<at, nextInvoke, ready, alarm, flagVars, terminationRequested, timerVars,
                   handlers, alive>>

\* Fault: the two flags are cleared in the other order.
RequestExitRunSwapped ==
    /\ \/ /\ posting = "pushed" /\ posting' = "first"
          /\ preemptRequested' = TRUE
          /\ UNCHANGED exitRunRequested
       \/ /\ posting = "first" /\ posting' = "second"
          /\ exitRunRequested' = TRUE
          /\ UNCHANGED preemptRequested
    /\ UNCHANGED <<threadVars, gcRequested, vmEvents, terminationRequested, timerVars,
                   handlers, alive, requests>>

\* "The order of these two operations *is* important."
RequestExitRun ==
    /\ \/ /\ posting = "pushed" /\ posting' = "first"
          /\ exitRunRequested' = TRUE
          /\ UNCHANGED preemptRequested
       \/ /\ posting = "first" /\ posting' = "second"
          /\ preemptRequested' = TRUE
          /\ UNCHANGED exitRunRequested
    /\ UNCHANGED <<threadVars, gcRequested, vmEvents, terminationRequested, timerVars,
                   handlers, alive, requests>>

Notified(place) == IF place = "waiting" THEN "call" ELSE place

\* Fault: the poster does not notify.
NotifyNobody ==
    /\ posting = "second"
    /\ posting' = "none"
    /\ UNCHANGED <<threadVars, flagVars, vmEvents, terminationRequested, timerVars,
                   handlers, alive, requests>>

\* notify_all(), and _vmsMutex is released.
NotifyAll ==
    /\ posting = "second"
    /\ at' = Notified(at)
    /\ posting' = "none"
    /\ UNCHANGED <<nextInvoke, ready, alarm, io, flagVars, vmEvents, terminationRequested,
                   timerVars, handlers, alive, requests>>

-----------------------------------------------------------------------------
(* The I/O thread.  expires_after and expires_at cancel what waits. *)

TakeHandler(h) == handlers # << >> /\ Head(handlers) = h /\ handlers' = Tail(handlers)

ArmTimer ==
    /\ TakeHandler("arm")
    /\ expiryMax' = FALSE
    /\ timerWaits' = TRUE
    /\ UNCHANGED <<threadVars, flagVars, eventVars, timerDeleted, alarmWaits, alive,
                   requests>>

StopTimer ==
    /\ TakeHandler("stop")
    /\ expiryMax' = TRUE
    /\ timerWaits' = FALSE
    /\ UNCHANGED <<threadVars, flagVars, eventVars, timerDeleted, alarmWaits, alive,
                   requests>>

\* Fault: the handler does not wait for the next millisecond.
OnPreemptionTimerExpireOnce ==
    /\ TakeHandler("expired")
    /\ IF terminationRequested \/ expiryMax \/ ~alive
       THEN UNCHANGED <<alarm, preemptRequested>>
       ELSE alarm' = ReferenceTimeSet(alarm) /\ preemptRequested' = TRUE
    /\ UNCHANGED <<at, nextInvoke, ready, io, exitRunRequested, gcRequested, eventVars,
                   timerVars, alive, requests>>

\* The handler reads the machine also when that has been deleted; what it finds
\* there may send it either way, and what it writes there is lost.
OnPreemptionTimerExpire ==
    /\ TakeHandler("expired")
    /\ \/ /\ terminationRequested \/ expiryMax \/ ~alive
          /\ UNCHANGED <<alarm, preemptRequested, expiryMax, timerWaits>>
       \/ /\ ~terminationRequested \/ ~alive
          /\ ~expiryMax
          /\ alarm' = IF alive THEN ReferenceTimeSet(alarm) ELSE alarm
          /\ preemptRequested' = (preemptRequested \/ alive)
          /\ timerWaits' = TRUE
          /\ UNCHANGED expiryMax
    /\ UNCHANGED <<at, nextInvoke, ready, io, exitRunRequested, gcRequested, eventVars,
                   timerDeleted, alarmWaits, alive, requests>>

\* Fault: the timer is deleted at once.
StopAndDeleteTimer ==
    /\ TakeHandler("stopTimer")
    /\ expiryMax' = TRUE
    /\ timerWaits' = FALSE
    /\ timerDeleted' = TRUE
    /\ UNCHANGED <<threadVars, flagVars, eventVars, alarmWaits, alive, requests>>

\* The lambda of terminate() stops the timer, and posts the one that deletes it.
StopTimerForGood ==
    /\ handlers # << >> /\ Head(handlers) = "stopTimer"
    /\ handlers' = Append(Tail(handlers), "deleteTimer")
    /\ expiryMax' = TRUE
    /\ timerWaits' = FALSE
    /\ UNCHANGED <<threadVars, flagVars, eventVars, timerDeleted, alarmWaits, alive,
                   requests>>

DeleteTimer ==
    /\ TakeHandler("deleteTimer")
    /\ timerDeleted' = TRUE
    /\ UNCHANGED <<threadVars, flagVars, eventVars, expiryMax, timerWaits, alarmWaits, alive,
                   requests>>

\* The handler of alarmTimer notifies; of a deleted machine it finds nobody.
OnAlarm ==
    /\ TakeHandler("alarm")
    /\ at' = Notified(at)
    /\ UNCHANGED <<nextInvoke, ready, alarm, io, flagVars, eventVars, timerVars, alive,
                   requests>>

TimerExpires ==
    /\ timerWaits /\ ~expiryMax
    /\ HandlersLeft("expired") < MaxLate
    /\ timerWaits' = FALSE
    /\ handlers' = Append(handlers, "expired")
    /\ UNCHANGED <<threadVars, flagVars, eventVars, expiryMax, timerDeleted, alarmWaits, alive,
                   requests>>

AlarmTimerExpires ==
    /\ alarmWaits
    /\ alarmWaits' = FALSE
    /\ handlers' = Append(handlers, "alarm")
    /\ UNCHANGED <<threadVars, flagVars, eventVars, expiryMax, timerWaits, timerDeleted, alive,
                   requests>>

\* The time of the alarm comes.
AlarmTimeComes ==
    /\ alarm = "set"
    /\ alarm' = "expired"
    /\ UNCHANGED <<at, nextInvoke, ready, io, flagVars, eventVars, timerVars, handlers, alive,
                   requests>>

-----------------------------------------------------------------------------
\* The machine starts with one Oz thread.
PreemptionInit ==
    /\ at = "call" /\ nextInvoke = "recInvokeAgainNow" /\ ready = 1
    /\ alarm = "none" /\ io = "none"
    /\ preemptRequested = FALSE /\ exitRunRequested = FALSE /\ gcRequested = FALSE
    /\ vmEvents = << >> /\ terminationRequested = FALSE /\ posting = "none"
    /\ expiryMax = FALSE /\ timerWaits = FALSE /\ timerDeleted = FALSE
    /\ alarmWaits = FALSE
    /\ handlers = << >> /\ alive = TRUE
    /\ requests = 0

\* What the machine's thread does by itself; TestPreemption is its only step
\* that an Oz thread cannot put off.
MachineStep ==
    \/ Call \/ ExitRun \/ Turn \/ TestPreemption
    \/ Finish \/ HandleEvent \/ InvokeAgainNow \/ Sleep \/ Terminate \/ RemoveTerminatedVM

ThreadStep == ThreadEnds \/ Spawn \/ SetAlarm \/ StartIO \/ RequestGC

PosterStep == RequestExitRun \/ NotifyAll

IOStep ==
    \/ ArmTimer \/ StopTimer \/ OnPreemptionTimerExpire
    \/ StopTimerForGood \/ DeleteTimer \/ OnAlarm

PreemptionNext ==
    \/ MachineStep \/ ThreadStep \/ SpuriousWakeup
    \/ \E e \in PostedEvents : PostEvent(e)
    \/ PosterStep \/ IOStep
    \/ TimerExpires \/ AlarmTimerExpires \/ AlarmTimeComes

PreemptionSpec == PreemptionInit /\ [][PreemptionNext]_preemptionVars

\* The operating system runs the machine's thread, the thread that posts and
\* the I/O thread, inputs and outputs end, and time passes.
PreemptionFairness ==
    /\ WF_preemptionVars(MachineStep)
    /\ WF_preemptionVars(PosterStep)
    /\ WF_preemptionVars(IOStep)
    /\ WF_preemptionVars(TimerExpires)
    /\ WF_preemptionVars(AlarmTimerExpires)
    /\ WF_preemptionVars(AlarmTimeComes)
    /\ WF_preemptionVars(PostEvent("feedback"))

FairPreemption == PreemptionSpec /\ PreemptionFairness

-----------------------------------------------------------------------------
(* Properties *)

PreemptionTypeOK ==
    /\ at \in Places
    /\ nextInvoke \in RunAnswers
    /\ ready \in 0..MaxThreads
    /\ alarm \in {"none", "set", "expired", "due"}
    /\ io \in {"none", "started", "done"}
    /\ preemptRequested \in BOOLEAN /\ exitRunRequested \in BOOLEAN
    /\ gcRequested \in BOOLEAN
    /\ vmEvents \in Seq(PostedEvents)
    /\ terminationRequested \in BOOLEAN
    /\ posting \in {"none", "pushed", "first", "second"}
    /\ expiryMax \in BOOLEAN /\ timerWaits \in BOOLEAN
    /\ timerDeleted \in BOOLEAN /\ alarmWaits \in BOOLEAN
    /\ handlers \in Seq(Handlers)
    /\ alive \in BOOLEAN
    /\ requests \in 0..MaxRequests

\* While an Oz thread runs, a request to leave the loop or to collect garbage
\* that has been made entirely is accompanied by a request to preempt: the
\* thread cannot go on past its next call (vm-decl.hh, requestExitRun).
RequestsArrive ==
    at = "thread" /\ (gcRequested \/ (exitRunRequested /\ posting # "first"))
        => preemptRequested

\* The handlers that use the timer.
OfTimer(h) == h \in {"arm", "stop", "expired", "stopTimer", "deleteTimer"}

\* The timer is deleted when no handler that uses it is left in the queue of
\* the I/O thread, and nothing waits on it (boostvm.cc, terminate).
TimerOutlivesHandlers ==
    timerDeleted => ~timerWaits /\ \A i \in 1..Len(handlers) : ~OfTimer(handlers[i])

\* An Oz thread that computes for ever is preempted, also in a call of run()
\* in which others were preempted before.
ThreadsYield == at = "thread" ~> at # "thread"

\* A posted event is handled, or the machine ends.
PostedIsHandled == vmEvents # << >> ~> vmEvents = << >> \/ ~alive

\* A thread that sleeps is woken, or the machine ends.
AlarmRings == alarm # "none" ~> alarm = "none" \/ ~alive

=============================================================================
