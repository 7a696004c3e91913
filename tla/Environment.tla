----------------------------- MODULE Environment -----------------------------
(***************************************************************************)
(* Several virtual machines in one process.                                *)
(*                                                                         *)
(*   boostenv.hh, boostenv-decl.hh  BoostEnvironment: the list of machines *)
(*   boostvm.cc, boostvm.hh         BoostVM: events, stream, termination   *)
(*   modvm.hh, modsystem.hh         the built-in operations on machines    *)
(*   boostenvtcp.hh, boostenvutils.hh   inputs and outputs on sockets      *)
(*                                                                         *)
(* Each machine has its own thread.  They meet in the list of machines,    *)
(* under _vmsMutex, and in the queue of events of each machine.  findVM    *)
(* holds the mutex for all of the call it makes, so that at most one event *)
(* is being posted at a time: variable post.  An event is put in the queue *)
(* first, and its machine is notified next.                                *)
(*                                                                         *)
(* How a machine leaves its emulator when an event comes is modelled in    *)
(* Preemption; here it may do so at any time, and a machine with nothing   *)
(* to compute may do so for good.  Alarms and spurious wake-ups are there  *)
(* too.                                                                    *)
(***************************************************************************)
EXTENDS Naturals, Sequences

CONSTANTS
    MaxMachines,  \* bound on the machines created
    MaxCalls      \* bound on the calls of built-in operations, crashes included

ASSUME EnvironmentAssumption == MaxMachines \in Nat \ {0} /\ MaxCalls \in Nat

InitialVMIdentifier == 1
Machines == 1..MaxMachines
Nobody == 0

\* Inputs and outputs, with the nodes that each holds until it is answered: a
\* connect and an accept are like a write.
IOs == {"read", "write"}
Nodes(k) == IF k = "read" THEN 2 ELSE 1

Reasons == {"normal", "kill", "abnormal"}

VARIABLES
    vm,         \* state of each machine
    listed,     \* _vms
    nextVM,     \* _nextVMIdentifier
    post,       \* [by, to] while an event is posted, by a machine or by the
                \* I/O thread (Nobody), to a machine (Nobody: no post)
    started,    \* the inputs and outputs that the operating system works on
    exitCode,   \* _exitCode
    ended,      \* runIO has returned
    sent,       \* sent[m][t]: messages that m has sent to t
    calls       \* for the bound

environmentVars ==
    <<vm, listed, nextVM, post, started, exitCode, ended, sent, calls>>

Message(m, n) == [kind |-> "message", from |-> m, about |-> n]
Termination(m, r) == [kind |-> "terminated", from |-> m, about |-> r]
KillRequest(r) == [kind |-> "kill", from |-> Nobody, about |-> r]
MonitorRequest(m) == [kind |-> "monitor", from |-> m, about |-> "none"]
Feedback(k) == [kind |-> "feedback", from |-> Nobody, about |-> k]

NoPost == [by |-> Nobody, to |-> Nobody]
Unlocked == post.to = Nobody

Bit(b) == IF b THEN 1 ELSE 0

\* BoostVM::BoostVM
NewMachine(parent, m) ==
    [pc |-> "running", events |-> << >>,
     monitors |-> IF parent = m THEN << >> ELSE <<parent>>,
     left |-> << >>, portClosed |-> FALSE, streamAsked |-> FALSE, stream |-> << >>,
     asyncIONodes |-> 0, reason |-> "normal", status |-> 0, target |-> Nobody]

NoMachine == [NewMachine(Nobody, Nobody) EXCEPT !.pc = "none"]

-----------------------------------------------------------------------------
(* Events *)

\* postVMEvent, up to the notification: machine `by` is then in state r.  Nothing
\* happens when the machine is not in the list.
Push(by, r, to, event) ==
    LET state == IF by = Nobody THEN vm ELSE [vm EXCEPT ![by] = r] IN
    /\ Unlocked
    /\ IF to \in listed
       THEN /\ vm' = [state EXCEPT ![to].events = Append(@, event)]
            /\ post' = [by |-> by, to |-> to]
       ELSE /\ vm' = state
            /\ UNCHANGED post

\* Fault: the poster does not notify.
NotifyNone ==
    /\ ~Unlocked
    /\ post' = NoPost
    /\ UNCHANGED <<vm, listed, nextVM, started, exitCode, ended, sent, calls>>

\* requestExitRun() and notify_all(), and the mutex is released.
Notify ==
    /\ ~Unlocked
    /\ vm' = [vm EXCEPT ![post.to].pc = IF @ = "waiting" THEN "running" ELSE @]
    /\ post' = NoPost
    /\ UNCHANGED <<listed, nextVM, started, exitCode, ended, sent, calls>>

\* Fault: the tail of the stream is not advanced, and a second value is lost.
ReceivedFirst(r, values) ==
    IF r.portClosed \/ values = << >> THEN r.stream ELSE Append(r.stream, Head(values))

\* sendToReadOnlyStream, unless the port is closed.
Received(r, values) == IF r.portClosed THEN r.stream ELSE r.stream \o values

IsKill(event) == event.kind = "kill"
ForStream(event) == event.kind \in {"message", "terminated"}
IsMonitor(event) == event.kind = "monitor"
IsFeedback(event, k) == event.kind = "feedback" /\ event.about = k

\* The elements of a sequence at these places.
Select(s, places) ==
    LET those[i \in 0..Len(s)] ==
            IF i = 0 THEN << >>
            ELSE IF i \in places THEN Append(those[i - 1], s[i]) ELSE those[i - 1]
    IN those[Len(s)]

Those(s, Test(_)) == Select(s, {i \in 1..Len(s) : Test(s[i])})
HowMany(s, Test(_)) == Len(Those(s, Test))

\* The nodes that the answers in a queue release.
NodesReleased(s) ==
    HowMany(s, LAMBDA e : e.kind = "feedback")
        + HowMany(s, LAMBDA e : IsFeedback(e, "read"))

\* The events up to the first one that requests termination.
Handled(s) ==
    IF \E i \in 1..Len(s) : IsKill(s[i])
    THEN SubSeq(s, 1, CHOOSE i \in 1..Len(s) :
                         IsKill(s[i]) /\ \A j \in 1..(i - 1) : ~IsKill(s[j]))
    ELSE s

\* The state of a machine that has executed these events.
AfterEvents(r, s) ==
    LET froms == Those(s, IsMonitor)
        killed == Len(s) > 0 /\ IsKill(s[Len(s)])
    IN [r EXCEPT !.events = SubSeq(@, Len(s) + 1, Len(@)),
                 !.stream = Received(r, Those(s, ForStream)),
                 !.monitors = @ \o [i \in 1..Len(froms) |-> froms[i].from],
                 !.asyncIONodes = @ - NodesReleased(s),
                 !.reason = IF killed THEN s[Len(s)].about ELSE @,
                 !.status = IF killed THEN Bit(s[Len(s)].about = "normal") ELSE @,
                 !.pc = IF killed THEN "ending" ELSE "running"]

\* Fault: a machine goes on computing while it tells its monitors.
RunsWhileEnding(m) == vm[m].pc \in {"running", "notifying"} /\ post.by # m

\* Machine m executes Oz threads.
Runs(m) == vm[m].pc = "running" /\ post.by # m

\* The part of BoostVM::run that holds _conditionWorkToDoInVMMutex: handle the
\* events,
HandleEvents(m) ==
    /\ Runs(m)
    /\ vm[m].events # << >>
    /\ vm' = [vm EXCEPT ![m] = AfterEvents(@, Handled(@.events))]
    /\ UNCHANGED <<listed, nextVM, post, started, exitCode, ended, sent, calls>>

\* end when nothing can ever wake the machine again,
FinishVM(m) ==
    /\ Runs(m)
    /\ vm[m].events = << >> /\ vm[m].asyncIONodes = 0
    /\ vm' = [vm EXCEPT ![m].pc = "ending"]
    /\ UNCHANGED <<listed, nextVM, post, started, exitCode, ended, sent, calls>>

\* Fault: a machine waits although an event may have come since it last looked.
WaitUnlocked(m) ==
    /\ Runs(m)
    /\ vm[m].asyncIONodes > 0
    /\ vm' = [vm EXCEPT ![m].pc = "waiting"]
    /\ UNCHANGED <<listed, nextVM, post, started, exitCode, ended, sent, calls>>

\* or wait.
Wait(m) ==
    /\ Runs(m)
    /\ vm[m].events = << >> /\ vm[m].asyncIONodes > 0
    /\ vm' = [vm EXCEPT ![m].pc = "waiting"]
    /\ UNCHANGED <<listed, nextVM, post, started, exitCode, ended, sent, calls>>

-----------------------------------------------------------------------------
(* The built-in operations, by an Oz thread of machine m *)

Counted == calls < MaxCalls /\ calls' = calls + 1

\* checkValidIdentifier
Valid(t) == t > 0 /\ t < nextVM

\* VM.new: addVM, which holds _vmsMutex for the whole construction.
New(m) ==
    /\ Runs(m) /\ Unlocked /\ Counted
    /\ nextVM <= MaxMachines
    /\ vm' = [vm EXCEPT ![nextVM] = NewMachine(m, nextVM)]
    /\ listed' = listed \cup {nextVM}
    /\ nextVM' = nextVM + 1
    /\ UNCHANGED <<post, started, exitCode, ended, sent>>

\* Port.send on the port of machine t: sendOnVMPort asks first whether the port
\* is open, then pickles the value,
Send(m, t) ==
    /\ Runs(m) /\ Valid(t) /\ Unlocked /\ Counted
    /\ sent' = [sent EXCEPT ![m][t] = @ + 1]
    /\ vm' = IF t \notin listed \/ vm[t].portClosed THEN vm
             ELSE [vm EXCEPT ![m].pc = "pickling", ![m].target = t]
    /\ UNCHANGED <<listed, nextVM, post, started, exitCode, ended>>

\* and posts it; receiveOnVMStream drops it when the port has closed since.
SendPickled(m) ==
    /\ vm[m].pc = "pickling"
    /\ Push(m, [vm[m] EXCEPT !.pc = "running", !.target = Nobody],
            vm[m].target, Message(m, sent[m][vm[m].target]))
    /\ UNCHANGED <<listed, nextVM, started, exitCode, ended, sent, calls>>

\* VM.kill, and System.exit, which kills its own machine for reason "normal",
\* with exit code 1.
Kill(m, t, reason) ==
    /\ Runs(m) /\ Valid(t) /\ Counted
    /\ reason = "normal" => t = m
    /\ Push(m, vm[m], t, KillRequest(reason))
    /\ UNCHANGED <<listed, nextVM, started, exitCode, ended, sent>>

\* VM.monitor: a machine that is not in the list is unknown.
Monitor(m, t) ==
    /\ Runs(m) /\ Valid(t) /\ t # m /\ Counted
    /\ LET unknown == [vm[m] EXCEPT !.stream =
                           Received(vm[m], <<Termination(t, "unknown")>>)]
       IN Push(m, IF t \in listed THEN vm[m] ELSE unknown, t, MonitorRequest(m))
    /\ UNCHANGED <<listed, nextVM, started, exitCode, ended, sent>>

\* VM.getStream
GetStream(m) ==
    /\ Runs(m) /\ Counted
    /\ ~vm[m].streamAsked
    /\ vm' = [vm EXCEPT ![m].streamAsked = TRUE, ![m].asyncIONodes = @ + 1]
    /\ UNCHANGED <<listed, nextVM, post, started, exitCode, ended, sent>>

\* Fault: the stream is no more waited for, though nobody had asked for it.
CloseStreamUnasked(m) ==
    /\ Runs(m) /\ Counted
    /\ ~vm[m].portClosed
    /\ vm[m].asyncIONodes > 0
    /\ vm' = [vm EXCEPT ![m].portClosed = TRUE, ![m].asyncIONodes = @ - 1]
    /\ UNCHANGED <<listed, nextVM, post, started, exitCode, ended, sent>>

\* VM.closeStream
CloseStream(m) ==
    /\ Runs(m) /\ Counted
    /\ ~vm[m].portClosed
    /\ vm' = [vm EXCEPT ![m].portClosed = TRUE,
                        ![m].asyncIONodes = @ - Bit(vm[m].streamAsked)]
    /\ UNCHANGED <<listed, nextVM, post, started, exitCode, ended, sent>>

\* OS.tcpConnect, tcpAccept, tcpConnectionRead and Write: the nodes that hold
\* the answer are counted, and the I/O thread takes over.
StartAsyncIO(m, k) ==
    /\ Runs(m) /\ Counted
    /\ vm' = [vm EXCEPT ![m].asyncIONodes = @ + Nodes(k)]
    /\ started' = [started EXCEPT ![m][k] = @ + 1]
    /\ UNCHANGED <<listed, nextVM, post, exitCode, ended, sent>>

\* A C++ exception that nothing catches, in BoostVM::start.
Crash(m) ==
    /\ Runs(m) /\ Counted
    /\ vm' = [vm EXCEPT ![m].pc = "ending", ![m].reason = "abnormal"]
    /\ UNCHANGED <<listed, nextVM, post, started, exitCode, ended, sent>>

-----------------------------------------------------------------------------
(* BoostVM::terminate *)

\* The port is closed first.
TerminateVM(m) ==
    /\ vm[m].pc = "ending"
    /\ vm' = [vm EXCEPT ![m].pc = "notifying", ![m].portClosed = TRUE,
                        ![m].left = vm[m].monitors]
    /\ UNCHANGED <<listed, nextVM, post, started, exitCode, ended, sent, calls>>

\* Fault: every end is told to be normal.
NotifyMonitorNormal(m) ==
    /\ vm[m].pc = "notifying" /\ post.by # m
    /\ vm[m].left # << >>
    /\ Push(m, [vm[m] EXCEPT !.left = Tail(@)],
            Head(vm[m].left), Termination(m, "normal"))
    /\ UNCHANGED <<listed, nextVM, started, exitCode, ended, sent, calls>>

\* One round of the loop of notifyMonitors.
NotifyMonitor(m) ==
    /\ vm[m].pc = "notifying" /\ post.by # m
    /\ vm[m].left # << >>
    /\ Push(m, [vm[m] EXCEPT !.left = Tail(@)],
            Head(vm[m].left), Termination(m, vm[m].reason))
    /\ UNCHANGED <<listed, nextVM, started, exitCode, ended, sent, calls>>

\* Fault: the list is changed without the mutex.
RemoveUnlocked(m) ==
    /\ vm[m].pc = "notifying"
    /\ vm[m].left = << >> /\ post.by # m
    /\ vm' = [vm EXCEPT ![m].pc = "removed"]
    /\ listed' = listed \ {m}
    /\ UNCHANGED <<nextVM, post, started, exitCode, ended, sent, calls>>

\* removeTerminatedVM: out of the list, under the mutex,
RemoveVM(m) ==
    /\ vm[m].pc = "notifying"
    /\ vm[m].left = << >> /\ Unlocked
    /\ vm' = [vm EXCEPT ![m].pc = "removed"]
    /\ listed' = listed \ {m}
    /\ UNCHANGED <<nextVM, post, started, exitCode, ended, sent, calls>>

\* Fault: the last machine to end gives the exit code.
DeleteWorkOfAny(m) ==
    /\ vm[m].pc = "removed"
    /\ exitCode' = vm[m].status
    /\ vm' = [vm EXCEPT ![m].pc = "gone"]
    /\ UNCHANGED <<listed, nextVM, post, started, ended, sent, calls>>

\* then the exit code, and the I/O thread need not wait for this machine.
DeleteWork(m) ==
    /\ vm[m].pc = "removed"
    /\ exitCode' = IF m = InitialVMIdentifier THEN vm[m].status ELSE exitCode
    /\ vm' = [vm EXCEPT ![m].pc = "gone"]
    /\ UNCHANGED <<listed, nextVM, post, started, ended, sent, calls>>

-----------------------------------------------------------------------------
(* The I/O thread *)

\* An input or output is answered, with a result or an error.  An accept that
\* fails is tried again, which changes nothing.
CompleteIO(m, k) ==
    /\ started[m][k] > 0
    /\ Push(Nobody, vm[m], m, Feedback(k))
    /\ started' = [started EXCEPT ![m][k] = @ - 1]
    /\ UNCHANGED <<listed, nextVM, exitCode, ended, sent, calls>>

\* runIO: no machine is waited for, and no input or output.
RunIO ==
    /\ ~ended
    /\ \A m \in Machines : vm[m].pc \in {"none", "gone"}
    /\ \A m \in Machines : \A k \in IOs : started[m][k] = 0
    /\ ended' = TRUE
    /\ UNCHANGED <<vm, listed, nextVM, post, started, exitCode, sent, calls>>

-----------------------------------------------------------------------------
\* addInitialVM: its own parent.
EnvironmentInit ==
    /\ vm = [m \in Machines |->
                IF m = InitialVMIdentifier THEN NewMachine(m, m) ELSE NoMachine]
    /\ listed = {InitialVMIdentifier}
    /\ nextVM = InitialVMIdentifier + 1
    /\ post = NoPost
    /\ started = [m \in Machines |-> [k \in IOs |-> 0]]
    /\ exitCode = 0 /\ ended = FALSE
    /\ sent = [m \in Machines |-> [t \in Machines |-> 0]]
    /\ calls = 0

BuiltIn(m) ==
    \/ New(m) \/ GetStream(m) \/ CloseStream(m) \/ Crash(m)
    \/ \E t \in Machines : Send(m, t) \/ Monitor(m, t)
    \/ \E t \in Machines : \E r \in {"kill", "normal"} : Kill(m, t, r)
    \/ \E k \in IOs : StartAsyncIO(m, k)

Ending(m) == TerminateVM(m) \/ NotifyMonitor(m) \/ RemoveVM(m) \/ DeleteWork(m)

EnvironmentNext ==
    \/ \E m \in Machines :
          \/ BuiltIn(m) \/ SendPickled(m)
          \/ HandleEvents(m) \/ FinishVM(m) \/ Wait(m)
          \/ Ending(m)
    \/ \E m \in Machines : \E k \in IOs : CompleteIO(m, k)
    \/ Notify
    \/ RunIO

EnvironmentSpec == EnvironmentInit /\ [][EnvironmentNext]_environmentVars

\* The operating system runs every thread: one that posts goes on, one that
\* ends goes on, and one that runs Oz threads leaves them to handle its events
\* (PostedIsHandled of module Preemption).
EnvironmentFairness ==
    /\ WF_environmentVars(Notify)
    /\ \A m \in Machines :
          /\ WF_environmentVars(HandleEvents(m))
          /\ WF_environmentVars(SendPickled(m))
          /\ WF_environmentVars(Ending(m))

FairEnvironment == EnvironmentSpec /\ EnvironmentFairness

-----------------------------------------------------------------------------
(* Properties *)

EventKinds == {"message", "terminated", "kill", "monitor", "feedback"}

EnvironmentTypeOK ==
    /\ listed \subseteq Machines
    /\ nextVM \in 2..(MaxMachines + 1)
    /\ post.by \in Machines \cup {Nobody} /\ post.to \in Machines \cup {Nobody}
    /\ \A m \in Machines :
          /\ vm[m].pc \in {"none", "running", "pickling", "waiting", "ending", "notifying",
                           "removed", "gone"}
          /\ \A i \in 1..Len(vm[m].events) : vm[m].events[i].kind \in EventKinds
          /\ \A i \in 1..Len(vm[m].stream) : ForStream(vm[m].stream[i])
          /\ \A i \in 1..Len(vm[m].monitors) : vm[m].monitors[i] \in Machines \ {m}
          /\ vm[m].asyncIONodes \in Nat
          /\ vm[m].reason \in Reasons /\ vm[m].status \in {0, 1}
          /\ \A k \in IOs : started[m][k] \in Nat
    /\ exitCode \in {0, 1} /\ ended \in BOOLEAN
    /\ calls \in 0..MaxCalls

\* What machine t has received, and what waits in its queue.
Incoming(t) == vm[t].stream \o Those(vm[t].events, ForStream)

\* The numbers of the messages of m among these.
MessagesOf(m, s) ==
    LET those == Those(s, LAMBDA e : e.kind = "message" /\ e.from = m)
    IN [i \in 1..Len(those) |-> those[i].about]

\* As long as a port is open, a machine receives every message that another
\* one has sent to it, in the order in which they were sent, and once.  When it
\* is closed, what has been received is what was sent first (boostvm.cc,
\* sendOnVMPort and receiveOnVMStream).
PortIsReliable ==
    \A m, t \in Machines :
        LET onItsWay == Bit(vm[m].pc = "pickling" /\ vm[m].target = t)
            received == MessagesOf(m, vm[t].stream)
        IN IF vm[t].portClosed
           THEN received = [i \in 1..Len(received) |-> i] /\ Len(received) <= sent[m][t]
           ELSE MessagesOf(m, Incoming(t)) = [i \in 1..(sent[m][t] - onItsWay) |-> i]

\* The records of the termination of m, for a known reason, among them.
Terminations(m, t) ==
    {i \in 1..Len(Incoming(t)) :
        LET e == Incoming(t)[i]
        IN e.kind = "terminated" /\ e.from = m /\ e.about # "unknown"}

\* A machine that is told that another one has terminated has received all of
\* its messages (boostvm.cc, terminate).
TerminatedIsLast ==
    \A m, t \in Machines : \A i \in Terminations(m, t) :
        /\ vm[m].pc \in {"notifying", "removed", "gone"}
        /\ \A j \in (i + 1)..Len(Incoming(t)) :
              ~(Incoming(t)[j].kind = "message" /\ Incoming(t)[j].from = m)

\* A machine that has told its monitors of its end has told each one as often
\* as that asked for it, and nobody else (boostvm.cc, notifyMonitors).
MonitorsHear ==
    \A m, t \in Machines :
        LET mine == HowMany(vm[m].monitors, LAMBDA x : x = t)
            left == HowMany(vm[m].left, LAMBDA x : x = t)
            told == Terminations(m, t)
        IN IF vm[m].pc \in {"notifying", "removed", "gone"} /\ ~vm[t].portClosed
           THEN /\ told = {} <=> mine = left
                /\ \A i, j \in told : Incoming(t)[i] = Incoming(t)[j]
                /\ HowMany(Incoming(t), LAMBDA e : e = Termination(m, vm[m].reason))
                     = mine - left
           ELSE vm[m].pc \notin {"notifying", "removed", "gone"} => told = {}

\* A machine to which an event is posted stays in the list until it has been
\* notified (boostenv.hh, findVM).
FoundStaysAlive == Unlocked \/ post.to \in listed

\* A machine that waits although an event is in its queue is about to be
\* notified (boostvm.hh, postVMEvent).
SleepersAreWoken ==
    \A m \in Machines :
        vm[m].pc = "waiting" /\ vm[m].events # << >> => post.to = m

\* The nodes that an input or output of machine m will bind.
NodesStarted(m) == 2 * started[m]["read"] + started[m]["write"]

\* As long as the port is open, a machine counts the nodes that are still to be
\* bound and, when its stream has been asked for, the stream; afterwards it
\* may count the stream for ever, when it was asked for too late.  A machine
\* that is not killed thus ends only when all has been answered.
AsyncCounts ==
    \A m \in listed :
        LET nodes == NodesStarted(m) + NodesReleased(vm[m].events)
            asked == Bit(vm[m].streamAsked)
        IN IF vm[m].portClosed
           THEN vm[m].asyncIONodes \in {nodes, nodes + asked}
           ELSE vm[m].asyncIONodes = nodes + asked

\* The process ends with the exit code of the initial machine, whichever
\* machine ends last (boostenv.hh, removeTerminatedVM).
ExitCodeIsInitial == ended => exitCode = vm[InitialVMIdentifier].status

\* A machine that is asked to terminate does, and leaves the list.
KilledEnds ==
    \A m \in Machines :
        (\E i \in 1..Len(vm[m].events) : IsKill(vm[m].events[i])) ~> vm[m].pc = "gone"

=============================================================================
