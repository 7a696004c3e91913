-------------------------- MODULE EnvironmentProofs --------------------------
(***************************************************************************)
(* For every number of machines and every number of calls: no wake-up is   *)
(* lost between machines, a machine is not deleted under its poster, and   *)
(* the exit code is the initial machine's (IInv); the nodes that wait for  *)
(* an answer are counted, ports are reliable, and every monitor is told    *)
(* once, after the last message (EInv).                                    *)
(*                                                                         *)
(* The second part rests on what each pair of machines has in common: what *)
(* one of them has said, and what is in the stream and in the queue of the *)
(* other one (Linked).  A step of one machine is followed through all the  *)
(* pairs that the machine is in.                                           *)
(***************************************************************************)
EXTENDS Environment, Induction, SequenceTheorems, TLAPS

\* A record with the fields of BoostVM that the model keeps.
IsMachine(r) ==
    r = [pc |-> r.pc, events |-> r.events, monitors |-> r.monitors, left |-> r.left,
         portClosed |-> r.portClosed, streamAsked |-> r.streamAsked, stream |-> r.stream,
         asyncIONodes |-> r.asyncIONodes, reason |-> r.reason, status |-> r.status,
         target |-> r.target]

AreMachines == vm = [m \in Machines |-> vm[m]] /\ \A m \in Machines : IsMachine(vm[m])

Numbered == listed \subseteq Machines /\ nextVM \in Nat /\ nextVM > InitialVMIdentifier

\* What the initial machine and the exit code have to do with each other: the
\* machine exists, and its status changes no more once it is gone.
InitialMachine ==
    LET initial == vm[InitialVMIdentifier] IN
    /\ initial.pc # "none"
    /\ initial.pc = "gone" => exitCode = initial.status
    /\ ended => initial.pc = "gone"

IInv == AreMachines /\ Numbered /\ InitialMachine /\ FoundStaysAlive /\ SleepersAreWoken

\* The number of the initial machine, and the number of none.
LEMMA InitialIsMachine == InitialVMIdentifier \in Machines /\ Nobody \notin Machines
  BY EnvironmentAssumption DEF InitialVMIdentifier, Machines, Nobody

\* A change of one field keeps the others.
LEMMA Fields ==
  ASSUME NEW r, IsMachine(r), NEW x
  PROVE  /\ LET s == [r EXCEPT !.pc = x]
            IN IsMachine(s) /\ s.pc = x /\ s.events = r.events /\ s.status = r.status
         /\ LET s == [r EXCEPT !.events = x]
            IN IsMachine(s) /\ s.pc = r.pc /\ s.events = x /\ s.status = r.status
  BY DEF IsMachine

\* A step that changes one machine, in the list or not, and posts nothing.
LEMMA OwnStep ==
  ASSUME IInv, NEW m \in Machines, NEW r, IsMachine(r),
         vm' = [vm EXCEPT ![m] = r], post' = post, ended' = ended,
         r.pc = "waiting" => r.events = << >>,
         m = InitialVMIdentifier =>
            /\ vm[m].pc # "gone" /\ r.pc # "none"
            /\ r.pc = "gone" => exitCode' = r.status,
         m # InitialVMIdentifier => exitCode' = exitCode
  PROVE  AreMachines' /\ InitialMachine' /\ SleepersAreWoken'
  <1> USE InitialIsMachine
  <1>1. vm'[m] = r /\ \A n \in Machines \ {m} : vm'[n] = vm[n]
    BY DEF IInv, AreMachines
  <1>2. AreMachines'
    BY <1>1 DEF IInv, AreMachines
  <1>3. InitialMachine'
    BY <1>1 DEF IInv, InitialMachine
  <1>4. SleepersAreWoken'
    BY <1>1 DEF IInv, SleepersAreWoken
  <1> QED
    BY <1>2, <1>3, <1>4

\* The post of an event by a machine that does not wait and that keeps its
\* status.
LEMMA PushStep ==
  ASSUME IInv, NEW m \in Machines, NEW r, NEW to, NEW e, IsMachine(r),
         r.pc # "waiting", r.pc \notin {"none", "gone"}, vm[m].pc # "gone",
         Push(m, r, to, e), UNCHANGED <<listed, nextVM, exitCode, ended>>
  PROVE  IInv'
  <1> USE InitialIsMachine
  <1>1. m # Nobody
    OBVIOUS
  <1>2. PICK state : state = [vm EXCEPT ![m] = r]
    OBVIOUS
  <1>3. /\ state = [n \in Machines |-> state[n]] /\ state[m] = r
        /\ \A n \in Machines : n # m => state[n] = vm[n]
        /\ \A n \in Machines : IsMachine(state[n])
    BY <1>2 DEF IInv, AreMachines
  <1>4. \A n \in Machines : state[n].pc = "waiting" => state[n].events = << >>
    BY <1>3 DEF IInv, SleepersAreWoken, Push, Unlocked
  <1>5. InitialVMIdentifier = m => ~ended
    BY DEF IInv, InitialMachine
  <1>6. CASE to \notin listed
    <2>1. vm' = state /\ post' = post
      BY <1>1, <1>2, <1>6 DEF Push
    <2> QED
      BY <1>3, <1>4, <1>5, <2>1
         DEF IInv, AreMachines, Numbered, InitialMachine, FoundStaysAlive, Unlocked,
             SleepersAreWoken
  <1>7. CASE to \in listed
    <2>1. to \in Machines
      BY <1>7 DEF IInv, Numbered
    <2>2. /\ vm' = [state EXCEPT ![to].events = Append(state[to].events, e)]
          /\ post' = [by |-> m, to |-> to]
      BY <1>1, <1>2, <1>7 DEF Push
    <2>3. PICK queue : queue = Append(state[to].events, e)
      OBVIOUS
    <2>4. /\ vm' = [n \in Machines |-> vm'[n]]
          /\ vm'[to] = [state[to] EXCEPT !.events = queue]
          /\ \A n \in Machines : n # to => vm'[n] = state[n]
      BY <1>3, <2>1, <2>2, <2>3
    <2>5. IsMachine(vm'[to]) /\ vm'[to].pc = state[to].pc /\ vm'[to].status = state[to].status
      <3>1. PICK old : old = state[to]
        OBVIOUS
      <3>2. IsMachine(old) /\ vm'[to] = [old EXCEPT !.events = queue]
        BY <1>3, <2>1, <2>4, <3>1
      <3>3. PICK new : new = [old EXCEPT !.events = queue]
        OBVIOUS
      <3>4. IsMachine(new) /\ new.pc = old.pc /\ new.status = old.status
        BY <3>2, <3>3, Fields
      <3> QED
        BY <3>1, <3>2, <3>3, <3>4
    <2>6. AreMachines'
      BY <1>3, <2>4, <2>5 DEF AreMachines
    <2>7. InitialMachine'
      BY <1>3, <1>5, <2>4, <2>5 DEF IInv, InitialMachine
    <2>8. SleepersAreWoken'
      BY <1>4, <2>2, <2>4 DEF SleepersAreWoken
    <2>9. Numbered' /\ FoundStaysAlive'
      BY <1>7, <2>2 DEF IInv, Numbered, FoundStaysAlive
    <2> QED
      BY <2>6, <2>7, <2>8, <2>9 DEF IInv
  <1> QED
    BY <1>6, <1>7

\* As PushStep, by the I/O thread.
LEMMA PushByIO ==
  ASSUME IInv, NEW r, NEW to, NEW e,
         Push(Nobody, r, to, e), UNCHANGED <<listed, nextVM, exitCode, ended>>
  PROVE  IInv'
  <1> USE InitialIsMachine
  <1>1. \A n \in Machines : vm[n].pc = "waiting" => vm[n].events = << >>
    BY DEF IInv, SleepersAreWoken, Push, Unlocked
  <1>2. CASE to \notin listed
    <2>1. vm' = vm /\ post' = post
      BY <1>2 DEF Push
    <2> QED
      BY <2>1 DEF IInv, AreMachines, Numbered, InitialMachine, FoundStaysAlive, Unlocked,
                  SleepersAreWoken
  <1>3. CASE to \in listed
    <2>1. to \in Machines
      BY <1>3 DEF IInv, Numbered
    <2>2. PICK old, queue : old = vm[to] /\ queue = Append(vm[to].events, e)
      OBVIOUS
    <2>3. PICK new : new = [old EXCEPT !.events = queue]
      OBVIOUS
    <2>4. vm' = [vm EXCEPT ![to] = new] /\ post' = [by |-> Nobody, to |-> to]
      BY <1>3, <2>2, <2>3 DEF Push
    <2>5. IsMachine(new) /\ new.pc = old.pc /\ new.status = old.status
      <3>1. IsMachine(old)
        BY <2>1, <2>2 DEF IInv, AreMachines
      <3> QED
        BY <2>3, <3>1, Fields
    <2>6. vm'[to] = new /\ \A n \in Machines : n # to => vm'[n] = vm[n]
      BY <2>1, <2>4 DEF IInv, AreMachines
    <2>7. AreMachines'
      BY <2>4, <2>5, <2>6 DEF IInv, AreMachines
    <2>8. InitialMachine'
      BY <2>2, <2>5, <2>6 DEF IInv, InitialMachine
    <2>9. SleepersAreWoken'
      BY <1>1, <2>4, <2>6 DEF SleepersAreWoken
    <2>10. Numbered' /\ FoundStaysAlive'
      BY <1>3, <2>4 DEF IInv, Numbered, FoundStaysAlive
    <2> QED
      BY <2>7, <2>8, <2>9, <2>10 DEF IInv
  <1> QED
    BY <1>2, <1>3

\* The machine's own thread: its events, its wait.
LEMMA LoopKeeps ==
  ASSUME IInv, NEW m \in Machines, HandleEvents(m) \/ FinishVM(m) \/ Wait(m)
  PROVE  IInv'
  <1> USE InitialIsMachine
  <1>1. PICK old : old = vm[m]
    OBVIOUS
  <1>2. IsMachine(old) /\ old.pc = "running"
    BY <1>1 DEF HandleEvents, FinishVM, Wait, Runs, IInv, AreMachines
  <1>3. Numbered' /\ FoundStaysAlive'
    BY DEF HandleEvents, FinishVM, Wait, IInv, Numbered, FoundStaysAlive, Unlocked
  <1>4. CASE HandleEvents(m)
    <2>1. PICK new : new = AfterEvents(old, Handled(old.events))
      OBVIOUS
    <2>2. IsMachine(new) /\ new.pc \in {"running", "ending"}
      BY <1>2, <2>1 DEF AfterEvents, IsMachine
    <2>3. vm' = [vm EXCEPT ![m] = new]
      BY <1>1, <1>4, <2>1 DEF HandleEvents
    <2>4. AreMachines' /\ InitialMachine' /\ SleepersAreWoken'
      BY <1>1, <1>2, <1>4, <2>2, <2>3, OwnStep DEF HandleEvents
    <2> QED
      BY <1>3, <2>4 DEF IInv
  <1>5. CASE FinishVM(m)
    <2>1. PICK new : new = [old EXCEPT !.pc = "ending"]
      OBVIOUS
    <2>2. IsMachine(new) /\ new.pc = "ending"
      BY <1>2, <2>1, Fields, ZenonT(40)
    <2>3. vm' = [vm EXCEPT ![m] = new]
      BY <1>1, <1>5, <2>1 DEF FinishVM
    <2>4. AreMachines' /\ InitialMachine' /\ SleepersAreWoken'
      BY <1>1, <1>2, <1>5, <2>2, <2>3, OwnStep DEF FinishVM
    <2> QED
      BY <1>3, <2>4 DEF IInv
  <1>6. CASE Wait(m)
    <2>1. PICK new : new = [old EXCEPT !.pc = "waiting"]
      OBVIOUS
    <2>2. IsMachine(new) /\ new.pc = "waiting" /\ new.events = old.events
      BY <1>2, <2>1, Fields, ZenonT(40)
    <2>3. vm' = [vm EXCEPT ![m] = new]
      BY <1>1, <1>6, <2>1 DEF Wait
    <2>4. AreMachines' /\ InitialMachine' /\ SleepersAreWoken'
      BY <1>1, <1>2, <1>6, <2>2, <2>3, OwnStep DEF Wait
    <2> QED
      BY <1>3, <2>4 DEF IInv
  <1> QED
    BY <1>4, <1>5, <1>6

\* The end of a machine.
LEMMA EndKeeps ==
  ASSUME IInv, NEW m \in Machines, Ending(m)
  PROVE  IInv'
  <1> USE InitialIsMachine
  <1>1. PICK old : old = vm[m]
    OBVIOUS
  <1>2. IsMachine(old)
    BY <1>1 DEF IInv, AreMachines
  <1>3. CASE TerminateVM(m)
    <2>1. PICK new : new = [old EXCEPT !.pc = "notifying", !.portClosed = TRUE,
                                       !.left = old.monitors]
      OBVIOUS
    <2>2. IsMachine(new) /\ new.pc = "notifying"
      BY <1>2, <2>1 DEF IsMachine
    <2>3. vm' = [vm EXCEPT ![m] = new]
      BY <1>1, <1>3, <2>1 DEF TerminateVM, IInv, AreMachines
    <2>4. AreMachines' /\ InitialMachine' /\ SleepersAreWoken'
      BY <1>1, <1>2, <1>3, <2>2, <2>3, OwnStep DEF TerminateVM
    <2> QED
      BY <1>3, <2>4 DEF TerminateVM, IInv, Numbered, FoundStaysAlive, Unlocked
  <1>4. CASE NotifyMonitor(m)
    <2>1. PICK new : new = [old EXCEPT !.left = Tail(old.left)]
      OBVIOUS
    <2>2. IsMachine(new) /\ new.pc = "notifying"
      BY <1>1, <1>2, <1>4, <2>1 DEF IsMachine, NotifyMonitor
    <2>3. Push(m, new, Head(vm[m].left), Termination(m, vm[m].reason))
      BY <1>1, <1>4, <2>1 DEF NotifyMonitor
    <2>4. vm[m].pc = "notifying" /\ UNCHANGED <<listed, nextVM, exitCode, ended>>
      BY <1>4 DEF NotifyMonitor
    <2>5. PICK to, e : to = Head(vm[m].left) /\ e = Termination(m, vm[m].reason)
      OBVIOUS
    <2>6. Push(m, new, to, e)
      BY <2>3, <2>5
    <2> QED
      BY <2>2, <2>4, <2>6, PushStep
  <1>5. CASE RemoveVM(m)
    <2>1. PICK new : new = [old EXCEPT !.pc = "removed"]
      OBVIOUS
    <2>2. IsMachine(new) /\ new.pc = "removed"
      BY <1>2, <2>1, Fields
    <2>3. vm' = [vm EXCEPT ![m] = new]
      BY <1>1, <1>5, <2>1 DEF RemoveVM
    <2>4. AreMachines' /\ InitialMachine' /\ SleepersAreWoken'
      BY <1>1, <1>2, <1>5, <2>2, <2>3, OwnStep DEF RemoveVM
    <2> QED
      BY <1>5, <2>4 DEF RemoveVM, IInv, Numbered, FoundStaysAlive, Unlocked
  <1>6. CASE DeleteWork(m)
    <2>1. PICK new : new = [old EXCEPT !.pc = "gone"]
      OBVIOUS
    <2>2. IsMachine(new) /\ new.pc = "gone" /\ new.status = old.status
      BY <1>2, <2>1, Fields
    <2>3. vm' = [vm EXCEPT ![m] = new]
      BY <1>1, <1>6, <2>1 DEF DeleteWork
    <2>4. AreMachines' /\ InitialMachine' /\ SleepersAreWoken'
      BY <1>1, <1>2, <1>6, <2>2, <2>3, OwnStep DEF DeleteWork
    <2> QED
      BY <1>6, <2>4 DEF DeleteWork, IInv, Numbered, FoundStaysAlive, Unlocked
  <1> QED
    BY <1>3, <1>4, <1>5, <1>6 DEF Ending

\* The operations that post nothing.
LEMMA OperationKeeps ==
  ASSUME IInv, NEW m \in Machines,
         \/ New(m) \/ GetStream(m) \/ CloseStream(m) \/ Crash(m)
         \/ \E t \in Machines : Send(m, t)
         \/ \E k \in IOs : StartAsyncIO(m, k)
  PROVE  IInv'
  <1> USE InitialIsMachine
  <1>1. PICK old : old = vm[m]
    OBVIOUS
  <1>2. IsMachine(old)
    BY <1>1 DEF IInv, AreMachines
  <1>3. CASE New(m)
    <2>1. nextVM \in Machines \ {InitialVMIdentifier} /\ NewMachine(m, nextVM).pc = "running"
      BY <1>3, EnvironmentAssumption
         DEF New, IInv, Numbered, Machines, InitialVMIdentifier, NewMachine
    <2>2. PICK n, new : n = nextVM /\ new = NewMachine(m, nextVM)
      OBVIOUS
    <2>3. IsMachine(new) /\ new.pc = "running" /\ n \in Machines /\ n # InitialVMIdentifier
      BY <2>1, <2>2 DEF IsMachine, NewMachine
    <2>4. vm' = [vm EXCEPT ![n] = new]
      BY <1>3, <2>2 DEF New
    <2>5. AreMachines' /\ InitialMachine' /\ SleepersAreWoken'
      BY <1>3, <2>3, <2>4, OwnStep DEF New
    <2>6. Numbered'
      BY <1>3, <2>1 DEF New, IInv, Numbered, InitialVMIdentifier
    <2> QED
      BY <1>3, <2>5, <2>6 DEF New, IInv, FoundStaysAlive, Unlocked
  <1>4. ASSUME NEW new, IsMachine(new), new.pc \in {"running", "pickling", "ending"},
               vm' = [vm EXCEPT ![m] = new], vm[m].pc = "running",
               UNCHANGED <<listed, nextVM, post, exitCode, ended>>
        PROVE  IInv'
    <2>1. AreMachines' /\ InitialMachine' /\ SleepersAreWoken'
      BY <1>4, OwnStep
    <2> QED
      BY <1>4, <2>1 DEF IInv, Numbered, FoundStaysAlive, Unlocked
  <1>5. CASE GetStream(m)
    <2>1. PICK new : new = [old EXCEPT !.streamAsked = TRUE,
                                       !.asyncIONodes = old.asyncIONodes + 1]
      OBVIOUS
    <2>2. IsMachine(new) /\ new.pc = old.pc
      BY <1>2, <2>1 DEF IsMachine
    <2>3. vm' = [vm EXCEPT ![m] = new]
      BY <1>1, <1>2, <1>5, <2>1 DEF GetStream, IInv, AreMachines, IsMachine
    <2> QED
      BY <1>1, <1>4, <1>5, <2>2, <2>3 DEF GetStream, Runs
  <1>6. CASE CloseStream(m)
    <2>1. PICK new : new = [old EXCEPT !.portClosed = TRUE,
                                       !.asyncIONodes = old.asyncIONodes - Bit(old.streamAsked)]
      OBVIOUS
    <2>2. IsMachine(new) /\ new.pc = old.pc
      BY <1>2, <2>1 DEF IsMachine
    <2>3. vm' = [vm EXCEPT ![m] = new]
      BY <1>1, <1>2, <1>6, <2>1 DEF CloseStream, IInv, AreMachines, IsMachine
    <2> QED
      BY <1>1, <1>4, <1>6, <2>2, <2>3 DEF CloseStream, Runs
  <1>7. CASE Crash(m)
    <2>1. PICK new : new = [old EXCEPT !.pc = "ending", !.reason = "abnormal"]
      OBVIOUS
    <2>2. IsMachine(new) /\ new.pc = "ending"
      BY <1>2, <2>1 DEF IsMachine
    <2>3. vm' = [vm EXCEPT ![m] = new]
      BY <1>1, <1>2, <1>7, <2>1 DEF Crash, IInv, AreMachines, IsMachine
    <2> QED
      BY <1>1, <1>4, <1>7, <2>2, <2>3 DEF Crash, Runs
  <1>8. ASSUME NEW t \in Machines, Send(m, t) PROVE IInv'
    <2>1. CASE t \notin listed \/ vm[t].portClosed
      <3>1. UNCHANGED <<vm, listed, nextVM, post, exitCode, ended>>
        BY <1>8, <2>1 DEF Send
      <3>2. AreMachines'
        BY <3>1 DEF IInv, AreMachines
      <3> QED
        BY <3>1, <3>2 DEF IInv, Numbered, InitialMachine, FoundStaysAlive, Unlocked,
                         SleepersAreWoken
    <2>2. CASE ~(t \notin listed \/ vm[t].portClosed)
      <3>1. PICK new : new = [old EXCEPT !.pc = "pickling", !.target = t]
        OBVIOUS
      <3>2. IsMachine(new) /\ new.pc = "pickling"
        BY <1>2, <3>1 DEF IsMachine
      <3>3. vm' = [vm EXCEPT ![m] = new]
        BY <1>1, <1>2, <1>8, <2>2, <3>1 DEF Send, IInv, AreMachines, IsMachine
      <3> QED
        BY <1>1, <1>4, <1>8, <3>2, <3>3 DEF Send, Runs
    <2> QED
      BY <2>1, <2>2
  <1>9. ASSUME NEW k \in IOs, StartAsyncIO(m, k) PROVE IInv'
    <2>1. PICK new : new = [old EXCEPT !.asyncIONodes = old.asyncIONodes + Nodes(k)]
      OBVIOUS
    <2>2. IsMachine(new) /\ new.pc = old.pc
      BY <1>2, <2>1 DEF IsMachine
    <2>3. vm' = [vm EXCEPT ![m] = new]
      BY <1>1, <1>9, <2>1 DEF StartAsyncIO
    <2> QED
      BY <1>1, <1>4, <1>9, <2>2, <2>3 DEF StartAsyncIO, Runs
  <1> QED
    BY <1>3, <1>5, <1>6, <1>7, <1>8, <1>9

\* The operations that post an event, by a machine or by the I/O thread.
LEMMA PostKeeps ==
  ASSUME IInv, NEW m \in Machines,
         \/ SendPickled(m)
         \/ \E t \in Machines : Monitor(m, t)
         \/ \E t \in Machines : \E r \in {"kill", "normal"} : Kill(m, t, r)
         \/ \E k \in IOs : CompleteIO(m, k)
  PROVE  IInv'
  <1>1. PICK old : old = vm[m]
    OBVIOUS
  <1>2. IsMachine(old)
    BY <1>1 DEF IInv, AreMachines
  <1>3. CASE SendPickled(m)
    <2>1. PICK new, to, e :
             /\ new = [old EXCEPT !.pc = "running", !.target = Nobody]
             /\ to = vm[m].target /\ e = Message(m, sent[m][vm[m].target])
      OBVIOUS
    <2>2. IsMachine(new) /\ new.pc = "running"
      BY <1>2, <2>1 DEF IsMachine
    <2>3. Push(m, new, to, e) /\ vm[m].pc = "pickling"
      BY <1>1, <1>3, <2>1 DEF SendPickled
    <2> QED
      BY <1>3, <2>2, <2>3, PushStep DEF SendPickled
  <1>4. ASSUME NEW t \in Machines, Monitor(m, t) PROVE IInv'
    <2>1. PICK unknown, new, e :
             /\ unknown = [old EXCEPT !.stream = Received(old, <<Termination(t, "unknown")>>)]
             /\ new = (IF t \in listed THEN old ELSE unknown)
             /\ e = MonitorRequest(m)
      OBVIOUS
    <2>2. vm[m].pc = "running"
      BY <1>4 DEF Monitor, Runs
    <2>3. IsMachine(new) /\ new.pc = "running"
      BY <1>1, <1>2, <2>1, <2>2 DEF IsMachine
    <2>4. Push(m, new, t, e)
      BY <1>1, <1>4, <2>1 DEF Monitor
    <2> QED
      BY <1>4, <2>2, <2>3, <2>4, PushStep DEF Monitor
  <1>5. ASSUME NEW t \in Machines, NEW r \in {"kill", "normal"}, Kill(m, t, r) PROVE IInv'
    <2>1. PICK e : e = KillRequest(r)
      OBVIOUS
    <2>2. old.pc = "running" /\ Push(m, old, t, e)
      BY <1>1, <1>5, <2>1 DEF Kill, Runs
    <2> QED
      BY <1>1, <1>2, <1>5, <2>2, PushStep DEF Kill
  <1>6. ASSUME NEW k \in IOs, CompleteIO(m, k) PROVE IInv'
    <2>1. PICK e : e = Feedback(k)
      OBVIOUS
    <2>2. Push(Nobody, old, m, e)
      BY <1>1, <1>6, <2>1 DEF CompleteIO
    <2> QED
      BY <1>6, <2>2, PushByIO DEF CompleteIO
  <1> QED
    BY <1>3, <1>4, <1>5, <1>6

\* The second half of a post wakes the machine that it is for.
LEMMA NotifyKeeps == ASSUME IInv, Notify PROVE IInv'
  <1> USE InitialIsMachine
  <1>1. PICK to : to = post.to
    OBVIOUS
  <1>2. to \in Machines
    BY <1>1 DEF Notify, IInv, FoundStaysAlive, Numbered
  <1>3. PICK old : old = vm[to]
    OBVIOUS
  <1>4. PICK state : state = IF old.pc = "waiting" THEN "running" ELSE old.pc
    OBVIOUS
  <1>5. PICK new : new = [old EXCEPT !.pc = state]
    OBVIOUS
  <1>6. vm' = [vm EXCEPT ![to] = new]
    BY <1>1, <1>3, <1>4, <1>5 DEF Notify
  <1>7. IsMachine(old)
    BY <1>2, <1>3 DEF IInv, AreMachines
  <1>8. IsMachine(new) /\ new.pc = state /\ new.status = old.status
    BY <1>5, <1>7, Fields
  <1>9. vm'[to] = new /\ \A n \in Machines : n # to => vm'[n] = vm[n]
    BY <1>2, <1>6 DEF IInv, AreMachines
  <1>10. AreMachines'
    BY <1>6, <1>8, <1>9 DEF IInv, AreMachines
  <1>11. InitialMachine'
    BY <1>3, <1>4, <1>8, <1>9 DEF Notify, IInv, InitialMachine
  <1>12. SleepersAreWoken'
    BY <1>1, <1>4, <1>8, <1>9 DEF IInv, SleepersAreWoken
  <1>13. Numbered' /\ FoundStaysAlive'
    BY DEF Notify, NoPost, IInv, Numbered, FoundStaysAlive, Unlocked
  <1> QED
    BY <1>10, <1>11, <1>12, <1>13 DEF IInv

\* The process ends only when the initial machine is gone.
LEMMA RunIOKeeps == ASSUME IInv, RunIO PROVE IInv'
  BY InitialIsMachine
     DEF RunIO, IInv, AreMachines, Numbered, InitialMachine, FoundStaysAlive, Unlocked,
         SleepersAreWoken

\* IInv is inductive.
LEMMA IInvHolds == EnvironmentSpec => []IInv
  <1>1. EnvironmentInit => IInv
    <2> SUFFICES ASSUME EnvironmentInit PROVE IInv
      OBVIOUS
    <2>1. \A m \in Machines : IsMachine(vm[m]) /\ vm[m].pc \in {"none", "running"}
      BY DEF EnvironmentInit, NewMachine, NoMachine, IsMachine
    <2>2. vm[InitialVMIdentifier].pc = "running"
      BY InitialIsMachine DEF EnvironmentInit, NewMachine
    <2>3. AreMachines
      BY <2>1 DEF EnvironmentInit, AreMachines
    <2>4. Numbered /\ FoundStaysAlive
      BY InitialIsMachine
         DEF EnvironmentInit, Numbered, FoundStaysAlive, Unlocked, NoPost, InitialVMIdentifier
    <2>5. InitialMachine /\ SleepersAreWoken
      BY <2>1, <2>2 DEF EnvironmentInit, InitialMachine, SleepersAreWoken
    <2> QED
      BY <2>3, <2>4, <2>5 DEF IInv
  <1>2. IInv /\ [EnvironmentNext]_environmentVars => IInv'
    <2> SUFFICES ASSUME IInv, [EnvironmentNext]_environmentVars PROVE IInv'
      OBVIOUS
    <2>1. ASSUME NEW m \in Machines,
                 \/ BuiltIn(m) \/ SendPickled(m)
                 \/ HandleEvents(m) \/ FinishVM(m) \/ Wait(m)
                 \/ Ending(m)
          PROVE  IInv'
      BY <2>1, OperationKeeps, PostKeeps, LoopKeeps, EndKeeps DEF BuiltIn
    <2>2. ASSUME NEW m \in Machines, NEW k \in IOs, CompleteIO(m, k) PROVE IInv'
      BY <2>2, PostKeeps
    <2>3. CASE UNCHANGED environmentVars
      BY <2>3 DEF environmentVars, IInv, AreMachines, Numbered, InitialMachine,
                  FoundStaysAlive, Unlocked, SleepersAreWoken
    <2> QED
      BY <2>1, <2>2, <2>3, NotifyKeeps, RunIOKeeps DEF EnvironmentNext
  <1> QED
    BY <1>1, <1>2, PTL DEF EnvironmentSpec

\* A machine that sleeps on a queue that is not empty is about to be notified:
\* no interleaving of posters, sleepers and the I/O thread loses a wake-up
\* (boostvm.cc, run; boostvm.hh, postVMEvent).
THEOREM NoWakeupIsLost == EnvironmentSpec => []SleepersAreWoken
  <1>1. IInv => SleepersAreWoken
    BY DEF IInv
  <1> QED
    BY <1>1, IInvHolds, PTL

\* A machine stays in the list as long as a poster works on it (boostenv.hh,
\* findVM and removeTerminatedVM).
THEOREM PosterFindsAlive == EnvironmentSpec => []FoundStaysAlive
  <1>1. IInv => FoundStaysAlive
    BY DEF IInv
  <1> QED
    BY <1>1, IInvHolds, PTL

\* When the process ends, its exit code is the status of the initial machine,
\* in whichever order the machines end (boostenv.hh, removeTerminatedVM).
THEOREM InitialGivesExitCode == EnvironmentSpec => []ExitCodeIsInitial
  <1>1. IInv => ExitCodeIsInitial
    BY DEF IInv, InitialMachine, ExitCodeIsInitial
  <1> QED
    BY <1>1, IInvHolds, PTL

-----------------------------------------------------------------------------
(* What is selected in a sequence *)

\* f holds what is selected in the first k elements, at each k.
Selects(f, s, I, k) ==
    /\ f[0] = << >>
    /\ \A i \in Nat : i < k =>
          /\ i + 1 \in I => f[i + 1] = Append(f[i], s[i + 1])
          /\ i + 1 \notin I => f[i + 1] = f[i]

\* The iterations of Select exist.
LEMMA SelectSteps ==
    ASSUME NEW X, NEW s \in Seq(X), NEW I
    PROVE  \E f \in [0..Len(s) -> Seq(X)] : Selects(f, s, I, Len(s)) /\ Select(s, I) = f[Len(s)]
<1>0. PICK n \in Nat : n = Len(s)
  OBVIOUS
<1>1. PICK S : S = {k \in Nat : k <= n => \E f \in [0..k -> Seq(X)] : Selects(f, s, I, k)}
  OBVIOUS
<1>2. 0 \in S
  <2>1. PICK f : f = [i \in 0..0 |-> << >>]
    OBVIOUS
  <2>2. f \in [0..0 -> Seq(X)] /\ Selects(f, s, I, 0)
    BY <2>1 DEF Selects
  <2> QED BY <1>1, <2>2
<1>3. ASSUME NEW k \in Nat, k \in S PROVE k + 1 \in S
  <2> SUFFICES ASSUME k + 1 <= n
               PROVE  \E f \in [0..(k + 1) -> Seq(X)] : Selects(f, s, I, k + 1)
    BY <1>1
  <2>1. PICK f \in [0..k -> Seq(X)] : Selects(f, s, I, k)
    BY <1>1, <1>3
  <2>2. s[k + 1] \in X /\ f[k] \in Seq(X)
    BY <1>0
  <2>3. PICK v \in Seq(X) : /\ k + 1 \in I => v = Append(f[k], s[k + 1])
                            /\ k + 1 \notin I => v = f[k]
    <3>1. Append(f[k], s[k + 1]) \in Seq(X)
      BY <2>2
    <3> QED BY <2>2, <3>1
  <2>4. PICK g : g = [i \in 0..(k + 1) |-> IF i = k + 1 THEN v ELSE f[i]]
    OBVIOUS
  <2>5. g \in [0..(k + 1) -> Seq(X)] /\ g[0] = << >> /\ g[k + 1] = v /\ g[k] = f[k]
    BY <2>1, <2>4 DEF Selects
  <2>6. ASSUME NEW i \in Nat, i < k + 1
        PROVE  /\ i + 1 \in I => g[i + 1] = Append(g[i], s[i + 1])
               /\ i + 1 \notin I => g[i + 1] = g[i]
    <3>1. CASE i = k
      <4>1. g[k + 1] = v /\ g[k] = f[k]
        BY <2>5
      <4>2. /\ k + 1 \in I => g[k + 1] = Append(g[k], s[k + 1])
            /\ k + 1 \notin I => g[k + 1] = g[k]
        BY <2>3, <4>1, Zenon
      <4> QED BY <3>1, <4>2, Zenon
    <3>2. CASE i # k
      <4>1. i < k /\ i \in 0..k /\ i + 1 \in 0..k
        BY <2>6, <3>2
      <4>2. g[i + 1] = f[i + 1] /\ g[i] = f[i]
        BY <2>4, <4>1
      <4> QED BY <2>1, <4>1, <4>2 DEF Selects
    <3> QED BY <3>1, <3>2
  <2> QED BY <2>5, <2>6 DEF Selects
<1>4. n \in S
  BY <1>1, <1>2, <1>3, SetInduction
<1>5. PICK f \in [0..n -> Seq(X)] : Selects(f, s, I, n)
  BY <1>1, <1>4
<1>6. f = [i \in 0..Len(s) |->
              IF i = 0 THEN << >>
              ELSE IF i \in I THEN Append(f[i - 1], s[i]) ELSE f[i - 1]]
  <2>1. f = [i \in 0..Len(s) |-> f[i]]
    BY <1>0
  <2>2. ASSUME NEW i \in 0..Len(s)
        PROVE  f[i] = IF i = 0 THEN << >>
                      ELSE IF i \in I THEN Append(f[i - 1], s[i]) ELSE f[i - 1]
    <3>1. CASE i = 0
      BY <1>5, <3>1 DEF Selects
    <3>2. CASE i # 0
      <4>1. PICK j \in Nat : j = i - 1
        BY <3>2
      <4>2. j < n /\ j + 1 = i
        BY <1>0, <4>1
      <4>3. /\ i \in I => f[i] = Append(f[j], s[i])
            /\ i \notin I => f[i] = f[j]
        BY <1>5, <4>2 DEF Selects
      <4> QED BY <3>2, <4>1, <4>3
    <3> QED BY <3>1, <3>2
  <2> QED BY <2>1, <2>2
<1>7. PICK g : g = [i \in 0..Len(s) |->
              IF i = 0 THEN << >>
              ELSE IF i \in I THEN Append(g[i - 1], s[i]) ELSE g[i - 1]]
           /\ Select(s, I) = g[Len(s)]
  BY <1>6 DEF Select
<1>8. Selects(g, s, I, n)
  <2>1. g[0] = << >>
    BY <1>0, <1>7
  <2>2. ASSUME NEW i \in Nat, i < n
        PROVE  /\ i + 1 \in I => g[i + 1] = Append(g[i], s[i + 1])
               /\ i + 1 \notin I => g[i + 1] = g[i]
    <3>1. PICK j \in 0..Len(s) : j = i + 1 /\ j # 0 /\ j - 1 = i
      BY <1>0, <2>2
    <3>2. g[j] = IF j \in I THEN Append(g[j - 1], s[j]) ELSE g[j - 1]
      BY <1>7, <3>1
    <3> QED BY <3>1, <3>2
  <2> QED BY <2>1, <2>2 DEF Selects
<1>9. PICK T : T = {k \in Nat : k <= n => g[k] = f[k]}
  OBVIOUS
<1>10. 0 \in T
  BY <1>5, <1>8, <1>9 DEF Selects
<1>11. ASSUME NEW k \in Nat, k \in T PROVE k + 1 \in T
  <2> SUFFICES ASSUME k + 1 <= n PROVE g[k + 1] = f[k + 1]
    BY <1>9
  <2>1. g[k] = f[k] /\ k < n
    BY <1>9, <1>11
  <2> QED BY <1>5, <1>8, <2>1 DEF Selects
<1>12. g[n] = f[n]
  <2>1. n \in T
    BY <1>9, <1>10, <1>11, SetInduction
  <2> QED BY <1>9, <2>1
<1> QED BY <1>0, <1>5, <1>7, <1>12

\* Nothing is selected in the empty sequence.
LEMMA SelectOfEmpty == ASSUME NEW I PROVE Select(<< >>, I) = << >>
<1>1. << >> \in Seq({}) /\ Len(<< >>) = 0
  OBVIOUS
<1>2. PICK e : e = << >>
  OBVIOUS
<1>3. e \in Seq({}) /\ Len(e) = 0
  BY <1>1, <1>2
<1>4. PICK f \in [0..Len(e) -> Seq({})] : Selects(f, e, I, Len(e)) /\ Select(e, I) = f[Len(e)]
  BY <1>3, SelectSteps
<1> QED BY <1>2, <1>3, <1>4 DEF Selects

\* What is selected in two sequences, one after the other.
LEMMA SelectConcat ==
    ASSUME NEW X, NEW s \in Seq(X), NEW t \in Seq(X), NEW I, NEW J, NEW K,
           \A i \in 1..Len(s) : i \in K <=> i \in I,
           \A j \in 1..Len(t) : Len(s) + j \in K <=> j \in J
    PROVE  Select(s \o t, K) = Select(s, I) \o Select(t, J)
<1>1. PICK f \in [0..Len(s) -> Seq(X)] :
             Selects(f, s, I, Len(s)) /\ Select(s, I) = f[Len(s)]
  BY SelectSteps
<1>2. PICK h \in [0..Len(t) -> Seq(X)] :
             Selects(h, t, J, Len(t)) /\ Select(t, J) = h[Len(t)]
  BY SelectSteps
<1>3. PICK u \in Seq(X) : u = s \o t
  BY ConcatProperties
<1>4. /\ Len(u) = Len(s) + Len(t)
      /\ \A i \in 1..Len(s) : u[i] = s[i]
      /\ \A j \in 1..Len(t) : u[Len(s) + j] = t[j]
  BY <1>3
<1>5. PICK g \in [0..Len(u) -> Seq(X)] :
             Selects(g, u, K, Len(u)) /\ Select(u, K) = g[Len(u)]
  BY SelectSteps
<1>6. PICK n \in Nat, k \in Nat : n = Len(s) /\ k = Len(t)
  OBVIOUS
<1>7. \A i \in Nat : i <= n => g[i] = f[i]
  <2>1. PICK S : S = {i \in Nat : i <= n => g[i] = f[i]}
    OBVIOUS
  <2>2. 0 \in S
    BY <1>1, <1>5, <2>1 DEF Selects
  <2>3. ASSUME NEW i \in Nat, i \in S PROVE i + 1 \in S
    <3> SUFFICES ASSUME i + 1 <= n PROVE g[i + 1] = f[i + 1]
      BY <2>1
    <3>1. i + 1 \in 1..Len(s) /\ i < Len(s) /\ i < Len(u) /\ g[i] = f[i]
      BY <1>4, <1>6, <2>1, <2>3
    <3> QED BY <1>1, <1>4, <1>5, <3>1 DEF Selects
  <2> QED BY <2>1, <2>2, <2>3, SetInduction
<1>8. PICK c \in Seq(X) : c = f[n]
  BY <1>6
<1>9. PICK d : d = [j \in 0..k |-> g[n + j]]
  OBVIOUS
<1>10. d[0] = c
  <2>1. d[0] = g[n] /\ g[n] = f[n]
    BY <1>6, <1>7, <1>9
  <2> QED BY <1>8, <2>1
<1>11. ASSUME NEW j \in Nat, j < k
       PROVE  /\ j + 1 \in J => d[j + 1] = Append(d[j], t[j + 1])
              /\ j + 1 \notin J => d[j + 1] = d[j]
  <2>1. PICK i \in Nat : i = n + j
    OBVIOUS
  <2>2. i < Len(u) /\ i + 1 = n + (j + 1) /\ j + 1 \in 1..Len(t)
    BY <1>4, <1>6, <1>11, <2>1
  <2>3. d[j + 1] = g[i + 1] /\ d[j] = g[i] /\ u[i + 1] = t[j + 1] /\ (i + 1 \in K <=> j + 1 \in J)
    <3>1. j \in 0..k /\ j + 1 \in 0..k
      BY <1>11
    <3>2. d[j + 1] = g[i + 1] /\ d[j] = g[i]
      BY <1>9, <2>1, <2>2, <3>1
    <3>3. u[i + 1] = t[j + 1]
      BY <1>4, <1>6, <2>2
    <3>4. i + 1 \in K <=> j + 1 \in J
      BY <1>6, <2>2
    <3> QED BY <3>2, <3>3, <3>4
  <2>4. /\ i + 1 \in K => g[i + 1] = Append(g[i], u[i + 1])
        /\ i + 1 \notin K => g[i + 1] = g[i]
    BY <1>5, <2>2 DEF Selects
  <2> QED BY <2>3, <2>4, Zenon
<1>12. PICK S : S = {j \in Nat : j <= k => d[j] = c \o h[j]}
  OBVIOUS
<1>13. 0 \in S
  <2>1. h[0] = << >> /\ c \o << >> = c
    BY <1>2, ConcatEmptySeq DEF Selects
  <2> QED BY <1>10, <1>12, <2>1
<1>14. ASSUME NEW j \in Nat, j \in S PROVE j + 1 \in S
  <2> SUFFICES ASSUME j + 1 <= k PROVE d[j + 1] = c \o h[j + 1]
    BY <1>12
  <2>1. j < k /\ j < Len(t) /\ j \in 0..Len(t) /\ j + 1 \in 1..Len(t)
    BY <1>6
  <2>2. d[j] = c \o h[j]
    BY <1>12, <1>14, <2>1
  <2>3. /\ j + 1 \in J => h[j + 1] = Append(h[j], t[j + 1])
        /\ j + 1 \notin J => h[j + 1] = h[j]
    BY <1>2, <2>1 DEF Selects
  <2>4. PICK q \in Seq(X), x \in X : q = h[j] /\ x = t[j + 1]
    <3>1. h[j] \in Seq(X)
      BY <2>1
    <3>2. t[j + 1] \in X
      BY <2>1, ElementOfSeq
    <3> QED BY <3>1, <3>2
  <2>5. Append(c \o q, x) = c \o Append(q, x)
    <3>1. /\ c \o q \in Seq(X) /\ Append(q, x) = q \o <<x>>
          /\ Append(c \o q, x) = (c \o q) \o <<x>>
      BY AppendIsConcat, ConcatProperties
    <3>2. <<x>> \in Seq(X)
      OBVIOUS
    <3> QED BY <3>1, <3>2, ConcatAssociative, SMTT(20)
  <2> QED BY <1>11, <2>1, <2>2, <2>3, <2>4, <2>5, Zenon
<1>15. d[k] = c \o h[k]
  <2>1. k \in S
    BY <1>12, <1>13, <1>14, SetInduction
  <2> QED BY <1>12, <2>1
<1>16. d[k] = g[n + k]
  BY <1>9
<1> QED BY <1>1, <1>2, <1>3, <1>4, <1>5, <1>6, <1>8, <1>15, <1>16

\* What is selected is a sequence of elements at these places, and there is
\* something when there is a place.
LEMMA SelectElements ==
    ASSUME NEW X, NEW s \in Seq(X), NEW I
    PROVE  /\ Select(s, I) \in Seq(X)
           /\ \A j \in 1..Len(Select(s, I)) : \E i \in 1..Len(s) : i \in I /\ Select(s, I)[j] = s[i]
           /\ Len(Select(s, I)) <= Len(s)
           /\ Len(Select(s, I)) = 0 <=> \A i \in 1..Len(s) : i \notin I
<1>1. PICK f \in [0..Len(s) -> Seq(X)] :
             Selects(f, s, I, Len(s)) /\ Select(s, I) = f[Len(s)]
  BY SelectSteps
<1>2. PICK n \in Nat : n = Len(s)
  OBVIOUS
<1>3. PICK S : S = {k \in Nat : k <= n =>
           /\ \A j \in 1..Len(f[k]) : \E i \in 1..k : i \in I /\ f[k][j] = s[i]
           /\ Len(f[k]) <= k
           /\ Len(f[k]) = 0 <=> \A i \in 1..k : i \notin I}
  OBVIOUS
<1>4. 0 \in S
  BY <1>1, <1>3 DEF Selects
<1>5. ASSUME NEW k \in Nat, k \in S PROVE k + 1 \in S
  <2> SUFFICES ASSUME k + 1 <= n
               PROVE  /\ \A j \in 1..Len(f[k + 1]) : \E i \in 1..(k + 1) : i \in I /\ f[k + 1][j] = s[i]
                      /\ Len(f[k + 1]) <= k + 1
                      /\ Len(f[k + 1]) = 0 <=> \A i \in 1..(k + 1) : i \notin I
    BY <1>3
  <2>1. /\ \A j \in 1..Len(f[k]) : \E i \in 1..k : i \in I /\ f[k][j] = s[i]
        /\ Len(f[k]) <= k
        /\ Len(f[k]) = 0 <=> \A i \in 1..k : i \notin I
    BY <1>3, <1>5
  <2>2. /\ k + 1 \in I => f[k + 1] = Append(f[k], s[k + 1])
        /\ k + 1 \notin I => f[k + 1] = f[k]
    <3>1. k < Len(s)
      BY <1>2
    <3> QED BY <1>1, <3>1 DEF Selects
  <2>3. f[k] \in Seq(X)
    BY <1>2
  <2>4. PICK v : v = f[k]
    OBVIOUS
  <2>5. CASE k + 1 \in I
    <3>1. PICK w : w = Append(v, s[k + 1])
      OBVIOUS
    <3>2. /\ f[k + 1] = w /\ Len(w) = Len(v) + 1 /\ Len(v) \in Nat /\ w[Len(v) + 1] = s[k + 1]
          /\ \A j \in 1..Len(v) : w[j] = v[j]
      BY <1>2, <2>2, <2>3, <2>4, <2>5, <3>1
    <3>3. ASSUME NEW j \in 1..Len(w) PROVE \E i \in 1..(k + 1) : i \in I /\ w[j] = s[i]
      <4>1. CASE j = Len(v) + 1
        BY <2>5, <3>2, <4>1
      <4>2. CASE j # Len(v) + 1
        <5>1. j \in 1..Len(v) /\ w[j] = v[j]
          BY <3>2, <4>2
        <5>2. PICK i \in 1..k : i \in I /\ f[k][j] = s[i]
          BY <2>1, <2>4, <5>1
        <5>3. i \in 1..(k + 1) /\ w[j] = s[i]
          BY <2>4, <5>1, <5>2
        <5> QED BY <5>2, <5>3
      <4> QED BY <4>1, <4>2
    <3>4. Len(w) <= k + 1 /\ Len(w) # 0
      BY <2>1, <2>4, <3>2
    <3>5. ~ \A i \in 1..(k + 1) : i \notin I
      <4>1. k + 1 \in 1..(k + 1)
        OBVIOUS
      <4> QED BY <2>5, <4>1
    <3> QED BY <3>2, <3>3, <3>4, <3>5
  <2>6. CASE k + 1 \notin I
    BY <2>1, <2>2, <2>3, <2>6, SMTT(20)
  <2> QED BY <2>5, <2>6
<1>6. n \in S
  BY <1>3, <1>4, <1>5, SetInduction
<1>7. f[n] \in Seq(X)
  BY <1>2
<1> QED BY <1>1, <1>2, <1>3, <1>6, <1>7

-----------------------------------------------------------------------------
(* What a machine says to another one *)

\* The events and the records of the termination of a machine.
Event == [kind : EventKinds, from : Nat,
          about : Nat \cup Reasons \cup IOs \cup {"unknown", "none"}]

Upto(n) == [i \in 1..n |-> i]

IsMessageOf(e, m) == e.kind = "message" /\ e.from = m
IsTermination(e, m) == e.kind = "terminated" /\ e.from = m /\ e.about # "unknown"

Over(r) == r.pc \in {"notifying", "removed", "gone"}
OnItsWay(r, t) == Bit(r.pc = "pickling" /\ r.target = t)
Queue(r) == Those(r.events, ForStream)

\* The places where a sequence holds x.
Count(s, x) == HowMany(s, LAMBDA y : y = x)

\* The messages of m, of which there are n and `way` on its way.
Reliable(way, closed, stream, queue, m, n) ==
    IF closed
    THEN /\ MessagesOf(m, stream) = Upto(Len(MessagesOf(m, stream)))
         /\ Len(MessagesOf(m, stream)) <= n
    ELSE MessagesOf(m, stream \o queue) = Upto(n - way)

Announces(s, m) == \E i \in 1..Len(s) : IsTermination(s[i], m)
Talks(s, m) == \E i \in 1..Len(s) : IsMessageOf(s[i], m)

Told(over, reason, s, m) ==
    \A i \in 1..Len(s) : IsTermination(s[i], m) =>
        /\ over /\ s[i] = Termination(m, reason)
        /\ \A j \in (i + 1)..Len(s) : ~IsMessageOf(s[j], m)

Heard(over, reason, mine, left, closed, s, m) ==
    over /\ ~closed => Count(s, Termination(m, reason)) + left = mine

\* What the sender m, in state rm, and the receiver t, in state rt, have in common.
Link(way, over, reason, mine, left, closed, stream, queue, m, n) ==
    /\ Reliable(way, closed, stream, queue, m, n)
    /\ Told(over, reason, stream \o queue, m)
    /\ Heard(over, reason, mine, left, closed, stream \o queue, m)

Linked(rm, rt, m, t, n) ==
    Link(OnItsWay(rm, t), Over(rm), rm.reason, Count(rm.monitors, t), Count(rm.left, t),
         rt.portClosed, rt.stream, Queue(rt), m, n)

\* What is for the stream in two sequences, one after the other,
LEMMA StreamConcat ==
    ASSUME NEW s \in Seq(Event), NEW t \in Seq(Event)
    PROVE  Those(s \o t, ForStream) = Those(s, ForStream) \o Those(t, ForStream)
<1>1. PICK I, J, K : /\ I = {i \in 1..Len(s) : ForStream(s[i])}
                     /\ J = {i \in 1..Len(t) : ForStream(t[i])}
                     /\ K = {i \in 1..Len(s \o t) : ForStream((s \o t)[i])}
  OBVIOUS
<1>2. /\ Those(s, ForStream) = Select(s, I) /\ Those(t, ForStream) = Select(t, J)
      /\ Those(s \o t, ForStream) = Select(s \o t, K)
  BY <1>1 DEF Those
<1>3. /\ Len(s \o t) = Len(s) + Len(t)
      /\ \A i \in 1..Len(s) : (s \o t)[i] = s[i]
      /\ \A j \in 1..Len(t) : (s \o t)[Len(s) + j] = t[j]
  OBVIOUS
<1>4. \A i \in 1..Len(s) : i \in K <=> i \in I
  BY <1>1, <1>3
<1>5. \A j \in 1..Len(t) : Len(s) + j \in K <=> j \in J
  BY <1>1, <1>3
<1> QED BY <1>2, <1>4, <1>5, SelectConcat

\* those that equal x,
LEMMA CountConcat ==
    ASSUME NEW X, NEW s \in Seq(X), NEW t \in Seq(X), NEW x
    PROVE  Count(s \o t, x) = Count(s, x) + Count(t, x)
<1>1. PICK I, J, K : /\ I = {i \in 1..Len(s) : s[i] = x}
                     /\ J = {i \in 1..Len(t) : t[i] = x}
                     /\ K = {i \in 1..Len(s \o t) : (s \o t)[i] = x}
  OBVIOUS
<1>2. /\ Count(s, x) = Len(Select(s, I)) /\ Count(t, x) = Len(Select(t, J))
      /\ Count(s \o t, x) = Len(Select(s \o t, K))
  BY <1>1 DEF Count, HowMany, Those
<1>3. /\ Len(s \o t) = Len(s) + Len(t)
      /\ \A i \in 1..Len(s) : (s \o t)[i] = s[i]
      /\ \A j \in 1..Len(t) : (s \o t)[Len(s) + j] = t[j]
  OBVIOUS
<1>4. \A i \in 1..Len(s) : i \in K <=> i \in I
  BY <1>1, <1>3
<1>5. \A j \in 1..Len(t) : Len(s) + j \in K <=> j \in J
  BY <1>1, <1>3
<1>6. Select(s \o t, K) = Select(s, I) \o Select(t, J)
  BY <1>4, <1>5, SelectConcat
<1>7. Select(s, I) \in Seq(X) /\ Select(t, J) \in Seq(X)
  BY SelectElements
<1> QED BY <1>2, <1>6, <1>7, ConcatProperties
\* The number of places where a sequence holds x.
LEMMA CountType ==
    ASSUME NEW X, NEW s \in Seq(X), NEW x
    PROVE  Count(s, x) \in Nat /\ (Count(s, x) = 0 <=> \A i \in 1..Len(s) : s[i] # x)
<1>1. PICK I : I = {i \in 1..Len(s) : s[i] = x}
  OBVIOUS
<1>2. Count(s, x) = Len(Select(s, I))
  BY <1>1 DEF Count, HowMany, Those
<1>3. /\ Select(s, I) \in Seq(X)
      /\ Len(Select(s, I)) = 0 <=> \A i \in 1..Len(s) : i \notin I
  BY SelectElements
<1>4. Len(Select(s, I)) \in Nat
  BY <1>3, LenProperties
<1>5. (\A i \in 1..Len(s) : i \notin I) <=> \A i \in 1..Len(s) : s[i] # x
  BY <1>1
<1> QED BY <1>2, <1>3, <1>4, <1>5

\* What is selected of one element.
LEMMA SelectOne ==
    ASSUME NEW e, NEW I
    PROVE  Select(<<e>>, I) = IF 1 \in I THEN <<e>> ELSE << >>
<1>1. PICK s \in Seq({e}) : s = <<e>> /\ Len(s) = 1 /\ s[1] = e
  <2>1. <<e>> \in Seq({e}) /\ Len(<<e>>) = 1 /\ <<e>>[1] = e
    OBVIOUS
  <2> QED BY <2>1
<1>2. PICK f \in [0..Len(s) -> Seq({e})] : Selects(f, s, I, Len(s)) /\ Select(s, I) = f[Len(s)]
  BY SelectSteps
<1>3. f[0] = << >> /\ (1 \in I => f[0 + 1] = Append(f[0], s[0 + 1])) /\ (1 \notin I => f[0 + 1] = f[0])
  BY <1>1, <1>2 DEF Selects
<1>4. Append(<< >>, e) = <<e>>
  OBVIOUS
<1> QED BY <1>1, <1>2, <1>3, <1>4

\* A sequence of one element.
LEMMA CountOne ==
    ASSUME NEW e, NEW x
    PROVE  Count(<<e>>, x) = IF e = x THEN 1 ELSE 0
<1>1. PICK I : I = {i \in 1..Len(<<e>>) : <<e>>[i] = x}
  OBVIOUS
<1>2. Count(<<e>>, x) = Len(Select(<<e>>, I))
  BY <1>1 DEF Count, HowMany, Those
<1>3. 1 \in I <=> e = x
  BY <1>1
<1>4. Len(<<e>>) = 1 /\ Len(<< >>) = 0
  OBVIOUS
<1> QED BY <1>2, <1>3, <1>4, SelectOne

\* The same, for what is for the stream.
LEMMA StreamOne ==
    ASSUME NEW e
    PROVE  Those(<<e>>, ForStream) = IF ForStream(e) THEN <<e>> ELSE << >>
<1>1. PICK I : I = {i \in 1..Len(<<e>>) : ForStream(<<e>>[i])}
  OBVIOUS
<1>2. Those(<<e>>, ForStream) = Select(<<e>>, I)
  BY <1>1 DEF Those
<1>3. 1 \in I <=> ForStream(e)
  BY <1>1
<1> QED BY <1>2, <1>3, SelectOne

\* What is for the stream is a sequence of events.
LEMMA StreamType ==
    ASSUME NEW s \in Seq(Event) PROVE Those(s, ForStream) \in Seq(Event)
BY SelectElements DEF Those

\* The messages of m, as a sequence, and their numbers.
TheMessages(m, s) == Those(s, LAMBDA e : IsMessageOf(e, m))

\* The numbers of the messages are a sequence too.
LEMMA MessagesType ==
    ASSUME NEW m, NEW s \in Seq(Event)
    PROVE  /\ TheMessages(m, s) \in Seq(Event)
           /\ MessagesOf(m, s) = [i \in 1..Len(TheMessages(m, s)) |-> TheMessages(m, s)[i].about]
           /\ MessagesOf(m, s) \in Seq(Nat \cup Reasons \cup IOs \cup {"unknown", "none"})
<1>1. TheMessages(m, s) \in Seq(Event)
  BY SelectElements DEF TheMessages, Those
<1>2. MessagesOf(m, s) = [i \in 1..Len(TheMessages(m, s)) |-> TheMessages(m, s)[i].about]
  BY DEF MessagesOf, TheMessages, Those, IsMessageOf
<1>3. PICK t \in Seq(Event) : t = TheMessages(m, s)
  BY <1>1
<1>4. \A i \in 1..Len(t) : t[i].about \in Nat \cup Reasons \cup IOs \cup {"unknown", "none"}
  <2>1. ASSUME NEW i \in 1..Len(t)
        PROVE  t[i].about \in Nat \cup Reasons \cup IOs \cup {"unknown", "none"}
    <3>1. t[i] \in Event
      BY ElementOfSeq
    <3> QED BY <3>1 DEF Event
  <2> QED BY <2>1
<1>5. MessagesOf(m, s) = [i \in 1..Len(t) |-> t[i].about]
  BY <1>2, <1>3
<1>6. Len(t) \in Nat
  BY LenProperties
<1>7. MessagesOf(m, s) \in Seq(Nat \cup Reasons \cup IOs \cup {"unknown", "none"})
  BY <1>4, <1>5, <1>6, IsASeq
<1> QED BY <1>1, <1>2, <1>7

\* The messages in two sequences, one after the other.
LEMMA MessagesConcat ==
    ASSUME NEW m, NEW s \in Seq(Event), NEW t \in Seq(Event)
    PROVE  MessagesOf(m, s \o t) = MessagesOf(m, s) \o MessagesOf(m, t)
<1>1. TheMessages(m, s \o t) = TheMessages(m, s) \o TheMessages(m, t)
  <2>1. PICK I, J, K : /\ I = {i \in 1..Len(s) : IsMessageOf(s[i], m)}
                       /\ J = {i \in 1..Len(t) : IsMessageOf(t[i], m)}
                       /\ K = {i \in 1..Len(s \o t) : IsMessageOf((s \o t)[i], m)}
    OBVIOUS
  <2>2. /\ TheMessages(m, s) = Select(s, I) /\ TheMessages(m, t) = Select(t, J)
        /\ TheMessages(m, s \o t) = Select(s \o t, K)
    BY <2>1 DEF TheMessages, Those
  <2>3. /\ Len(s \o t) = Len(s) + Len(t)
        /\ \A i \in 1..Len(s) : (s \o t)[i] = s[i]
        /\ \A j \in 1..Len(t) : (s \o t)[Len(s) + j] = t[j]
    OBVIOUS
  <2>4. \A i \in 1..Len(s) : i \in K <=> i \in I
    BY <2>1, <2>3
  <2>5. \A j \in 1..Len(t) : Len(s) + j \in K <=> j \in J
    BY <2>1, <2>3
  <2> QED BY <2>2, <2>4, <2>5, SelectConcat
<1>2. s \o t \in Seq(Event)
  BY ConcatProperties
<1>3. PICK p \in Seq(Event), q \in Seq(Event) : p = TheMessages(m, s) /\ q = TheMessages(m, t)
  BY MessagesType
<1>4. PICK A, B, C : A = MessagesOf(m, s) /\ B = MessagesOf(m, t) /\ C = MessagesOf(m, s \o t)
  OBVIOUS
<1>5. A = [i \in 1..Len(p) |-> p[i].about] /\ B = [i \in 1..Len(q) |-> q[i].about]
  BY <1>3, <1>4, MessagesType
<1>6. C = [i \in 1..Len(p \o q) |-> (p \o q)[i].about]
  <2>1. PICK u \in Seq(Event) : u = s \o t
    BY <1>2
  <2>2. MessagesOf(m, u) = [i \in 1..Len(TheMessages(m, u)) |-> TheMessages(m, u)[i].about]
    BY MessagesType
  <2>3. TheMessages(m, u) = p \o q
    BY <1>1, <1>3, <2>1
  <2>4. C = MessagesOf(m, u)
    BY <1>4, <2>1
  <2> QED BY <2>2, <2>3, <2>4
<1>7. PICK X : X = Nat \cup Reasons \cup IOs \cup {"unknown", "none"}
  OBVIOUS
<1>8. A \in Seq(X) /\ B \in Seq(X) /\ C \in Seq(X)
  BY <1>2, <1>4, <1>7, MessagesType
<1>9. /\ Len(p) \in Nat /\ Len(q) \in Nat /\ Len(p \o q) = Len(p) + Len(q)
      /\ \A i \in 1..Len(p) + Len(q) : (p \o q)[i] = IF i <= Len(p) THEN p[i] ELSE q[i - Len(p)]
  BY ConcatProperties
<1>10. Len(A) = Len(p) /\ Len(B) = Len(q) /\ Len(C) = Len(p) + Len(q)
  BY <1>5, <1>6, <1>8, <1>9, LenProperties
<1>11. /\ A \o B \in Seq(X) /\ Len(A \o B) = Len(A) + Len(B)
       /\ \A i \in 1..Len(A) + Len(B) : (A \o B)[i] = IF i <= Len(A) THEN A[i] ELSE B[i - Len(A)]
  BY <1>8, ConcatProperties
<1>12. ASSUME NEW i \in 1..Len(C) PROVE C[i] = (A \o B)[i]
  <2>1. i \in 1..Len(p) + Len(q) /\ i \in 1..Len(p \o q)
    BY <1>9, <1>10
  <2>2. C[i] = (p \o q)[i].about
    BY <1>6, <2>1
  <2>3. CASE i <= Len(p)
    <3>1. i \in 1..Len(p)
      BY <2>1, <2>3, <1>9
    <3> QED BY <1>5, <1>9, <1>10, <1>11, <2>1, <2>2, <2>3, <3>1
  <2>4. CASE ~(i <= Len(p))
    <3>1. PICK j \in 1..Len(q) : j = i - Len(p)
      BY <2>1, <2>4, <1>9
    <3>2. B[j] = q[j].about
      BY <1>5
    <3>3. (p \o q)[i] = q[j] /\ (A \o B)[i] = B[j]
      BY <1>9, <1>10, <1>11, <2>1, <2>4, <3>1
    <3> QED BY <2>2, <3>2, <3>3
  <2> QED BY <2>3, <2>4
<1>13. C = A \o B
  BY <1>8, <1>10, <1>11, <1>12, SeqEqual
<1> QED BY <1>4, <1>13

\* The messages in a sequence of one event.
LEMMA MessagesOne ==
    ASSUME NEW m, NEW e \in Event
    PROVE  MessagesOf(m, <<e>>) = IF IsMessageOf(e, m) THEN <<e.about>> ELSE << >>
<1>1. PICK I : I = {i \in 1..Len(<<e>>) : IsMessageOf(<<e>>[i], m)}
  OBVIOUS
<1>2. TheMessages(m, <<e>>) = Select(<<e>>, I)
  BY <1>1 DEF TheMessages, Those
<1>3. 1 \in I <=> IsMessageOf(e, m)
  BY <1>1
<1>4. <<e>> \in Seq(Event)
  OBVIOUS
<1>5. MessagesOf(m, <<e>>) = [i \in 1..Len(TheMessages(m, <<e>>)) |-> TheMessages(m, <<e>>)[i].about]
  BY <1>4, MessagesType
<1>6. CASE IsMessageOf(e, m)
  <2>1. TheMessages(m, <<e>>) = <<e>>
    BY <1>2, <1>3, <1>6, SelectOne
  <2> QED BY <1>5, <1>6, <2>1
<1>7. CASE ~IsMessageOf(e, m)
  <2>1. TheMessages(m, <<e>>) = << >>
    BY <1>2, <1>3, <1>7, SelectOne
  <2> QED BY <1>5, <1>7, <2>1
<1> QED BY <1>6, <1>7

\* What one of two sequences announces or says, both do.
LEMMA SpeaksConcat ==
    ASSUME NEW m, NEW s \in Seq(Event), NEW t \in Seq(Event)
    PROVE  /\ Announces(s \o t, m) <=> Announces(s, m) \/ Announces(t, m)
           /\ Talks(s \o t, m) <=> Talks(s, m) \/ Talks(t, m)
<1>1. PICK u : u = s \o t
  OBVIOUS
<1>2. /\ Len(s) \in Nat /\ Len(t) \in Nat /\ Len(u) = Len(s) + Len(t)
      /\ \A i \in 1..Len(s) : u[i] = s[i] /\ i \in 1..Len(u)
      /\ \A j \in 1..Len(t) : u[Len(s) + j] = t[j] /\ Len(s) + j \in 1..Len(u)
  BY <1>1
<1>3. ASSUME NEW i \in 1..Len(u)
      PROVE  i \in 1..Len(s) \/ \E j \in 1..Len(t) : i = Len(s) + j
  <2>1. CASE i <= Len(s)
    BY <1>2, <2>1
  <2>2. CASE ~(i <= Len(s))
    <3>1. i - Len(s) \in 1..Len(t) /\ i = Len(s) + (i - Len(s))
      BY <1>2, <2>2
    <3> QED BY <3>1
  <2> QED BY <2>1, <2>2
<1>4. Announces(u, m) <=> Announces(s, m) \/ Announces(t, m)
  BY <1>2, <1>3 DEF Announces
<1>5. Talks(u, m) <=> Talks(s, m) \/ Talks(t, m)
  BY <1>2, <1>3 DEF Talks
<1> QED BY <1>1, <1>4, <1>5

\* Told of two sequences, one after the other: no message in the second one when
\* the end is announced in the first.
LEMMA ToldConcat ==
    ASSUME NEW m, NEW s \in Seq(Event), NEW t \in Seq(Event), NEW over, NEW reason
    PROVE  Told(over, reason, s \o t, m) <=>
              /\ Told(over, reason, s, m) /\ Told(over, reason, t, m)
              /\ Announces(s, m) => ~Talks(t, m)
<1>1. PICK u : u = s \o t
  OBVIOUS
<1>2. /\ Len(s) \in Nat /\ Len(t) \in Nat /\ Len(u) = Len(s) + Len(t)
      /\ \A i \in 1..Len(s) : u[i] = s[i] /\ i \in 1..Len(u)
      /\ \A j \in 1..Len(t) : u[Len(s) + j] = t[j] /\ Len(s) + j \in 1..Len(u)
  BY <1>1
<1>3. ASSUME NEW i \in 1..Len(u)
      PROVE  i \in 1..Len(s) \/ \E j \in 1..Len(t) : i = Len(s) + j
  <2>1. CASE i <= Len(s)
    BY <1>2, <2>1
  <2>2. CASE ~(i <= Len(s))
    <3>1. i - Len(s) \in 1..Len(t) /\ i = Len(s) + (i - Len(s))
      BY <1>2, <2>2
    <3> QED BY <3>1
  <2> QED BY <2>1, <2>2
<1>4. ASSUME Told(over, reason, u, m)
      PROVE  /\ Told(over, reason, s, m) /\ Told(over, reason, t, m)
             /\ Announces(s, m) => ~Talks(t, m)
  <2>1. Told(over, reason, s, m)
    <3> SUFFICES ASSUME NEW i \in 1..Len(s), IsTermination(s[i], m)
                 PROVE  /\ over /\ s[i] = Termination(m, reason)
                        /\ \A j \in (i + 1)..Len(s) : ~IsMessageOf(s[j], m)
      BY DEF Told
    <3>1. /\ over /\ s[i] = Termination(m, reason)
          /\ \A j \in (i + 1)..Len(u) : ~IsMessageOf(u[j], m)
      BY <1>2, <1>4 DEF Told
    <3>2. ASSUME NEW j \in (i + 1)..Len(s) PROVE ~IsMessageOf(s[j], m)
      <4>1. j \in 1..Len(s) /\ j \in (i + 1)..Len(u)
        BY <1>2
      <4> QED BY <1>2, <3>1, <4>1
    <3> QED BY <3>1, <3>2
  <2>2. Told(over, reason, t, m)
    <3> SUFFICES ASSUME NEW i \in 1..Len(t), IsTermination(t[i], m)
                 PROVE  /\ over /\ t[i] = Termination(m, reason)
                        /\ \A j \in (i + 1)..Len(t) : ~IsMessageOf(t[j], m)
      BY DEF Told
    <3>1. PICK k \in 1..Len(u) : k = Len(s) + i /\ u[k] = t[i]
      BY <1>2
    <3>2. /\ over /\ t[i] = Termination(m, reason)
          /\ \A j \in (k + 1)..Len(u) : ~IsMessageOf(u[j], m)
      BY <1>4, <3>1 DEF Told
    <3>3. ASSUME NEW j \in (i + 1)..Len(t) PROVE ~IsMessageOf(t[j], m)
      <4>1. j \in 1..Len(t) /\ Len(s) + j \in (k + 1)..Len(u)
        BY <1>2, <3>1
      <4> QED BY <1>2, <3>2, <4>1
    <3> QED BY <3>2, <3>3
  <2>3. ASSUME NEW i \in 1..Len(s), IsTermination(s[i], m), NEW j \in 1..Len(t)
        PROVE  ~IsMessageOf(t[j], m)
    <3>1. \A k \in (i + 1)..Len(u) : ~IsMessageOf(u[k], m)
      BY <1>2, <1>4, <2>3 DEF Told
    <3>2. Len(s) + j \in (i + 1)..Len(u)
      BY <1>2
    <3> QED BY <1>2, <3>1, <3>2
  <2> QED BY <2>1, <2>2, <2>3 DEF Announces, Talks
<1>5. ASSUME Told(over, reason, s, m), Told(over, reason, t, m),
             Announces(s, m) => ~Talks(t, m)
      PROVE  Told(over, reason, u, m)
  <2> SUFFICES ASSUME NEW i \in 1..Len(u), IsTermination(u[i], m)
               PROVE  /\ over /\ u[i] = Termination(m, reason)
                      /\ \A j \in (i + 1)..Len(u) : ~IsMessageOf(u[j], m)
    BY DEF Told
  <2>1. CASE i \in 1..Len(s)
    <3>1. /\ over /\ s[i] = Termination(m, reason) /\ u[i] = s[i]
          /\ \A j \in (i + 1)..Len(s) : ~IsMessageOf(s[j], m)
      BY <1>2, <1>5, <2>1 DEF Told
    <3>2. ~Talks(t, m)
      BY <1>2, <1>5, <2>1 DEF Announces
    <3>3. ASSUME NEW j \in (i + 1)..Len(u) PROVE ~IsMessageOf(u[j], m)
      <4>1. j \in 1..Len(u)
        BY <1>2
      <4>2. CASE j \in 1..Len(s)
        <5>1. j \in (i + 1)..Len(s)
          BY <1>2, <4>2
        <5> QED BY <1>2, <3>1, <4>2, <5>1
      <4>3. ASSUME NEW k \in 1..Len(t), j = Len(s) + k PROVE ~IsMessageOf(u[j], m)
        BY <1>2, <3>2, <4>3 DEF Talks
      <4> QED BY <1>3, <4>1, <4>2, <4>3
    <3> QED BY <3>1, <3>3
  <2>2. ASSUME NEW k \in 1..Len(t), i = Len(s) + k
        PROVE  /\ over /\ u[i] = Termination(m, reason)
               /\ \A j \in (i + 1)..Len(u) : ~IsMessageOf(u[j], m)
    <3>1. u[i] = t[k]
      BY <1>2, <2>2
    <3>2. /\ over /\ t[k] = Termination(m, reason)
          /\ \A j \in (k + 1)..Len(t) : ~IsMessageOf(t[j], m)
      BY <1>5, <3>1 DEF Told
    <3>3. ASSUME NEW j \in (i + 1)..Len(u) PROVE ~IsMessageOf(u[j], m)
      <4>1. PICK l \in (k + 1)..Len(t) : j = Len(s) + l
        <5>1. j - Len(s) \in (k + 1)..Len(t) /\ j = Len(s) + (j - Len(s))
          BY <1>2, <2>2
        <5> QED BY <5>1
      <4>2. l \in 1..Len(t)
        BY <1>2
      <4> QED BY <1>2, <3>2, <4>1, <4>2
    <3> QED BY <3>1, <3>2, <3>3
  <2> QED BY <1>3, <2>1, <2>2
<1> QED BY <1>1, <1>4, <1>5

\* What one event says.
LEMMA SpeaksOne ==
    ASSUME NEW m, NEW e
    PROVE  /\ Announces(<<e>>, m) <=> IsTermination(e, m)
           /\ Talks(<<e>>, m) <=> IsMessageOf(e, m)
           /\ \A over, reason : Told(over, reason, <<e>>, m) <=>
                 (IsTermination(e, m) => over /\ e = Termination(m, reason))
<1>1. Len(<<e>>) = 1 /\ <<e>>[1] = e /\ 1..1 = {1} /\ (1 + 1)..1 = {}
  OBVIOUS
<1>2. PICK s : s = <<e>>
  OBVIOUS
<1>3. Len(s) = 1 /\ s[1] = e
  BY <1>1, <1>2
<1>4. Announces(s, m) <=> IsTermination(e, m)
  BY <1>1, <1>3 DEF Announces
<1>5. Talks(s, m) <=> IsMessageOf(e, m)
  BY <1>1, <1>3 DEF Talks
<1>6. ASSUME NEW over, NEW reason
      PROVE  Told(over, reason, s, m) <=>
                (IsTermination(e, m) => over /\ e = Termination(m, reason))
  BY <1>1, <1>3 DEF Told
<1> QED BY <1>2, <1>4, <1>5, <1>6

\* Nothing is told of a machine that is not over, and who is not told of hears
\* nothing.
LEMMA ToldBefore ==
    ASSUME NEW m, NEW s, NEW over, ~over, NEW reason, Told(over, reason, s, m)
    PROVE  /\ ~Announces(s, m)
           /\ \A over2, reason2 : Told(over2, reason2, s, m)
BY DEF Told, Announces

\* Where no end is announced, none is found.
LEMMA HeardNothing ==
    ASSUME NEW m, NEW s \in Seq(Event), ~Announces(s, m), NEW reason \in Reasons
    PROVE  Count(s, Termination(m, reason)) = 0
<1>1. IsTermination(Termination(m, reason), m)
  BY DEF IsTermination, Termination, Reasons
<1>2. \A i \in 1..Len(s) : s[i] # Termination(m, reason)
  BY <1>1 DEF Announces
<1> QED BY <1>2, CountType

\* The nodes that the answers in two queues release.
LEMMA ReleasedConcat ==
    ASSUME NEW s \in Seq(Event), NEW t \in Seq(Event)
    PROVE  /\ NodesReleased(s \o t) = NodesReleased(s) + NodesReleased(t)
           /\ NodesReleased(s) \in Nat
<1>1. PICK I, J, K : /\ I = {i \in 1..Len(s) : s[i].kind = "feedback"}
                     /\ J = {i \in 1..Len(t) : t[i].kind = "feedback"}
                     /\ K = {i \in 1..Len(s \o t) : (s \o t)[i].kind = "feedback"}
  OBVIOUS
<1>2. PICK A, B, C : /\ A = {i \in 1..Len(s) : IsFeedback(s[i], "read")}
                     /\ B = {i \in 1..Len(t) : IsFeedback(t[i], "read")}
                     /\ C = {i \in 1..Len(s \o t) : IsFeedback((s \o t)[i], "read")}
  OBVIOUS
<1>3. /\ NodesReleased(s) = Len(Select(s, I)) + Len(Select(s, A))
      /\ NodesReleased(t) = Len(Select(t, J)) + Len(Select(t, B))
      /\ NodesReleased(s \o t) = Len(Select(s \o t, K)) + Len(Select(s \o t, C))
  BY <1>1, <1>2 DEF NodesReleased, HowMany, Those
<1>4. /\ Len(s \o t) = Len(s) + Len(t)
      /\ \A i \in 1..Len(s) : (s \o t)[i] = s[i]
      /\ \A j \in 1..Len(t) : (s \o t)[Len(s) + j] = t[j]
  OBVIOUS
<1>5. /\ \A i \in 1..Len(s) : i \in K <=> i \in I
      /\ \A j \in 1..Len(t) : Len(s) + j \in K <=> j \in J
  BY <1>1, <1>4
<1>6. /\ \A i \in 1..Len(s) : i \in C <=> i \in A
      /\ \A j \in 1..Len(t) : Len(s) + j \in C <=> j \in B
  BY <1>2, <1>4
<1>7. Select(s \o t, K) = Select(s, I) \o Select(t, J)
  BY <1>5, SelectConcat
<1>8. Select(s \o t, C) = Select(s, A) \o Select(t, B)
  BY <1>6, SelectConcat
<1>9. PICK a \in Seq(Event), b \in Seq(Event), c \in Seq(Event), d \in Seq(Event) :
         /\ a = Select(s, I) /\ b = Select(t, J) /\ c = Select(s, A) /\ d = Select(t, B)
  BY SelectElements
<1>10. /\ Len(a) \in Nat /\ Len(b) \in Nat /\ Len(c) \in Nat /\ Len(d) \in Nat
       /\ Len(a \o b) = Len(a) + Len(b) /\ Len(c \o d) = Len(c) + Len(d)
  BY ConcatProperties
<1> QED BY <1>3, <1>7, <1>8, <1>9, <1>10

\* The nodes that one event releases.
LEMMA ReleasedOne ==
    ASSUME NEW e
    PROVE  /\ NodesReleased(<<e>>) =
                 IF e.kind = "feedback" THEN (IF e.about = "read" THEN 2 ELSE 1) ELSE 0
           /\ NodesReleased(<< >>) = 0
<1>1. PICK I, J, K, L : /\ I = {i \in 1..Len(<<e>>) : <<e>>[i].kind = "feedback"}
                        /\ J = {i \in 1..Len(<<e>>) : IsFeedback(<<e>>[i], "read")}
                        /\ K = {i \in 1..Len(<< >>) : << >>[i].kind = "feedback"}
                        /\ L = {i \in 1..Len(<< >>) : IsFeedback(<< >>[i], "read")}
  OBVIOUS
<1>2. /\ NodesReleased(<<e>>) = Len(Select(<<e>>, I)) + Len(Select(<<e>>, J))
      /\ NodesReleased(<< >>) = Len(Select(<< >>, K)) + Len(Select(<< >>, L))
  BY <1>1 DEF NodesReleased, HowMany, Those
<1>3. 1 \in I <=> e.kind = "feedback"
  BY <1>1
<1>4. 1 \in J <=> e.kind = "feedback" /\ e.about = "read"
  BY <1>1 DEF IsFeedback
<1>5. Len(<<e>>) = 1 /\ Len(<< >>) = 0
  OBVIOUS
<1>6. Len(Select(<<e>>, I)) = IF e.kind = "feedback" THEN 1 ELSE 0
  BY <1>3, <1>5, SelectOne
<1>7. Len(Select(<<e>>, J)) = IF e.kind = "feedback" /\ e.about = "read" THEN 1 ELSE 0
  BY <1>4, <1>5, SelectOne
<1>8. Select(<< >>, K) = << >> /\ Select(<< >>, L) = << >>
  BY SelectOfEmpty
<1> QED BY <1>2, <1>5, <1>6, <1>7, <1>8

-----------------------------------------------------------------------------
(* What a pair of machines has in common *)

\* The shortest sequences of events.
LEMMA EmptyStream == << >> \in Seq(Event) /\ \A e : e \in Event => <<e>> \in Seq(Event)
  OBVIOUS

\* The numbers up to n, and one more.
LEMMA UptoFacts ==
    ASSUME NEW n \in Nat
    PROVE  Upto(n) \in Seq(Nat) /\ Len(Upto(n)) = n /\ Append(Upto(n), n + 1) = Upto(n + 1)
<1>1. Upto(n) \in Seq(Nat) /\ Upto(n + 1) \in Seq(Nat) /\ Len(Upto(n)) = n /\ Len(Upto(n + 1)) = n + 1
  BY IsASeq, LenProperties DEF Upto
<1>2. PICK s \in Seq(Nat), t \in Seq(Nat) : s = Upto(n) /\ t = Upto(n + 1)
  BY <1>1
<1>3. Append(s, n + 1) \in Seq(Nat) /\ Len(Append(s, n + 1)) = n + 1
  BY <1>1, <1>2, AppendProperties
<1>4. ASSUME NEW i \in 1..(n + 1) PROVE Append(s, n + 1)[i] = t[i]
  <2>1. t[i] = i
    BY <1>2 DEF Upto
  <2>2. CASE i = n + 1
    BY <1>1, <1>2, <2>1, <2>2, AppendProperties
  <2>3. CASE i # n + 1
    <3>1. i \in 1..n /\ i \in 1..Len(s)
      BY <1>1, <1>2, <2>3
    <3>2. s[i] = i
      BY <1>2, <3>1 DEF Upto
    <3> QED BY <2>1, <3>1, <3>2, AppendProperties
  <2> QED BY <2>2, <2>3
<1>5. Append(s, n + 1) = t
  BY <1>1, <1>2, <1>3, <1>4, SeqEqual
<1> QED BY <1>1, <1>2, <1>5

\* More has been sent, and is on its way or lost at a port that is closed.
LEMMA LinkRelabelled ==
    ASSUME NEW way, NEW over, NEW reason, NEW mine, NEW left, NEW closed, NEW stream, NEW queue,
           NEW m, NEW n \in Nat, NEW way2, NEW n2 \in Nat, n <= n2,
           stream \in Seq(Event),
           closed \/ n2 - way2 = n - way,
           Link(way, over, reason, mine, left, closed, stream, queue, m, n)
    PROVE  Link(way2, over, reason, mine, left, closed, stream, queue, m, n2)
<1>1. Len(MessagesOf(m, stream)) \in Nat
  BY MessagesType, LenProperties
<1> QED BY <1>1 DEF Link, Reliable

\* What a machine that has not ended has yet to tell does not matter.
LEMMA LinkAlive ==
    ASSUME NEW way, NEW reason, NEW mine, NEW left, NEW closed, NEW stream, NEW queue,
           NEW m, NEW n, NEW reason2, NEW mine2, NEW left2,
           Link(way, FALSE, reason, mine, left, closed, stream, queue, m, n)
    PROVE  Link(way, FALSE, reason2, mine2, left2, closed, stream, queue, m, n)
<1>1. Told(FALSE, reason2, stream \o queue, m)
  BY ToldBefore DEF Link
<1>2. Heard(FALSE, reason2, mine2, left2, closed, stream \o queue, m)
  BY DEF Heard
<1> QED BY <1>1, <1>2 DEF Link

\* The message that was on its way arrives.
LEMMA LinkArrives ==
    ASSUME NEW reason, NEW mine, NEW left, NEW closed \in BOOLEAN,
           NEW stream \in Seq(Event), NEW queue \in Seq(Event),
           NEW m \in Nat, NEW n \in Nat, n > 0,
           Link(1, FALSE, reason, mine, left, closed, stream, queue, m, n)
    PROVE  Link(0, FALSE, reason, mine, left, closed, stream, queue \o <<Message(m, n)>>, m, n)
<1>1. PICK e \in Event : e = Message(m, n)
  BY DEF Message, Event, EventKinds
<1>2. IsMessageOf(e, m) /\ ~IsTermination(e, m) /\ e.about = n
  BY <1>1 DEF Message, IsMessageOf, IsTermination
<1>3. PICK one \in Seq(Event) : one = <<e>>
  BY EmptyStream
<1>4. PICK s \in Seq(Event) : s = stream \o queue
  BY ConcatProperties
<1>5. stream \o (queue \o one) = s \o one /\ queue \o one \in Seq(Event)
  BY <1>4, ConcatAssociative, ConcatProperties
<1>6. Told(FALSE, reason, s \o one, m)
  <2>1. Told(FALSE, reason, s, m) /\ ~Announces(s, m)
    BY <1>4, ToldBefore DEF Link
  <2>2. Told(FALSE, reason, one, m)
    BY <1>2, <1>3, SpeaksOne
  <2> QED BY <2>1, <2>2, ToldConcat
<1>7. Reliable(0, closed, stream, queue \o one, m, n)
  <2>1. CASE closed
    BY <2>1 DEF Link, Reliable
  <2>2. CASE ~closed
    <3>1. MessagesOf(m, s) = Upto(n - 1)
      BY <1>4, <2>2 DEF Link, Reliable
    <3>2. MessagesOf(m, one) = <<n>>
      BY <1>2, <1>3, MessagesOne
    <3>3. MessagesOf(m, s \o one) = Upto(n - 1) \o <<n>>
      BY <3>1, <3>2, MessagesConcat
    <3>4. PICK k \in Nat : k = n - 1
      OBVIOUS
    <3>5. Upto(k) \o <<n>> = Append(Upto(k), n)
      BY UptoFacts, AppendIsConcat
    <3>6. Append(Upto(k), k + 1) = Upto(k + 1)
      BY UptoFacts
    <3>7. k + 1 = n /\ n - 0 = n
      BY <3>4
    <3> QED BY <1>5, <2>2, <3>3, <3>4, <3>5, <3>6, <3>7 DEF Reliable
  <2> QED BY <2>1, <2>2
<1> QED BY <1>1, <1>3, <1>5, <1>6, <1>7 DEF Link, Heard

\* An event that does not concern m.
LEMMA LinkOther ==
    ASSUME NEW way, NEW over \in BOOLEAN, NEW reason \in Reasons, NEW mine, NEW left,
           NEW closed \in BOOLEAN,
           NEW stream \in Seq(Event), NEW queue \in Seq(Event),
           NEW m, NEW n, NEW e \in Event, ~IsMessageOf(e, m), ~IsTermination(e, m),
           Link(way, over, reason, mine, left, closed, stream, queue, m, n)
    PROVE  /\ Link(way, over, reason, mine, left, closed, stream, queue \o <<e>>, m, n)
           /\ Link(way, over, reason, mine, left, closed, stream \o <<e>>, queue, m, n)
<1>1. PICK one \in Seq(Event) : one = <<e>>
  BY EmptyStream
<1>2. /\ ~Announces(one, m) /\ ~Talks(one, m) /\ Told(over, reason, one, m)
      /\ MessagesOf(m, one) = << >>
  BY <1>1, SpeaksOne, MessagesOne
<1>3. Count(one, Termination(m, reason)) = 0
  BY <1>2, HeardNothing
<1>4. PICK s \in Seq(Event), s2 \in Seq(Event) : s = stream \o queue /\ s2 = stream \o one
  BY ConcatProperties
<1>5. PICK q2 \in Seq(Event) : q2 = queue \o one
  BY ConcatProperties
<1>6. stream \o q2 = s \o one
  BY <1>4, <1>5, ConcatAssociative, SMTT(20)
<1>7. \A u \in Seq(Event) : MessagesOf(m, u) \o << >> = MessagesOf(m, u)
  BY MessagesType, ConcatEmptySeq
<1>8. ASSUME NEW u \in Seq(Event) PROVE MessagesOf(m, u \o one) = MessagesOf(m, u)
  <2>1. MessagesOf(m, u \o one) = MessagesOf(m, u) \o MessagesOf(m, one)
    BY MessagesConcat
  <2> QED BY <1>2, <1>7, <2>1
<1>9. Link(way, over, reason, mine, left, closed, stream, q2, m, n)
  <2>1. Reliable(way, closed, stream, q2, m, n)
    BY <1>4, <1>6, <1>8 DEF Link, Reliable
  <2>2. Told(over, reason, s \o one, m)
    BY <1>2, <1>4, ToldConcat DEF Link
  <2>3. Count(s \o one, Termination(m, reason)) = Count(s, Termination(m, reason))
    BY <1>3, CountConcat, CountType
  <2>4. Heard(over, reason, mine, left, closed, s \o one, m)
    BY <1>4, <2>3 DEF Link, Heard
  <2> QED BY <1>6, <2>1, <2>2, <2>4 DEF Link
<1>10. Link(way, over, reason, mine, left, closed, s2, queue, m, n)
  <2>1. MessagesOf(m, s2) = MessagesOf(m, stream)
    BY <1>4, <1>8
  <2>2. MessagesOf(m, s2 \o queue) = MessagesOf(m, s)
    <3>1. /\ MessagesOf(m, s2 \o queue) = MessagesOf(m, s2) \o MessagesOf(m, queue)
          /\ MessagesOf(m, stream \o queue) = MessagesOf(m, stream) \o MessagesOf(m, queue)
      BY MessagesConcat
    <3> QED BY <1>4, <2>1, <3>1
  <2>3. Reliable(way, closed, s2, queue, m, n)
    BY <1>4, <2>1, <2>2 DEF Link, Reliable
  <2>4. /\ Told(over, reason, stream, m) /\ Told(over, reason, queue, m)
        /\ Announces(stream, m) => ~Talks(queue, m)
    BY ToldConcat DEF Link
  <2>5. Told(over, reason, s2, m) /\ (Announces(s2, m) <=> Announces(stream, m))
    BY <1>2, <1>4, <2>4, ToldConcat, SpeaksConcat
  <2>6. Told(over, reason, s2 \o queue, m)
    BY <2>4, <2>5, ToldConcat
  <2>7. Count(s2 \o queue, Termination(m, reason)) = Count(s, Termination(m, reason))
    <3>1. PICK x : x = Termination(m, reason)
      OBVIOUS
    <3>2. /\ Count(s2 \o queue, x) = Count(s2, x) + Count(queue, x)
          /\ Count(stream \o one, x) = Count(stream, x) + Count(one, x)
          /\ Count(stream \o queue, x) = Count(stream, x) + Count(queue, x)
          /\ Count(stream, x) \in Nat
      BY CountConcat, CountType
    <3>3. Count(one, x) = 0
      BY <1>3, <3>1
    <3> QED BY <1>4, <3>1, <3>2, <3>3
  <2>8. Heard(over, reason, mine, left, closed, s2 \o queue, m)
    BY <1>4, <2>7 DEF Link, Heard
  <2> QED BY <2>3, <2>6, <2>8 DEF Link
<1> QED BY <1>1, <1>4, <1>5, <1>9, <1>10

\* The port is closed: what was received is what was sent first.
LEMMA LinkCloses ==
    ASSUME NEW way \in {0, 1}, NEW over, NEW reason, NEW mine, NEW left, NEW closed \in BOOLEAN,
           NEW stream \in Seq(Event), NEW queue \in Seq(Event),
           NEW m, NEW n \in Nat, way <= n,
           Link(way, over, reason, mine, left, closed, stream, queue, m, n)
    PROVE  Link(way, over, reason, mine, left, TRUE, stream, queue, m, n)
<1>1. Reliable(way, TRUE, stream, queue, m, n)
  <2>1. CASE closed
    BY <2>1 DEF Link, Reliable
  <2>2. CASE ~closed
    <3>1. MessagesOf(m, stream) \o MessagesOf(m, queue) = Upto(n - way)
      BY <2>2, MessagesConcat DEF Link, Reliable
    <3>2. PICK X : X = Nat \cup Reasons \cup IOs \cup {"unknown", "none"}
      OBVIOUS
    <3>3. PICK p \in Seq(X), q \in Seq(X) : p = MessagesOf(m, stream) /\ q = MessagesOf(m, queue)
      BY <3>2, MessagesType
    <3>4. n - way \in Nat
      OBVIOUS
    <3>5. PICK k \in Nat : k = n - way
      BY <3>4
    <3>6. /\ Len(p) \in Nat /\ Len(q) \in Nat /\ Len(p \o q) = Len(p) + Len(q)
          /\ \A i \in 1..Len(p) : (p \o q)[i] = p[i]
      BY ConcatProperties
    <3>7. p \o q = Upto(k)
      BY <3>1, <3>3, <3>5
    <3>8. Len(p) + Len(q) = k
      BY <3>6, <3>7, UptoFacts
    <3>9. Len(p) <= k
      BY <3>6, <3>8
    <3>10. \A i \in 1..Len(p) : p[i] = i
      <4>1. ASSUME NEW i \in 1..Len(p) PROVE p[i] = i
        <5>1. i \in 1..k /\ Upto(k)[i] = p[i]
          BY <3>6, <3>7, <3>9
        <5> QED BY <5>1 DEF Upto
      <4> QED BY <4>1
    <3>11. p = [i \in 1..Len(p) |-> p[i]]
      OBVIOUS
    <3>12. p = Upto(Len(p)) /\ Len(p) <= n
      BY <3>5, <3>6, <3>9, <3>10, <3>11 DEF Upto
    <3> QED BY <3>3, <3>12 DEF Reliable
  <2> QED BY <2>1, <2>2
<1> QED BY <1>1 DEF Link, Heard

\* Some events are handled.
LEMMA LinkHandles ==
    ASSUME NEW way, NEW over \in BOOLEAN, NEW reason, NEW mine, NEW left, NEW closed \in BOOLEAN,
           NEW stream \in Seq(Event), NEW p \in Seq(Event), NEW q \in Seq(Event),
           NEW m, NEW n,
           Link(way, over, reason, mine, left, closed, stream, p \o q, m, n)
    PROVE  /\ closed => Link(way, over, reason, mine, left, closed, stream, q, m, n)
           /\ ~closed => Link(way, over, reason, mine, left, closed, stream \o p, q, m, n)
<1>1. CASE closed
  <2>1. Reliable(way, closed, stream, q, m, n)
    BY <1>1 DEF Link, Reliable
  <2>2. p \o q \in Seq(Event)
    BY ConcatProperties
  <2>3. /\ Told(over, reason, stream, m) /\ Told(over, reason, p \o q, m)
        /\ Announces(stream, m) => ~Talks(p \o q, m)
    BY <2>2, ToldConcat DEF Link
  <2>4. Told(over, reason, q, m) /\ (Talks(q, m) => Talks(p \o q, m))
    BY <2>3, ToldConcat, SpeaksConcat
  <2>5. Told(over, reason, stream \o q, m)
    BY <2>3, <2>4, ToldConcat
  <2> QED BY <1>1, <2>1, <2>5 DEF Link, Heard
<1>2. CASE ~closed
  <2>1. stream \o (p \o q) = (stream \o p) \o q
    BY ConcatAssociative
  <2> QED BY <1>2, <2>1 DEF Link, Reliable
<1> QED BY <1>1, <1>2

\* m ends, and begins to tell.
LEMMA LinkEnds ==
    ASSUME NEW way, NEW reason \in Reasons, NEW mine \in Nat, NEW left, NEW closed \in BOOLEAN,
           NEW stream \in Seq(Event), NEW queue \in Seq(Event), NEW m, NEW n,
           Link(way, FALSE, reason, mine, left, closed, stream, queue, m, n)
    PROVE  Link(way, TRUE, reason, mine, mine, closed, stream, queue, m, n)
<1>1. PICK s \in Seq(Event) : s = stream \o queue
  BY ConcatProperties
<1>2. Told(TRUE, reason, s, m) /\ ~Announces(s, m)
  BY <1>1, ToldBefore DEF Link
<1>3. Count(s, Termination(m, reason)) = 0
  BY <1>2, HeardNothing
<1>4. Heard(TRUE, reason, mine, mine, closed, s, m)
  BY <1>3 DEF Heard
<1> QED BY <1>1, <1>2, <1>4 DEF Link

\* m tells of its end.
LEMMA LinkTells ==
    ASSUME NEW way, NEW reason \in Reasons, NEW mine \in Nat, NEW left \in Nat, NEW closed \in BOOLEAN,
           NEW stream \in Seq(Event), NEW queue \in Seq(Event), NEW m \in Nat, NEW n,
           Link(way, TRUE, reason, mine, left, closed, stream, queue, m, n)
    PROVE  /\ Link(way, TRUE, reason, mine, left - 1, closed, stream,
                   queue \o <<Termination(m, reason)>>, m, n)
           /\ closed => \A left2 : Link(way, TRUE, reason, mine, left2, closed, stream, queue, m, n)
<1>1. PICK e \in Event : e = Termination(m, reason)
  BY DEF Termination, Event, EventKinds
<1>2. PICK one \in Seq(Event) : one = <<e>>
  BY EmptyStream
<1>3. IsTermination(e, m) /\ ~IsMessageOf(e, m)
  BY <1>1 DEF Termination, IsTermination, IsMessageOf, Reasons
<1>4. Told(TRUE, reason, one, m) /\ ~Talks(one, m)
  BY <1>1, <1>2, <1>3, SpeaksOne
<1>5. MessagesOf(m, one) = << >> /\ Count(one, e) = 1
  BY <1>2, <1>3, MessagesOne, CountOne
<1>6. PICK s \in Seq(Event) : s = stream \o queue
  BY ConcatProperties
<1>7. stream \o (queue \o one) = s \o one
  BY <1>6, ConcatAssociative
<1>8. MessagesOf(m, s \o one) = MessagesOf(m, s)
  <2>1. MessagesOf(m, s \o one) = MessagesOf(m, s) \o << >>
    BY <1>5, MessagesConcat, ZenonT(40)
  <2>2. PICK X : X = Nat \cup Reasons \cup IOs \cup {"unknown", "none"}
    OBVIOUS
  <2>3. PICK q \in Seq(X) : q = MessagesOf(m, s)
    BY <2>2, MessagesType
  <2> QED BY <2>1, <2>3, ConcatEmptySeq
<1>9. Reliable(way, closed, stream, queue \o one, m, n)
  BY <1>6, <1>7, <1>8 DEF Link, Reliable
<1>10. Told(TRUE, reason, s \o one, m)
  BY <1>4, <1>6, ToldConcat DEF Link
<1>11. Heard(TRUE, reason, mine, left - 1, closed, s \o one, m)
  <2>1. Count(s \o one, e) = Count(s, e) + 1 /\ Count(s, e) \in Nat
    BY <1>5, CountConcat, CountType
  <2>2. ~closed => Count(s, e) + left = mine
    BY <1>1, <1>6 DEF Link, Heard
  <2>3. ~closed => Count(s \o one, e) + (left - 1) = mine
    BY <2>1, <2>2
  <2> QED BY <1>1, <2>3 DEF Heard
<1> QED BY <1>1, <1>2, <1>7, <1>9, <1>10, <1>11 DEF Link, Heard

-----------------------------------------------------------------------------
(* The invariant of the messages and of the nodes *)

Pcs == {"none", "running", "pickling", "waiting", "ending", "notifying", "removed", "gone"}

Typed(r) ==
    /\ r.pc \in Pcs
    /\ r.events \in Seq(Event) /\ r.stream \in Seq(Event)
    /\ r.monitors \in Seq(Nat) /\ r.left \in Seq(Nat)
    /\ r.portClosed \in BOOLEAN /\ r.streamAsked \in BOOLEAN
    /\ r.asyncIONodes \in Nat /\ r.reason \in Reasons /\ r.status \in {0, 1}

\* A machine that exists, and other than m.
Peer(x, m, next) == x \in Machines /\ x < next /\ x # m

\* What an event may be.
Sane(e, m, next) ==
    /\ IsMonitor(e) => Peer(e.from, m, next)
    /\ IsKill(e) => e.about \in Reasons

Fit(r, m, next) ==
    /\ Typed(r)
    /\ r.pc # "none" <=> m < next
    /\ Over(r) => r.portClosed
    /\ \A i \in 1..Len(r.events) : Sane(r.events[i], m, next)
    /\ \A i \in 1..Len(r.monitors) : Peer(r.monitors[i], m, next)
    /\ \A i \in 1..Len(r.left) : Peer(r.left[i], m, next)
    /\ \A i \in 1..Len(r.stream) : ForStream(r.stream[i])

\* A machine that is there is in the list until it has told its monitors, and
\* there is nothing for one that is not yet there.
Settled(r, m, l, next, s, sn) ==
    /\ m < next /\ m \notin l => r.pc \in {"removed", "gone"}
    /\ m >= next => /\ r = NoMachine /\ m \notin l
                    /\ \A k \in IOs : s[m][k] = 0
                    /\ \A x \in Machines : sn[x][m] = 0
    /\ r.pc = "pickling" =>
          r.target \in Machines /\ r.target < next /\ sn[m][r.target] > 0

Well(v, l, next, s, sn) ==
    /\ l \subseteq Machines /\ next \in Nat
    /\ s \in [Machines -> [IOs -> Nat]] /\ sn \in [Machines -> [Machines -> Nat]]
    /\ \A m \in Machines : Fit(v[m], m, next) /\ Settled(v[m], m, l, next, s, sn)

Balanced(r, s) ==
    LET nodes == 2 * s["read"] + s["write"] + NodesReleased(r.events)
        asked == Bit(r.streamAsked)
    IN IF r.portClosed THEN r.asyncIONodes \in {nodes, nodes + asked}
       ELSE r.asyncIONodes = nodes + asked

Counting(v, l, s) == \A m \in l : Balanced(v[m], s[m])

LinkedAll(v, sn) == \A m, t \in Machines : Linked(v[m], v[t], m, t, sn[m][t])

EInv ==
    /\ Well(vm, listed, nextVM, started, sent)
    /\ Counting(vm, listed, started)
    /\ LinkedAll(vm, sent)

\* r2 says to the others what r says: of its end, and in messages.
SameEnd(r, r2) ==
    /\ Over(r) <=> Over(r2)
    /\ Over(r) => r2.reason = r.reason /\ r2.monitors = r.monitors /\ r2.left = r.left

SameSender(r, r2) ==
    /\ r.pc = "pickling" <=> r2.pc = "pickling"
    /\ r.pc = "pickling" => r2.target = r.target
    /\ SameEnd(r, r2)

\* r2 has received what r has.
SameReceiver(r, r2) ==
    r2.portClosed = r.portClosed /\ r2.stream = r.stream /\ Queue(r2) = Queue(r)

\* v2 is v, but for machine m.
Changed(v, v2, m, new) == v2[m] = new /\ \A x \in Machines \ {m} : v2[x] = v[x]

\* More messages have been sent, and none to a machine that is not yet there.
MoreSent(sn, sn2, next) ==
    /\ sn2 \in [Machines -> [Machines -> Nat]]
    /\ \A x, y \in Machines : sn[x][y] <= sn2[x][y] /\ (y >= next => sn2[x][y] = sn[x][y])

\* A change of machine m alone: what has to be shown of its new state.
LEMMA WellChange ==
    ASSUME NEW v, NEW l, NEW next, NEW s, NEW sn, Well(v, l, next, s, sn),
           NEW m \in Machines, m < next, NEW new, NEW v2, Changed(v, v2, m, new),
           NEW l2, l2 \subseteq l, \A x \in l : x # m => x \in l2,
           NEW s2 \in [Machines -> [IOs -> Nat]], \A x \in Machines : x # m => s2[x] = s[x],
           NEW sn2, MoreSent(sn, sn2, next),
           Fit(new, m, next), m \notin l2 => new.pc \in {"removed", "gone"},
           new.pc = "pickling" =>
              new.target \in Machines /\ new.target < next /\ sn2[m][new.target] > 0
    PROVE  Well(v2, l2, next, s2, sn2)
<1>1. ASSUME NEW x \in Machines PROVE Fit(v2[x], x, next) /\ Settled(v2[x], x, l2, next, s2, sn2)
  <2>1. CASE x = m
    <3>1. m \in Nat /\ next \in Nat /\ ~(m >= next)
      BY DEF Well, Machines
    <3> QED BY <2>1, <3>1 DEF Changed, Settled
  <2>2. CASE x # m
    <3>1. v2[x] = v[x]
      BY <2>2 DEF Changed
    <3>2. Fit(v[x], x, next) /\ Settled(v[x], x, l, next, s, sn)
      BY DEF Well
    <3>3. /\ s2[x] = s[x]
          /\ \A y \in Machines : /\ sn[y][x] \in Nat /\ sn2[y][x] \in Nat
                                 /\ sn[x][y] \in Nat /\ sn2[x][y] \in Nat
      BY <2>2 DEF Well, MoreSent
    <3>4. x \in l <=> x \in l2
      BY <2>2
    <3>5. x < next /\ x \notin l2 => v[x].pc \in {"removed", "gone"}
      BY <3>2, <3>4 DEF Settled
    <3>6. x >= next => /\ v[x] = NoMachine /\ x \notin l2
                       /\ \A k \in IOs : s2[x][k] = 0
                       /\ \A y \in Machines : sn2[y][x] = 0
      BY <3>2, <3>3, <3>4 DEF Settled, MoreSent
    <3>7. v[x].pc = "pickling" =>
             v[x].target \in Machines /\ v[x].target < next /\ sn2[x][v[x].target] > 0
      <4> SUFFICES ASSUME v[x].pc = "pickling"
                   PROVE  v[x].target \in Machines /\ v[x].target < next /\ sn2[x][v[x].target] > 0
        OBVIOUS
      <4>1. v[x].target \in Machines /\ v[x].target < next /\ sn[x][v[x].target] > 0
        BY <3>2 DEF Settled
      <4>2. sn[x][v[x].target] <= sn2[x][v[x].target]
        BY <4>1 DEF MoreSent
      <4> QED BY <3>3, <4>1, <4>2
    <3> QED BY <3>1, <3>2, <3>5, <3>6, <3>7 DEF Settled
  <2> QED BY <2>1, <2>2
<1>2. l2 \subseteq Machines /\ next \in Nat
  BY DEF Well
<1> QED BY <1>1, <1>2 DEF Well, MoreSent

\* Nothing more has been sent.
LEMMA NothingSent ==
    ASSUME NEW sn \in [Machines -> [Machines -> Nat]], NEW next
    PROVE  MoreSent(sn, sn, next)
BY DEF MoreSent

\* Two machines that do nothing new to each other.
LEMMA QuietPair ==
    ASSUME NEW rm, NEW rt, NEW rm2, NEW rt2, NEW m, NEW t, NEW n,
           OnItsWay(rm2, t) = OnItsWay(rm, t), SameEnd(rm, rm2), SameReceiver(rt, rt2),
           Linked(rm, rt, m, t, n)
    PROVE  Linked(rm2, rt2, m, t, n)
<1>1. OnItsWay(rm2, t) = OnItsWay(rm, t) /\ (Over(rm2) <=> Over(rm))
  BY DEF SameEnd
<1>2. rt2.portClosed = rt.portClosed /\ rt2.stream = rt.stream /\ Queue(rt2) = Queue(rt)
  BY DEF SameReceiver
<1>3. PICK q : q = Queue(rt)
  OBVIOUS
<1>4. CASE Over(rm)
  <2>1. rm2.reason = rm.reason /\ rm2.monitors = rm.monitors /\ rm2.left = rm.left
    BY <1>4 DEF SameEnd
  <2>2. Linked(rm2, rt2, m, t, n) <=>
        Link(OnItsWay(rm, t), Over(rm2), rm.reason, Count(rm.monitors, t), Count(rm.left, t),
             rt.portClosed, rt.stream, q, m, n)
    BY <1>1, <1>2, <1>3, <2>1 DEF Linked
  <2>3. Over(rm2) = TRUE /\ Over(rm) = TRUE
    BY <1>1, <1>4 DEF Over
  <2> QED BY <1>3, <2>2, <2>3 DEF Linked
<1>5. CASE ~Over(rm)
  <2>1. Over(rm) = FALSE /\ Over(rm2) = FALSE
    BY <1>1, <1>5 DEF Over
  <2>2. Link(OnItsWay(rm, t), FALSE, rm.reason, Count(rm.monitors, t), Count(rm.left, t),
             rt.portClosed, rt.stream, q, m, n)
    BY <1>3, <2>1 DEF Linked
  <2>3. Link(OnItsWay(rm, t), FALSE, rm2.reason, Count(rm2.monitors, t), Count(rm2.left, t),
             rt.portClosed, rt.stream, q, m, n)
    <3>1. PICK w, a, b, c, d : /\ w = OnItsWay(rm, t)
                               /\ a = Count(rm.monitors, t) /\ b = Count(rm.left, t)
                               /\ c = Count(rm2.monitors, t) /\ d = Count(rm2.left, t)
      OBVIOUS
    <3>2. Link(w, FALSE, rm.reason, a, b, rt.portClosed, rt.stream, q, m, n)
      BY <2>2, <3>1
    <3>3. Link(w, FALSE, rm2.reason, c, d, rt.portClosed, rt.stream, q, m, n)
      BY <3>2, LinkAlive
    <3> QED BY <3>1, <3>3
  <2> QED BY <1>1, <1>2, <1>3, <2>1, <2>3 DEF Linked
<1> QED BY <1>4, <1>5

\* A machine that does not change is quiet.
LEMMA SameIsQuiet == \A r : SameSender(r, r) /\ SameReceiver(r, r)
  BY DEF SameSender, SameEnd, SameReceiver

\* A sender that does not change has the same end, and the same message on its way.
LEMMA SenderParts ==
    ASSUME NEW r, NEW r2, SameSender(r, r2)
    PROVE  SameEnd(r, r2) /\ \A t : OnItsWay(r2, t) = OnItsWay(r, t)
  BY DEF SameSender, OnItsWay

\* A machine that says nothing.
LEMMA QuietChange ==
    ASSUME NEW v, NEW sn, LinkedAll(v, sn), NEW m \in Machines, NEW v2, NEW new,
           Changed(v, v2, m, new), SameSender(v[m], new), SameReceiver(v[m], new)
    PROVE  LinkedAll(v2, sn)
<1>1. ASSUME NEW x \in Machines PROVE SameSender(v[x], v2[x]) /\ SameReceiver(v[x], v2[x])
  BY SameIsQuiet DEF Changed
<1>2. ASSUME NEW x \in Machines, NEW t \in Machines PROVE Linked(v2[x], v2[t], x, t, sn[x][t])
  BY <1>1, QuietPair, SenderParts DEF LinkedAll
<1> QED BY <1>2 DEF LinkedAll

\* A step of machine m alone, in which it says and receives nothing.
LEMMA OwnQuiet ==
    ASSUME EInv, NEW m \in Machines, m < nextVM, NEW new, Changed(vm, vm', m, new),
           nextVM' = nextVM, sent' = sent,
           listed' \subseteq listed, \A x \in listed : x # m => x \in listed',
           started' \in [Machines -> [IOs -> Nat]],
           \A x \in Machines : x # m => started'[x] = started[x],
           Fit(new, m, nextVM), m \notin listed' => new.pc \in {"removed", "gone"}, new.pc # "pickling",
           m \in listed' => Balanced(new, started'[m]),
           SameSender(vm[m], new), SameReceiver(vm[m], new)
    PROVE  EInv'
<1>1. sent \in [Machines -> [Machines -> Nat]]
  BY DEF EInv, Well
<1>2. Well(vm', listed', nextVM, started', sent)
  <2>1. MoreSent(sent, sent, nextVM)
    BY <1>1, NothingSent
  <2>2. Well(vm, listed, nextVM, started, sent)
    BY DEF EInv
  <2> QED BY <1>1, <2>1, <2>2, WellChange
<1>3. Counting(vm', listed', started')
  <2>1. listed' \subseteq Machines
    BY DEF EInv, Well
  <2> QED BY <2>1 DEF EInv, Counting, Changed
<1>4. LinkedAll(vm', sent)
  BY QuietChange DEF EInv
<1> QED BY <1>2, <1>3, <1>4 DEF EInv

-----------------------------------------------------------------------------
(* Steps that concern one machine only *)

\* r2 is r, but for its state.
PcOnly(r, r2) ==
    /\ r2.events = r.events /\ r2.monitors = r.monitors /\ r2.left = r.left
    /\ r2.portClosed = r.portClosed /\ r2.streamAsked = r.streamAsked /\ r2.stream = r.stream
    /\ r2.asyncIONodes = r.asyncIONodes /\ r2.reason = r.reason /\ r2.status = r.status
    /\ r2.target = r.target

\* A change of state keeps the other fields.
LEMMA PcFields ==
    ASSUME NEW r, IsMachine(r), NEW x
    PROVE  LET r2 == [r EXCEPT !.pc = x] IN PcOnly(r, r2) /\ r2.pc = x
BY DEF IsMachine, PcOnly

\* A machine that has not left the list.
LEMMA ThereFacts ==
    ASSUME EInv, NEW m \in Machines,
           vm[m].pc \in {"running", "waiting", "pickling", "ending", "notifying"}
    PROVE  /\ m < nextVM /\ m \in listed /\ Fit(vm[m], m, nextVM) /\ Balanced(vm[m], started[m])
           /\ started \in [Machines -> [IOs -> Nat]]
<1>1. Fit(vm[m], m, nextVM) /\ Settled(vm[m], m, listed, nextVM, started, sent)
  BY DEF EInv, Well
<1>2. m < nextVM
  BY <1>1 DEF Fit
<1>3. m \in listed
  BY <1>1, <1>2 DEF Settled
<1> QED BY <1>1, <1>2, <1>3 DEF EInv, Counting, Well

\* The state of a machine changes, and nothing that others see.
LEMMA PcChange ==
    ASSUME IInv, EInv, NEW m \in Machines, NEW x \in Pcs \ {"none", "pickling"},
           vm[m].pc \notin {"none", "pickling"},
           vm' = [vm EXCEPT ![m].pc = x],
           UNCHANGED <<nextVM, sent, started>>,
           listed' \subseteq listed, \A y \in listed : y # m => y \in listed',
           m \notin listed' => x \in {"removed", "gone"},
           vm[m].pc \in {"notifying", "removed", "gone"} <=> x \in {"notifying", "removed", "gone"}
    PROVE  EInv'
<1>1. PICK old : old = vm[m]
  OBVIOUS
<1>2. PICK new : new = [old EXCEPT !.pc = x]
  OBVIOUS
<1>3. PcOnly(old, new) /\ new.pc = x
  BY <1>1, <1>2, PcFields DEF IInv, AreMachines
<1>4. Changed(vm, vm', m, new)
  BY <1>1, <1>2 DEF IInv, AreMachines, Changed
<1>5. Fit(old, m, nextVM) /\ started \in [Machines -> [IOs -> Nat]]
  BY <1>1 DEF EInv, Well
<1>6. m < nextVM
  BY <1>1, <1>5 DEF Fit
<1>7. Fit(new, m, nextVM)
  <2>1. Typed(new)
    BY <1>3, <1>5 DEF Fit, Typed, PcOnly
  <2>2. Over(new) => new.portClosed
    BY <1>1, <1>3, <1>5 DEF Fit, Over, PcOnly
  <2> QED BY <1>3, <1>5, <1>6, <2>1, <2>2 DEF Fit, PcOnly
<1>8. m \in listed' => Balanced(new, started'[m])
  <2>1. m \in listed' => Balanced(old, started[m])
    BY <1>1 DEF EInv, Counting
  <2> QED BY <1>3, <2>1 DEF Balanced, PcOnly
<1>9. SameSender(old, new) /\ SameReceiver(old, new)
  BY <1>1, <1>3 DEF SameSender, SameEnd, SameReceiver, PcOnly, Over, Queue
<1> QED BY <1>1, <1>3, <1>4, <1>5, <1>6, <1>7, <1>8, <1>9, OwnQuiet

\* End for want of work, wait, leave the list, give the exit code.
LEMMA StateKeeps ==
    ASSUME IInv, EInv, NEW m \in Machines,
           FinishVM(m) \/ Wait(m) \/ DeleteWork(m) \/ RemoveVM(m)
    PROVE  EInv'
<1>1. CASE FinishVM(m)
  <2>1. vm[m].pc = "running" /\ m \in listed /\ listed' = listed
    BY <1>1, ThereFacts DEF FinishVM, Runs
  <2> QED BY <1>1, <2>1, PcChange DEF FinishVM, Pcs
<1>2. CASE Wait(m)
  <2>1. vm[m].pc = "running" /\ m \in listed /\ listed' = listed
    BY <1>2, ThereFacts DEF Wait, Runs
  <2> QED BY <1>2, <2>1, PcChange DEF Wait, Pcs
<1>3. CASE DeleteWork(m)
  <2>1. m \notin listed \/ m \in listed
    OBVIOUS
  <2> QED BY <1>3, PcChange DEF DeleteWork, Pcs
<1>4. CASE RemoveVM(m)
  BY <1>4, PcChange DEF RemoveVM, Pcs
<1> QED BY <1>1, <1>2, <1>3, <1>4

\* A notification: at most, the machine waits no more.
LEMMA NotifyLinks == ASSUME IInv, EInv, Notify PROVE EInv'
<1>1. PICK to : to = post.to
  OBVIOUS
<1>2. to \in Machines
  BY <1>1 DEF Notify, IInv, FoundStaysAlive, Numbered
<1>3. PICK x : x = IF vm[to].pc = "waiting" THEN "running" ELSE vm[to].pc
  OBVIOUS
<1>4. vm' = [vm EXCEPT ![to].pc = x] /\ UNCHANGED <<listed, nextVM, started, sent>>
  BY <1>1, <1>3 DEF Notify
<1>5. to \in listed
  BY <1>1 DEF Notify, IInv, FoundStaysAlive
<1>6. CASE vm[to].pc = "waiting"
  BY <1>2, <1>3, <1>4, <1>5, <1>6, PcChange DEF Pcs
<1>7. CASE vm[to].pc # "waiting"
  <2>1. vm' = vm
    BY <1>2, <1>3, <1>4, <1>7 DEF IInv, AreMachines, IsMachine
  <2> QED BY <1>4, <2>1 DEF EInv
<1> QED BY <1>6, <1>7

\* The stream counts as a node from the time when it is asked for.
LEMMA GetStreamKeeps ==
    ASSUME IInv, EInv, NEW m \in Machines, GetStream(m) PROVE EInv'
<1>1. PICK old : old = vm[m]
  OBVIOUS
<1>2. old.pc = "running" /\ ~old.streamAsked /\ IsMachine(old)
  BY <1>1 DEF GetStream, Runs, IInv, AreMachines
<1>3. /\ m < nextVM /\ m \in listed /\ Fit(old, m, nextVM) /\ Balanced(old, started[m])
      /\ started \in [Machines -> [IOs -> Nat]]
  BY <1>1, <1>2, ThereFacts
<1>4. PICK k \in Nat : k = old.asyncIONodes + 1
  BY <1>3 DEF Fit, Typed
<1>5. PICK new : new = [old EXCEPT !.streamAsked = TRUE, !.asyncIONodes = k]
  OBVIOUS
<1>6. /\ new.pc = old.pc /\ new.events = old.events /\ new.monitors = old.monitors
      /\ new.left = old.left /\ new.portClosed = old.portClosed /\ new.stream = old.stream
      /\ new.reason = old.reason /\ new.status = old.status /\ new.target = old.target
      /\ new.streamAsked = TRUE /\ new.asyncIONodes = k
  BY <1>2, <1>5 DEF IsMachine
<1>7. Changed(vm, vm', m, new)
  BY <1>1, <1>2, <1>4, <1>5 DEF GetStream, IInv, AreMachines, Changed, IsMachine
<1>8. Fit(new, m, nextVM)
  <2>1. Typed(new) /\ ~Over(new)
    BY <1>2, <1>3, <1>6 DEF Fit, Typed, Over
  <2> QED BY <1>2, <1>3, <1>6, <2>1 DEF Fit
<1>9. Balanced(new, started[m])
  <2>1. PICK n \in Nat : n = 2 * started[m]["read"] + started[m]["write"] + NodesReleased(old.events)
    <3>1. NodesReleased(old.events) \in Nat
      BY <1>3, ReleasedConcat DEF Fit, Typed
    <3>2. started[m]["read"] \in Nat /\ started[m]["write"] \in Nat
      BY <1>3 DEF IOs
    <3> QED BY <3>1, <3>2
  <2>2. IF old.portClosed THEN old.asyncIONodes = n ELSE old.asyncIONodes = n
    BY <1>2, <1>3, <2>1 DEF Balanced, Bit
  <2>3. k = n + 1
    BY <1>4, <2>2
  <2> QED BY <1>6, <2>1, <2>3 DEF Balanced, Bit
<1>10. SameSender(old, new) /\ SameReceiver(old, new)
  BY <1>2, <1>6 DEF SameSender, SameEnd, SameReceiver, Over, Queue
<1>11. UNCHANGED <<listed, nextVM, started, sent>>
  BY DEF GetStream
<1> QED BY <1>1, <1>2, <1>3, <1>6, <1>7, <1>8, <1>9, <1>10, <1>11, OwnQuiet

\* An exception that nothing catches.
LEMMA CrashKeeps ==
    ASSUME IInv, EInv, NEW m \in Machines, Crash(m) PROVE EInv'
<1>1. PICK old : old = vm[m]
  OBVIOUS
<1>2. old.pc = "running" /\ IsMachine(old)
  BY <1>1 DEF Crash, Runs, IInv, AreMachines
<1>3. /\ m < nextVM /\ m \in listed /\ Fit(old, m, nextVM) /\ Balanced(old, started[m])
      /\ started \in [Machines -> [IOs -> Nat]]
  BY <1>1, <1>2, ThereFacts
<1>5. PICK new : new = [old EXCEPT !.pc = "ending", !.reason = "abnormal"]
  OBVIOUS
<1>6. /\ new.pc = "ending" /\ new.events = old.events /\ new.monitors = old.monitors
      /\ new.left = old.left /\ new.portClosed = old.portClosed /\ new.stream = old.stream
      /\ new.reason = "abnormal" /\ new.status = old.status /\ new.target = old.target
      /\ new.streamAsked = old.streamAsked /\ new.asyncIONodes = old.asyncIONodes
  BY <1>2, <1>5 DEF IsMachine
<1>7. Changed(vm, vm', m, new)
  BY <1>1, <1>2, <1>5 DEF Crash, IInv, AreMachines, Changed, IsMachine
<1>8. Fit(new, m, nextVM)
  <2>1. Typed(new) /\ ~Over(new)
    BY <1>2, <1>3, <1>6 DEF Fit, Typed, Over, Pcs, Reasons
  <2> QED BY <1>2, <1>3, <1>6, <2>1 DEF Fit
<1>9. Balanced(new, started[m])
  BY <1>3, <1>6 DEF Balanced
<1>10. SameSender(old, new) /\ SameReceiver(old, new)
  BY <1>2, <1>6 DEF SameSender, SameEnd, SameReceiver, Over, Queue
<1>11. UNCHANGED <<listed, nextVM, started, sent>>
  BY DEF Crash
<1> QED BY <1>1, <1>2, <1>3, <1>6, <1>7, <1>8, <1>9, <1>10, <1>11, OwnQuiet

\* The nodes of an input or output are counted when it is started.
LEMMA StartKeeps ==
    ASSUME IInv, EInv, NEW m \in Machines, NEW i \in IOs, StartAsyncIO(m, i) PROVE EInv'
<1>1. PICK old : old = vm[m]
  OBVIOUS
<1>2. old.pc = "running" /\ IsMachine(old)
  BY <1>1 DEF StartAsyncIO, Runs, IInv, AreMachines
<1>3. /\ m < nextVM /\ m \in listed /\ Fit(old, m, nextVM) /\ Balanced(old, started[m])
      /\ started \in [Machines -> [IOs -> Nat]]
  BY <1>1, <1>2, ThereFacts
<1>4. PICK k \in Nat : k = old.asyncIONodes + Nodes(i)
  <2>1. Nodes(i) \in {1, 2}
    BY DEF Nodes
  <2>2. old.asyncIONodes \in Nat
    BY <1>3 DEF Fit, Typed
  <2> QED BY <2>1, <2>2
<1>5. PICK new : new = [old EXCEPT !.asyncIONodes = k]
  OBVIOUS
<1>6. /\ new.pc = old.pc /\ new.events = old.events /\ new.monitors = old.monitors
      /\ new.left = old.left /\ new.portClosed = old.portClosed /\ new.stream = old.stream
      /\ new.reason = old.reason /\ new.status = old.status /\ new.target = old.target
      /\ new.streamAsked = old.streamAsked /\ new.asyncIONodes = k
  BY <1>2, <1>5 DEF IsMachine
<1>7. Changed(vm, vm', m, new)
  BY <1>1, <1>2, <1>4, <1>5 DEF StartAsyncIO, IInv, AreMachines, Changed, IsMachine
<1>8. Fit(new, m, nextVM)
  <2>1. Typed(new) /\ ~Over(new)
    BY <1>2, <1>3, <1>6 DEF Fit, Typed, Over
  <2> QED BY <1>2, <1>3, <1>6, <2>1 DEF Fit
<1>12. /\ started' \in [Machines -> [IOs -> Nat]]
       /\ \A x \in Machines : x # m => started'[x] = started[x]
       /\ started'[m] = [started[m] EXCEPT ![i] = started[m][i] + 1]
  BY <1>3 DEF StartAsyncIO
<1>9. Balanced(new, started'[m])
  <2>1. PICK a \in Nat, b \in Nat, c \in Nat :
           a = started[m]["read"] /\ b = started[m]["write"] /\ c = NodesReleased(old.events)
    <3>1. NodesReleased(old.events) \in Nat
      BY <1>3, ReleasedConcat DEF Fit, Typed
    <3>2. started[m]["read"] \in Nat /\ started[m]["write"] \in Nat
      BY <1>3 DEF IOs
    <3> QED BY <3>1, <3>2
  <2>2. PICK d \in {0, 1} : d = Bit(old.streamAsked)
    BY DEF Bit
  <2>3. IF old.portClosed THEN old.asyncIONodes \in {2 * a + b + c, 2 * a + b + c + d}
        ELSE old.asyncIONodes = 2 * a + b + c + d
    BY <1>3, <2>1, <2>2 DEF Balanced
  <2>4. PICK a2 \in Nat, b2 \in Nat : a2 = started'[m]["read"] /\ b2 = started'[m]["write"]
    BY <1>12 DEF IOs
  <2>5. 2 * a2 + b2 = 2 * a + b + Nodes(i)
    <3>1. CASE i = "read"
      <4>1. a2 = a + 1 /\ b2 = b
        BY <1>3, <1>12, <2>1, <2>4, <3>1 DEF IOs
      <4> QED BY <3>1, <4>1 DEF Nodes
    <3>2. CASE i = "write"
      <4>1. a2 = a /\ b2 = b + 1
        BY <1>3, <1>12, <2>1, <2>4, <3>2 DEF IOs
      <4> QED BY <3>2, <4>1 DEF Nodes
    <3> QED BY <3>1, <3>2 DEF IOs
  <2>6. old.asyncIONodes \in Nat /\ Nodes(i) \in Nat
    BY <1>3 DEF Fit, Typed, Nodes
  <2>7. IF new.portClosed THEN k \in {2 * a2 + b2 + c, 2 * a2 + b2 + c + d}
        ELSE k = 2 * a2 + b2 + c + d
    <3>1. PICK p \in Nat, q \in Nat : p = Nodes(i) /\ q = old.asyncIONodes
      BY <2>6
    <3>2. k = q + p /\ 2 * a2 + b2 = 2 * a + b + p
      BY <1>4, <2>5, <3>1
    <3>3. q = 2 * a + b + c => k = 2 * a2 + b2 + c
      BY <3>2
    <3>4. q = 2 * a + b + c + d => k = 2 * a2 + b2 + c + d
      BY <3>2
    <3> QED BY <1>6, <2>3, <3>1, <3>3, <3>4
  <2> QED BY <1>6, <2>1, <2>2, <2>4, <2>7 DEF Balanced
<1>10. SameSender(old, new) /\ SameReceiver(old, new)
  BY <1>2, <1>6 DEF SameSender, SameEnd, SameReceiver, Over, Queue
<1>11. UNCHANGED <<listed, nextVM, sent>>
  BY DEF StartAsyncIO
<1> QED BY <1>1, <1>2, <1>3, <1>6, <1>7, <1>8, <1>9, <1>10, <1>11, <1>12, OwnQuiet

\* The I/O thread returns, or nothing happens.
LEMMA RestKeeps == ASSUME EInv, RunIO \/ UNCHANGED environmentVars PROVE EInv'
BY DEF RunIO, environmentVars, EInv

\* The views of a pair, typed.
LEMMA PairTypes ==
    ASSUME NEW v, NEW l, NEW next, NEW s, NEW sn, Well(v, l, next, s, sn),
           NEW x \in Machines, NEW t \in Machines
    PROVE  /\ OnItsWay(v[x], t) \in {0, 1} /\ OnItsWay(v[x], t) <= sn[x][t]
           /\ sn[x][t] \in Nat
           /\ Over(v[x]) \in BOOLEAN /\ v[x].reason \in Reasons
           /\ Count(v[x].monitors, t) \in Nat /\ Count(v[x].left, t) \in Nat
           /\ v[t].portClosed \in BOOLEAN
           /\ v[t].stream \in Seq(Event) /\ v[t].events \in Seq(Event) /\ Queue(v[t]) \in Seq(Event)
           /\ Fit(v[x], x, next)
           /\ x \in Nat /\ t \in Nat
<1>1. Fit(v[x], x, next) /\ Fit(v[t], t, next) /\ Settled(v[x], x, l, next, s, sn)
  BY DEF Well
<1>2. sn[x][t] \in Nat
  BY DEF Well
<1>3. OnItsWay(v[x], t) \in {0, 1} /\ OnItsWay(v[x], t) <= sn[x][t]
  <2>1. CASE v[x].pc = "pickling" /\ v[x].target = t
    <3>1. sn[x][t] > 0
      BY <1>1, <2>1 DEF Settled
    <3> QED BY <1>2, <2>1, <3>1 DEF OnItsWay, Bit
  <2>2. CASE ~(v[x].pc = "pickling" /\ v[x].target = t)
    BY <1>2, <2>2 DEF OnItsWay, Bit
  <2> QED BY <2>1, <2>2
<1>4. Count(v[x].monitors, t) \in Nat /\ Count(v[x].left, t) \in Nat
  BY <1>1, CountType DEF Fit, Typed
<1>5. Queue(v[t]) \in Seq(Event)
  BY <1>1, StreamType DEF Fit, Typed, Queue
<1>6. x \in Nat /\ t \in Nat
  BY DEF Machines
<1> QED BY <1>1, <1>2, <1>3, <1>4, <1>5, <1>6 DEF Fit, Typed, Over

\* A port is closed.
LEMMA ClosedChange ==
    ASSUME NEW v, NEW l, NEW next, NEW s, NEW sn, Well(v, l, next, s, sn), LinkedAll(v, sn),
           NEW m \in Machines, NEW v2, NEW new, Changed(v, v2, m, new), SameSender(v[m], new),
           new.portClosed = TRUE, new.stream = v[m].stream, Queue(new) = Queue(v[m])
    PROVE  LinkedAll(v2, sn)
<1>1. ASSUME NEW x \in Machines, NEW t \in Machines PROVE Linked(v2[x], v2[t], x, t, sn[x][t])
  <2>1. SameEnd(v[x], v2[x]) /\ OnItsWay(v2[x], t) = OnItsWay(v[x], t)
    BY SameIsQuiet, SenderParts DEF Changed
  <2>2. Linked(v[x], v[t], x, t, sn[x][t])
    BY DEF LinkedAll
  <2>3. CASE t # m
    BY <2>1, <2>2, <2>3, QuietPair, SameIsQuiet DEF Changed
  <2>4. CASE t = m
    <3>1. PICK w, o, r, a, b, c, e, q, n :
             /\ w = OnItsWay(v[x], t) /\ o = Over(v[x]) /\ r = v[x].reason
             /\ a = Count(v[x].monitors, t) /\ b = Count(v[x].left, t)
             /\ c = v[t].portClosed /\ e = v[t].stream /\ q = Queue(v[t]) /\ n = sn[x][t]
      OBVIOUS
    <3>2. Link(w, o, r, a, b, c, e, q, x, n)
      BY <2>2, <3>1 DEF Linked
    <3>3. /\ w \in {0, 1} /\ w <= n /\ n \in Nat /\ c \in BOOLEAN
          /\ e \in Seq(Event) /\ q \in Seq(Event)
      BY <3>1, PairTypes
    <3>4. Link(w, o, r, a, b, TRUE, e, q, x, n)
      BY <3>2, <3>3, LinkCloses
    <3>5. Linked(v[x], new, x, t, n)
      BY <2>4, <3>1, <3>4 DEF Linked
    <3>6. SameReceiver(new, v2[t])
      BY <2>4, SameIsQuiet DEF Changed
    <3> QED BY <2>1, <3>1, <3>5, <3>6, QuietPair
  <2> QED BY <2>3, <2>4
<1> QED BY <1>1 DEF LinkedAll

\* The port is closed, and the stream counts no more.
LEMMA CloseStreamKeeps ==
    ASSUME IInv, EInv, NEW m \in Machines, CloseStream(m) PROVE EInv'
<1>1. PICK old : old = vm[m]
  OBVIOUS
<1>2. old.pc = "running" /\ ~old.portClosed /\ IsMachine(old)
  BY <1>1 DEF CloseStream, Runs, IInv, AreMachines
<1>3. /\ m < nextVM /\ m \in listed /\ Fit(old, m, nextVM) /\ Balanced(old, started[m])
      /\ started \in [Machines -> [IOs -> Nat]]
  BY <1>1, <1>2, ThereFacts
<1>4. PICK n \in Nat, d \in {0, 1} :
         /\ n = 2 * started[m]["read"] + started[m]["write"] + NodesReleased(old.events)
         /\ d = Bit(old.streamAsked)
  <2>1. NodesReleased(old.events) \in Nat
    BY <1>3, ReleasedConcat DEF Fit, Typed
  <2>2. started[m]["read"] \in Nat /\ started[m]["write"] \in Nat
    BY <1>3 DEF IOs
  <2> QED BY <2>1, <2>2 DEF Bit
<1>5. old.asyncIONodes = n + d /\ old.asyncIONodes - d = n
  BY <1>2, <1>3, <1>4 DEF Balanced
<1>6. PICK new : new = [old EXCEPT !.portClosed = TRUE, !.asyncIONodes = n]
  OBVIOUS
<1>7. /\ new.pc = old.pc /\ new.events = old.events /\ new.monitors = old.monitors
      /\ new.left = old.left /\ new.portClosed = TRUE /\ new.stream = old.stream
      /\ new.reason = old.reason /\ new.status = old.status /\ new.target = old.target
      /\ new.streamAsked = old.streamAsked /\ new.asyncIONodes = n
  BY <1>2, <1>6 DEF IsMachine
<1>8. Changed(vm, vm', m, new)
  <2>1. vm' = [vm EXCEPT ![m] = [old EXCEPT !.portClosed = TRUE, !.asyncIONodes = old.asyncIONodes - d]]
    BY <1>1, <1>2, <1>4 DEF CloseStream, IInv, AreMachines, IsMachine
  <2> QED BY <1>5, <1>6, <2>1 DEF IInv, AreMachines, Changed
<1>9. Fit(new, m, nextVM)
  <2>1. Typed(new) /\ ~Over(new)
    BY <1>2, <1>3, <1>7 DEF Fit, Typed, Over
  <2> QED BY <1>2, <1>3, <1>7, <2>1 DEF Fit
<1>10. Balanced(new, started[m])
  BY <1>4, <1>7 DEF Balanced
<1>11. SameSender(old, new) /\ Queue(new) = Queue(old)
  BY <1>2, <1>7 DEF SameSender, SameEnd, Over, Queue
<1>12. UNCHANGED <<listed, nextVM, started, sent>>
  BY DEF CloseStream
<1>13. Well(vm', listed, nextVM, started, sent)
  <2>1. Well(vm, listed, nextVM, started, sent)
    BY DEF EInv
  <2>2. sent \in [Machines -> [Machines -> Nat]]
    BY <2>1 DEF Well
  <2>3. MoreSent(sent, sent, nextVM)
    BY <2>2, NothingSent
  <2> QED BY <1>2, <1>3, <1>7, <1>8, <1>9, <2>1, <2>2, <2>3, WellChange
<1>14. Counting(vm', listed, started)
  <2>1. listed \subseteq Machines
    BY DEF EInv, Well
  <2> QED BY <1>8, <1>10, <2>1 DEF EInv, Counting, Changed
<1>15. LinkedAll(vm', sent)
  BY <1>1, <1>7, <1>8, <1>11, ClosedChange DEF EInv
<1> QED BY <1>12, <1>13, <1>14, <1>15 DEF EInv

-----------------------------------------------------------------------------
(* A machine ends, and a machine is created *)

\* A change that Well allows, when only the machines change.
LEMMA WellSame ==
    ASSUME EInv, NEW m \in Machines, m < nextVM, NEW new, NEW v2, Changed(vm, v2, m, new),
           Fit(new, m, nextVM), m \in listed, new.pc # "pickling"
    PROVE  Well(v2, listed, nextVM, started, sent)
<1>1. Well(vm, listed, nextVM, started, sent)
  BY DEF EInv
<1>2. sent \in [Machines -> [Machines -> Nat]] /\ started \in [Machines -> [IOs -> Nat]]
  BY <1>1 DEF Well
<1>3. MoreSent(sent, sent, nextVM)
  BY <1>2, NothingSent
<1> QED BY <1>1, <1>2, <1>3, WellChange

\* Only the balance of the machine that changes has to be shown.
LEMMA CountingChange ==
    ASSUME EInv, NEW m \in Machines, NEW new, NEW v2, Changed(vm, v2, m, new),
           m \in listed => Balanced(new, started[m])
    PROVE  Counting(v2, listed, started)
<1>1. listed \subseteq Machines
  BY DEF EInv, Well
<1> QED BY <1>1 DEF EInv, Counting, Changed

\* A machine ends: its monitors are to be told, and nobody has been.
LEMMA EndedChange ==
    ASSUME NEW v, NEW l, NEW next, NEW s, NEW sn, Well(v, l, next, s, sn), LinkedAll(v, sn),
           NEW m \in Machines, NEW v2, NEW new, Changed(v, v2, m, new), SameReceiver(v[m], new),
           ~Over(v[m]), v[m].pc # "pickling", Over(new),
           new.reason = v[m].reason, new.monitors = v[m].monitors, new.left = v[m].monitors
    PROVE  LinkedAll(v2, sn)
<1>1. ASSUME NEW x \in Machines, NEW t \in Machines PROVE Linked(v2[x], v2[t], x, t, sn[x][t])
  <2>1. SameReceiver(v[t], v2[t])
    BY SameIsQuiet DEF Changed
  <2>2. Linked(v[x], v[t], x, t, sn[x][t])
    BY DEF LinkedAll
  <2>3. CASE x # m
    BY <2>1, <2>2, <2>3, QuietPair, SameIsQuiet, SenderParts DEF Changed
  <2>4. CASE x = m
    <3>1. PICK w, r, a, b, c, e, q, n :
             /\ w = OnItsWay(v[x], t) /\ r = v[x].reason
             /\ a = Count(v[x].monitors, t) /\ b = Count(v[x].left, t)
             /\ c = v[t].portClosed /\ e = v[t].stream /\ q = Queue(v[t]) /\ n = sn[x][t]
      OBVIOUS
    <3>2. Over(v[x]) = FALSE /\ Over(new) = TRUE
      BY <2>4 DEF Over
    <3>3. Link(w, FALSE, r, a, b, c, e, q, x, n)
      BY <2>2, <3>1, <3>2 DEF Linked
    <3>4. /\ r \in Reasons /\ a \in Nat /\ c \in BOOLEAN
          /\ e \in Seq(Event) /\ q \in Seq(Event)
      BY <3>1, PairTypes
    <3>5. Link(w, TRUE, r, a, a, c, e, q, x, n)
      BY <3>3, <3>4, LinkEnds
    <3>6. OnItsWay(new, t) = w
      BY <2>4, <3>1 DEF OnItsWay, Over
    <3>7. Linked(new, v[t], x, t, n)
      BY <2>4, <3>1, <3>2, <3>5, <3>6 DEF Linked
    <3>8. v2[x] = new
      BY <2>4 DEF Changed
    <3> QED BY <2>1, <3>1, <3>7, <3>8, QuietPair, SameIsQuiet, SenderParts
  <2> QED BY <2>3, <2>4
<1> QED BY <1>1 DEF LinkedAll

\* The port is closed, and the monitors are to be told.
LEMMA TerminateKeeps ==
    ASSUME IInv, EInv, NEW m \in Machines, TerminateVM(m) PROVE EInv'
<1>1. PICK old : old = vm[m]
  OBVIOUS
<1>2. old.pc = "ending" /\ IsMachine(old)
  BY <1>1 DEF TerminateVM, IInv, AreMachines
<1>3. /\ m < nextVM /\ m \in listed /\ Fit(old, m, nextVM) /\ Balanced(old, started[m])
      /\ started \in [Machines -> [IOs -> Nat]]
  BY <1>1, <1>2, ThereFacts
\* the port is closed,
<1>4. PICK mid : mid = [old EXCEPT !.portClosed = TRUE]
  OBVIOUS
<1>5. /\ mid.pc = old.pc /\ mid.events = old.events /\ mid.monitors = old.monitors
      /\ mid.left = old.left /\ mid.portClosed = TRUE /\ mid.stream = old.stream
      /\ mid.reason = old.reason /\ mid.status = old.status /\ mid.target = old.target
      /\ mid.streamAsked = old.streamAsked /\ mid.asyncIONodes = old.asyncIONodes
  BY <1>2, <1>4 DEF IsMachine
<1>6. PICK v : v = [vm EXCEPT ![m] = mid]
  OBVIOUS
<1>7. Changed(vm, v, m, mid)
  BY <1>6 DEF IInv, AreMachines, Changed
<1>8. Fit(mid, m, nextVM)
  <2>1. Typed(mid) /\ ~Over(mid)
    BY <1>2, <1>3, <1>5 DEF Fit, Typed, Over
  <2> QED BY <1>2, <1>3, <1>5, <2>1 DEF Fit
<1>9. Balanced(mid, started[m])
  <2>1. PICK n \in Nat, d \in {0, 1} :
         /\ n = 2 * started[m]["read"] + started[m]["write"] + NodesReleased(old.events)
         /\ d = Bit(old.streamAsked)
    <3>1. NodesReleased(old.events) \in Nat
      BY <1>3, ReleasedConcat DEF Fit, Typed
    <3>2. started[m]["read"] \in Nat /\ started[m]["write"] \in Nat
      BY <1>3 DEF IOs
    <3> QED BY <3>1, <3>2 DEF Bit
  <2>2. old.asyncIONodes \in {n, n + d}
    BY <1>3, <2>1 DEF Balanced
  <2> QED BY <1>5, <2>1, <2>2 DEF Balanced
<1>10. SameSender(old, mid) /\ Queue(mid) = Queue(old)
  BY <1>2, <1>5 DEF SameSender, SameEnd, Over, Queue
<1>11. Well(v, listed, nextVM, started, sent)
  BY <1>2, <1>3, <1>5, <1>7, <1>8, WellSame
<1>12. LinkedAll(v, sent)
  BY <1>1, <1>5, <1>7, <1>10, ClosedChange DEF EInv
\* and the monitors are to be told.
<1>13. PICK new : new = [old EXCEPT !.pc = "notifying", !.portClosed = TRUE, !.left = old.monitors]
  OBVIOUS
<1>14. /\ new.pc = "notifying" /\ new.events = old.events /\ new.monitors = old.monitors
       /\ new.left = old.monitors /\ new.portClosed = TRUE /\ new.stream = old.stream
       /\ new.reason = old.reason /\ new.status = old.status /\ new.target = old.target
       /\ new.streamAsked = old.streamAsked /\ new.asyncIONodes = old.asyncIONodes
  BY <1>2, <1>13 DEF IsMachine
<1>15. Changed(vm, vm', m, new) /\ Changed(v, vm', m, new)
  <2>1. vm' = [vm EXCEPT ![m] = new]
    BY <1>1, <1>13 DEF TerminateVM, IInv, AreMachines
  <2> QED BY <1>6, <2>1 DEF IInv, AreMachines, Changed
<1>16. Fit(new, m, nextVM)
  <2>1. Typed(new)
    BY <1>2, <1>3, <1>14 DEF Fit, Typed, Pcs
  <2> QED BY <1>2, <1>3, <1>14, <2>1 DEF Fit
<1>17. Balanced(new, started[m])
  BY <1>5, <1>9, <1>14 DEF Balanced
<1>18. Well(vm', listed, nextVM, started, sent)
  BY <1>3, <1>14, <1>15, <1>16, WellSame
<1>19. Counting(vm', listed, started)
  BY <1>15, <1>17, CountingChange
<1>20. LinkedAll(vm', sent)
  <2>1. v[m] = mid /\ SameReceiver(mid, new) /\ ~Over(mid) /\ mid.pc # "pickling" /\ Over(new)
    BY <1>2, <1>5, <1>7, <1>14 DEF Changed, SameReceiver, Queue, Over
  <2>2. new.reason = mid.reason /\ new.monitors = mid.monitors /\ new.left = mid.monitors
    BY <1>5, <1>14
  <2> QED BY <1>11, <1>12, <1>15, <2>1, <2>2, EndedChange
<1>21. UNCHANGED <<listed, nextVM, started, sent>>
  BY DEF TerminateVM
<1> QED BY <1>18, <1>19, <1>20, <1>21 DEF EInv

\* A machine is created: nobody has said anything to it or heard of it.
LEMMA NewKeeps ==
    ASSUME IInv, EInv, NEW m \in Machines, New(m) PROVE EInv'
<1>1. PICK n, new : n = nextVM /\ new = NewMachine(m, n)
  OBVIOUS
<1>2. vm[m].pc = "running" /\ m < n
  BY <1>1, ThereFacts DEF New, Runs
<1>3. n \in Machines /\ n \in Nat /\ m \in Nat /\ m # n
  BY <1>1, <1>2, EnvironmentAssumption
     DEF New, EInv, Well, Machines, IInv, Numbered, InitialVMIdentifier
<1>4. Fit(vm[n], n, n) /\ Settled(vm[n], n, listed, n, started, sent)
  BY <1>1, <1>3 DEF EInv, Well
<1>5. /\ vm[n] = NoMachine /\ n \notin listed
      /\ \A k \in IOs : started[n][k] = 0
      /\ \A x \in Machines : sent[x][n] = 0
  BY <1>3, <1>4 DEF Settled
<1>6. /\ new.pc = "running" /\ new.events = << >> /\ new.monitors = <<m>> /\ new.left = << >>
      /\ new.portClosed = FALSE /\ new.streamAsked = FALSE /\ new.stream = << >>
      /\ new.asyncIONodes = 0 /\ new.reason = "normal" /\ new.status = 0
  BY <1>1, <1>3 DEF NewMachine
<1>7. /\ vm[n].pc = "none" /\ vm[n].events = << >> /\ vm[n].portClosed = FALSE /\ vm[n].stream = << >>
  BY <1>5 DEF NoMachine, NewMachine
<1>8. Changed(vm, vm', n, new)
  BY <1>1, <1>3 DEF New, IInv, AreMachines, Changed
<1>9. /\ listed' = listed \cup {n} /\ nextVM' = n + 1
      /\ started' = started /\ sent' = sent
  BY <1>1 DEF New
<1>10. Fit(new, n, n + 1)
  <2>1. Typed(new) /\ ~Over(new)
    <3>1. << >> \in Seq(Event) /\ <<m>> \in Seq(Nat) /\ << >> \in Seq(Nat)
      BY <1>3
    <3>2. /\ new.events \in Seq(Event) /\ new.stream \in Seq(Event)
          /\ new.monitors \in Seq(Nat) /\ new.left \in Seq(Nat)
      BY <1>6, <3>1
    <3>3. new.pc \in Pcs /\ new.reason \in Reasons /\ ~Over(new)
      BY <1>6 DEF Pcs, Reasons, Over
    <3>4. /\ new.portClosed \in BOOLEAN /\ new.streamAsked \in BOOLEAN
          /\ new.asyncIONodes \in Nat /\ new.status \in {0, 1}
      <4>1. new.portClosed \in BOOLEAN /\ new.streamAsked \in BOOLEAN
        BY <1>6, Zenon
      <4>2. new.asyncIONodes \in Nat /\ new.status \in {0, 1}
        BY <1>6
      <4> QED BY <4>1, <4>2
    <3> QED BY <3>2, <3>3, <3>4 DEF Typed
  <2>2. Len(<<m>>) = 1 /\ <<m>>[1] = m /\ Len(<< >>) = 0 /\ 1..0 = {} /\ 1..1 = {1}
    OBVIOUS
  <2>3. Peer(m, n, n + 1)
    BY <1>2, <1>3 DEF Peer
  <2> QED BY <1>3, <1>6, <2>1, <2>2, <2>3 DEF Fit
<1>11. ASSUME NEW x \in Machines
       PROVE  Fit(vm'[x], x, n + 1) /\ Settled(vm'[x], x, listed \cup {n}, n + 1, started, sent)
  <2>1. x \in Nat
    BY DEF Machines
  <2>2. CASE x = n
    <3>1. vm'[x] = new
      BY <1>8, <2>2 DEF Changed
    <3> QED BY <1>3, <1>6, <1>10, <2>2, <3>1 DEF Settled
  <2>3. CASE x # n
    <3>1. vm'[x] = vm[x]
      BY <1>8, <2>3 DEF Changed
    <3>2. Fit(vm[x], x, n) /\ Settled(vm[x], x, listed, n, started, sent)
      BY <1>1 DEF EInv, Well
    <3>3. x < n + 1 <=> x < n
      BY <1>3, <2>1, <2>3
    <3>4. \A y : Peer(y, x, n) => Peer(y, x, n + 1)
      BY <1>3 DEF Peer, Machines
    <3>5. \A e : Sane(e, x, n) => Sane(e, x, n + 1)
      BY <3>4 DEF Sane
    <3>6. Fit(vm[x], x, n + 1)
      BY <3>2, <3>3, <3>4, <3>5 DEF Fit
    <3>7. Settled(vm[x], x, listed \cup {n}, n + 1, started, sent)
      <4>1. x \in listed \cup {n} <=> x \in listed
        BY <2>3
      <4>2. x >= n + 1 => x >= n
        BY <1>3, <2>1
      <4>3. vm[x].pc = "pickling" =>
              vm[x].target \in Machines /\ vm[x].target < n + 1 /\ sent[x][vm[x].target] > 0
        BY <1>3, <3>2 DEF Settled, Machines
      <4> QED BY <3>2, <3>3, <4>1, <4>2, <4>3 DEF Settled
    <3> QED BY <3>1, <3>6, <3>7
  <2> QED BY <2>2, <2>3
<1>12. Well(vm', listed', nextVM', started', sent')
  <2>1. listed \cup {n} \subseteq Machines /\ n + 1 \in Nat
    BY <1>3 DEF EInv, Well
  <2>2. started \in [Machines -> [IOs -> Nat]] /\ sent \in [Machines -> [Machines -> Nat]]
    BY DEF EInv, Well
  <2> QED BY <1>9, <1>11, <2>1, <2>2 DEF Well
<1>13. Counting(vm', listed', started')
  <2>1. Balanced(new, started[n])
    <3>1. NodesReleased(new.events) = 0
      BY <1>6, ReleasedOne
    <3>2. started[n]["read"] = 0 /\ started[n]["write"] = 0
      BY <1>5 DEF IOs
    <3> QED BY <1>6, <3>1, <3>2 DEF Balanced, Bit
  <2>2. listed \subseteq Machines
    BY DEF EInv, Well
  <2> QED BY <1>5, <1>8, <1>9, <2>1, <2>2 DEF EInv, Counting, Changed
<1>14. LinkedAll(vm', sent')
  <2>1. SameSender(vm[n], new) /\ SameReceiver(vm[n], new)
    BY <1>6, <1>7 DEF SameSender, SameEnd, SameReceiver, Over, Queue
  <2> QED BY <1>3, <1>8, <1>9, <2>1, QuietChange DEF EInv
<1> QED BY <1>12, <1>13, <1>14 DEF EInv

-----------------------------------------------------------------------------
(* A message is sent, and events are handled *)

\* A message is pickled: it is on its way, unless the port is closed.
LEMMA SendKeeps ==
    ASSUME IInv, EInv, NEW m \in Machines, NEW t \in Machines, Send(m, t) PROVE EInv'
<1>1. PICK old : old = vm[m]
  OBVIOUS
<1>2. old.pc = "running" /\ IsMachine(old)
  BY <1>1 DEF Send, Runs, IInv, AreMachines
<1>3. /\ m < nextVM /\ m \in listed /\ Fit(old, m, nextVM) /\ Balanced(old, started[m])
      /\ started \in [Machines -> [IOs -> Nat]]
  BY <1>1, <1>2, ThereFacts
<1>4. t < nextVM /\ t \in Nat /\ nextVM \in Nat
  BY DEF Send, Valid, Machines, EInv, Well
<1>5. sent \in [Machines -> [Machines -> Nat]] /\ Well(vm, listed, nextVM, started, sent)
  BY DEF EInv, Well
<1>6. PICK n \in Nat : n = sent[m][t]
  BY <1>5
<1>7. /\ sent' \in [Machines -> [Machines -> Nat]] /\ sent'[m][t] = n + 1
      /\ \A x, y \in Machines : x # m \/ y # t => sent'[x][y] = sent[x][y]
  BY <1>5, <1>6 DEF Send
<1>8. \A x, y \in Machines : sent[x][y] <= sent'[x][y] /\ (y >= nextVM => sent'[x][y] = sent[x][y])
  <2>1. ASSUME NEW x \in Machines, NEW y \in Machines
        PROVE  sent[x][y] <= sent'[x][y] /\ (y >= nextVM => sent'[x][y] = sent[x][y])
    <3>1. CASE x = m /\ y = t
      BY <1>4, <1>6, <1>7, <3>1
    <3>2. CASE ~(x = m /\ y = t)
      <4>1. sent'[x][y] = sent[x][y] /\ sent[x][y] \in Nat
        BY <1>5, <1>7, <3>2
      <4> QED BY <4>1
    <3> QED BY <3>1, <3>2
  <2> QED BY <2>1
<1>9. UNCHANGED <<listed, nextVM, started>>
  BY DEF Send
<1>10. PICK new : new = [old EXCEPT !.pc = "pickling", !.target = t]
  OBVIOUS
<1>11. /\ new.pc = "pickling" /\ new.events = old.events /\ new.monitors = old.monitors
       /\ new.left = old.left /\ new.portClosed = old.portClosed /\ new.stream = old.stream
       /\ new.reason = old.reason /\ new.status = old.status /\ new.target = t
       /\ new.streamAsked = old.streamAsked /\ new.asyncIONodes = old.asyncIONodes
  BY <1>2, <1>10 DEF IsMachine
<1>12. PICK r : r = IF t \notin listed \/ vm[t].portClosed THEN old ELSE new
  OBVIOUS
<1>13. Changed(vm, vm', m, r)
  <2>1. CASE t \notin listed \/ vm[t].portClosed
    <3>1. vm' = vm /\ r = old
      BY <1>12, <2>1 DEF Send
    <3> QED BY <1>1, <3>1 DEF Changed
  <2>2. CASE ~(t \notin listed \/ vm[t].portClosed)
    <3>1. r = new /\ vm' = [vm EXCEPT ![m] = new]
      BY <1>1, <1>2, <1>10, <1>12, <2>2 DEF Send, IInv, AreMachines, IsMachine
    <3> QED BY <3>1 DEF IInv, AreMachines, Changed
  <2> QED BY <2>1, <2>2
<1>14. Fit(r, m, nextVM) /\ ~Over(old) /\ ~Over(r)
  <2>1. Typed(new) /\ ~Over(new) /\ ~Over(old)
    BY <1>2, <1>3, <1>11 DEF Fit, Typed, Over, Pcs
  <2>2. Fit(new, m, nextVM)
    BY <1>2, <1>3, <1>11, <2>1 DEF Fit
  <2> QED BY <1>3, <1>12, <2>1, <2>2
<1>15. r.pc = "pickling" => r.target \in Machines /\ r.target < nextVM /\ sent'[m][r.target] > 0
  BY <1>2, <1>4, <1>6, <1>7, <1>11, <1>12
<1>16. Balanced(r, started[m])
  BY <1>3, <1>11, <1>12 DEF Balanced
<1>17. Well(vm', listed, nextVM, started, sent')
  <2>1. PICK v2, sn2 : v2 = vm' /\ sn2 = sent'
    OBVIOUS
  <2>2. MoreSent(sent, sn2, nextVM)
    BY <1>7, <1>8, <2>1 DEF MoreSent
  <2>3. r.pc = "pickling" => r.target \in Machines /\ r.target < nextVM /\ sn2[m][r.target] > 0
    BY <1>15, <2>1
  <2>4. Changed(vm, v2, m, r)
    BY <1>13, <2>1
  <2>5. Well(v2, listed, nextVM, started, sn2)
    <3>1. /\ Well(vm, listed, nextVM, started, sent) /\ m < nextVM /\ Changed(vm, v2, m, r)
          /\ Fit(r, m, nextVM) /\ (m \notin listed => r.pc \in {"removed", "gone"})
      BY <1>3, <1>5, <1>14, <2>4
    <3>2. /\ listed \subseteq listed /\ \A x \in listed : x # m => x \in listed
          /\ started \in [Machines -> [IOs -> Nat]]
          /\ \A x \in Machines : x # m => started[x] = started[x]
      BY <1>3
    <3> QED BY <2>2, <2>3, <3>1, <3>2, WellChange
  <2> QED BY <2>1, <2>5
<1>18. Counting(vm', listed, started)
  BY <1>13, <1>16, CountingChange
<1>19. ASSUME NEW x \in Machines, NEW y \in Machines PROVE Linked(vm'[x], vm'[y], x, y, sent'[x][y])
  <2>1. SameReceiver(old, r) /\ SameEnd(old, r)
    BY <1>11, <1>12, <1>14 DEF SameReceiver, SameEnd, Queue
  <2>2. SameReceiver(vm[y], vm'[y]) /\ SameEnd(vm[x], vm'[x])
    BY <1>1, <1>13, <2>1, SameIsQuiet, SenderParts DEF Changed
  <2>3. Linked(vm[x], vm[y], x, y, sent[x][y])
    BY DEF EInv, LinkedAll
  <2>4. CASE x = m /\ y = t
    <3>1. PICK w, o, e, a, b, c, s, q :
             /\ w = OnItsWay(vm[x], y) /\ o = Over(vm[x]) /\ e = vm[x].reason
             /\ a = Count(vm[x].monitors, y) /\ b = Count(vm[x].left, y)
             /\ c = vm[y].portClosed /\ s = vm[y].stream /\ q = Queue(vm[y])
      OBVIOUS
    <3>2. Link(w, o, e, a, b, c, s, q, x, n)
      BY <1>6, <2>3, <2>4, <3>1 DEF Linked
    <3>3. w = 0 /\ s \in Seq(Event)
      BY <1>1, <1>2, <1>5, <2>4, <3>1, PairTypes DEF OnItsWay, Bit
    <3>4. PICK w2 : w2 = OnItsWay(r, y)
      OBVIOUS
    <3>5. c \/ (n + 1) - w2 = n - w
      <4>1. CASE t \notin listed
        <5>1. Over(vm[t]) /\ Fit(vm[t], t, nextVM)
          BY <1>4, <1>5, <4>1 DEF Well, Settled, Over
        <5> QED BY <2>4, <3>1, <5>1 DEF Fit
      <4>2. CASE t \in listed /\ ~vm[t].portClosed
        <5>1. w2 = 1
          BY <1>11, <1>12, <2>4, <3>4, <4>2 DEF OnItsWay, Bit
        <5> QED BY <3>3, <5>1
      <4> QED BY <2>4, <3>1, <4>1, <4>2
    <3>6. Link(w2, o, e, a, b, c, s, q, x, n + 1)
      BY <3>2, <3>3, <3>5, LinkRelabelled
    <3>7. Over(r) = o /\ o = FALSE
      <4>1. ~Over(vm[x])
        BY <1>1, <1>14, <2>4
      <4>2. Over(r) = FALSE /\ Over(vm[x]) = FALSE
        BY <1>14, <4>1 DEF Over
      <4> QED BY <3>1, <4>2
    <3>8. r.reason = e /\ r.monitors = vm[x].monitors /\ r.left = vm[x].left
      BY <1>1, <1>11, <1>12, <2>4, <3>1
    <3>9. Linked(r, vm[y], x, y, n + 1)
      BY <3>1, <3>4, <3>6, <3>7, <3>8 DEF Linked
    <3>10. vm'[x] = r /\ sent'[x][y] = n + 1
      BY <1>7, <1>13, <2>4 DEF Changed
    <3> QED BY <2>2, <3>9, <3>10, QuietPair, SameIsQuiet, SenderParts
  <2>5. CASE ~(x = m /\ y = t)
    <3>1. sent'[x][y] = sent[x][y]
      BY <1>7, <2>5
    <3>2. OnItsWay(vm'[x], y) = OnItsWay(vm[x], y)
      <4>1. CASE x = m
        <5>1. OnItsWay(old, y) = 0 /\ OnItsWay(r, y) = 0
          BY <1>2, <1>11, <1>12, <2>5, <4>1 DEF OnItsWay, Bit
        <5> QED BY <1>1, <1>13, <4>1, <5>1 DEF Changed
      <4>2. CASE x # m
        BY <1>13, <4>2 DEF Changed
      <4> QED BY <4>1, <4>2
    <3> QED BY <2>2, <2>3, <3>1, <3>2, QuietPair
  <2> QED BY <2>4, <2>5
<1> QED BY <1>9, <1>17, <1>18, <1>19 DEF EInv, LinkedAll

\* The events that are handled are the first ones, and only the last one of
\* them may request termination.
LEMMA HandledFirst ==
    ASSUME NEW s \in Seq(Event), s # << >>
    PROVE  \E p \in Seq(Event), q \in Seq(Event) :
              /\ Handled(s) = p /\ s = p \o q /\ Len(p) > 0
              /\ SubSeq(s, Len(p) + 1, Len(s)) = q
<1>1. Len(s) \in Nat /\ Len(s) > 0
  BY LenProperties, EmptySeq
<1>2. ASSUME NEW k \in 1..Len(s), Handled(s) = SubSeq(s, 1, k)
      PROVE  \E p \in Seq(Event), q \in Seq(Event) :
              /\ Handled(s) = p /\ s = p \o q /\ Len(p) > 0
              /\ SubSeq(s, Len(p) + 1, Len(s)) = q
  <2>1. PICK p, q : p = SubSeq(s, 1, k) /\ q = SubSeq(s, k + 1, Len(s))
    OBVIOUS
  <2>2. p \in Seq(Event) /\ Len(p) = k
    <3>1. \A i \in 1..k : s[i] \in Event
      BY <1>1, ElementOfSeq
    <3> QED BY <1>1, <2>1, <3>1, SubSeqProperties
  <2>3. q \in Seq(Event)
    BY <1>1, <2>1, SubSeqProperties
  <2>4. s = p \o q
    <3>1. SubSeq(s, 1, Len(s)) = s
      BY SubSeqFull
    <3>2. SubSeq(s, 1, k) \o SubSeq(s, k + 1, Len(s)) = SubSeq(s, 1, Len(s))
      BY <1>1, ConcatAdjacentSubSeq
    <3> QED BY <2>1, <3>1, <3>2
  <2>5. SubSeq(s, Len(p) + 1, Len(s)) = q /\ Handled(s) = p /\ Len(p) > 0
    BY <1>2, <2>1, <2>2
  <2> QED BY <2>2, <2>3, <2>4, <2>5
<1>3. CASE \E i \in 1..Len(s) : IsKill(s[i])
  <2>1. PICK T : T = {i \in 1..Len(s) : IsKill(s[i])}
    OBVIOUS
  <2>2. T \in SUBSET Nat /\ T # {}
    BY <1>3, <2>1
  <2>3. PICK k \in T : \A i \in T : k <= i
    BY <2>2, LeastNatural
  <2>4. k \in 1..Len(s) /\ IsKill(s[k]) /\ \A j \in 1..(k - 1) : ~IsKill(s[j])
    BY <1>1, <2>1, <2>3
  <2>5. PICK c \in 1..Len(s) : c = CHOOSE i \in 1..Len(s) :
                         IsKill(s[i]) /\ \A j \in 1..(i - 1) : ~IsKill(s[j])
    BY <2>4
  <2>6. Handled(s) = SubSeq(s, 1, c)
    BY <1>3, <2>5 DEF Handled
  <2> QED BY <1>2, <2>6
<1>4. CASE ~\E i \in 1..Len(s) : IsKill(s[i])
  <2>1. Handled(s) = s /\ SubSeq(s, 1, Len(s)) = s
    BY <1>4, SubSeqFull DEF Handled
  <2>2. Len(s) \in 1..Len(s)
    BY <1>1
  <2> QED BY <1>2, <2>1, <2>2
<1> QED BY <1>3, <1>4

\* What machine r becomes when it has handled the events p, and q remain.
BecomesAfter(r, new, p, q) ==
    /\ new.events = q
    /\ new.stream = Received(r, Those(p, ForStream))
    /\ \E f \in Seq(Nat) :
          /\ new.monitors = r.monitors \o f
          /\ \A j \in 1..Len(f) : \E i \in 1..Len(p) : IsMonitor(p[i]) /\ f[j] = p[i].from
    /\ new.asyncIONodes = r.asyncIONodes - NodesReleased(p)
    /\ new.reason = r.reason \/ (IsKill(p[Len(p)]) /\ new.reason = p[Len(p)].about)
    /\ new.status = r.status \/ new.status \in {0, 1}
    /\ new.pc \in {"running", "ending"}
    /\ new.left = r.left /\ new.portClosed = r.portClosed /\ new.streamAsked = r.streamAsked
    /\ new.target = r.target

\* The fields of AfterEvents.
LEMMA AfterFields ==
    ASSUME NEW r, IsMachine(r), Typed(r), NEW p \in Seq(Event), NEW q \in Seq(Event), Len(p) > 0,
           SubSeq(r.events, Len(p) + 1, Len(r.events)) = q
    PROVE  BecomesAfter(r, AfterEvents(r, p), p, q)
<1>0. PICK new : new = AfterEvents(r, p)
  OBVIOUS
<1>1. PICK froms : froms = Those(p, IsMonitor)
  OBVIOUS
<1>2. PICK I : I = {i \in 1..Len(p) : IsMonitor(p[i])}
  OBVIOUS
<1>3. froms = Select(p, I)
  BY <1>1, <1>2 DEF Those
<1>4. froms \in Seq(Event) /\ \A j \in 1..Len(froms) : \E i \in 1..Len(p) : i \in I /\ froms[j] = p[i]
  <2>1. /\ Select(p, I) \in Seq(Event)
        /\ \A j \in 1..Len(Select(p, I)) : \E i \in 1..Len(p) : i \in I /\ Select(p, I)[j] = p[i]
    BY SelectElements
  <2> QED BY <1>3, <2>1
<1>5. PICK f : f = [i \in 1..Len(froms) |-> froms[i].from]
  OBVIOUS
<1>6. Len(froms) \in Nat
  BY <1>4, LenProperties
<1>7. \A i \in 1..Len(froms) : froms[i].from \in Nat
  <2>1. ASSUME NEW i \in 1..Len(froms) PROVE froms[i].from \in Nat
    <3>1. froms[i] \in Event
      BY <1>4, ElementOfSeq
    <3> QED BY <3>1 DEF Event
  <2> QED BY <2>1
<1>8. f \in Seq(Nat) /\ Len(f) = Len(froms)
  BY <1>5, <1>6, <1>7, IsASeq, LenProperties
<1>9. \A j \in 1..Len(f) : \E i \in 1..Len(p) : IsMonitor(p[i]) /\ f[j] = p[i].from
  BY <1>2, <1>4, <1>5, <1>8
<1>10. PICK killed \in BOOLEAN : killed = (Len(p) > 0 /\ IsKill(p[Len(p)]))
  BY DEF IsKill
<1>11. PICK a, b, c, d, e, g, h :
          /\ a = SubSeq(r.events, Len(p) + 1, Len(r.events))
          /\ b = Received(r, Those(p, ForStream))
          /\ c = r.monitors \o f
          /\ d = r.asyncIONodes - NodesReleased(p)
          /\ e = (IF killed THEN p[Len(p)].about ELSE r.reason)
          /\ g = (IF killed THEN Bit(p[Len(p)].about = "normal") ELSE r.status)
          /\ h = (IF killed THEN "ending" ELSE "running")
  OBVIOUS
<1>12. new = [r EXCEPT !.events = a, !.stream = b, !.monitors = c, !.asyncIONodes = d,
                       !.reason = e, !.status = g, !.pc = h]
  BY <1>0, <1>1, <1>5, <1>10, <1>11, ZenonT(40) DEF AfterEvents, IsMachine
<1>13. /\ new.events = a /\ new.stream = b /\ new.monitors = c /\ new.asyncIONodes = d
       /\ new.reason = e /\ new.status = g /\ new.pc = h
       /\ new.left = r.left /\ new.portClosed = r.portClosed /\ new.streamAsked = r.streamAsked
       /\ new.target = r.target
  BY <1>12 DEF IsMachine
<1>14. g \in {0, 1} \/ g = r.status
  BY <1>11 DEF Bit
<1>15. h \in {"running", "ending"}
  BY <1>11
<1>16. e = r.reason \/ (IsKill(p[Len(p)]) /\ e = p[Len(p)].about)
  BY <1>10, <1>11
<1>17. \E f2 \in Seq(Nat) :
          /\ new.monitors = r.monitors \o f2
          /\ \A j \in 1..Len(f2) : \E i \in 1..Len(p) : IsMonitor(p[i]) /\ f2[j] = p[i].from
  BY <1>8, <1>9, <1>11, <1>13
<1>18. new.status = r.status \/ new.status \in {0, 1}
  BY <1>13, <1>14
<1>19. BecomesAfter(r, new, p, q)
  BY <1>11, <1>13, <1>15, <1>16, <1>17, <1>18 DEF BecomesAfter
<1> QED BY <1>0, <1>19

\* The events p go from the queue to the stream, or are lost at a closed port.
LEMMA HandledLinks ==
    ASSUME NEW v, NEW l, NEW next, NEW s, NEW sn, Well(v, l, next, s, sn), LinkedAll(v, sn),
           NEW m \in Machines, NEW v2, NEW new, Changed(v, v2, m, new), SameSender(v[m], new),
           NEW p \in Seq(Event), NEW q \in Seq(Event), v[m].events = p \o q,
           new.events = q, new.stream = Received(v[m], Those(p, ForStream)),
           new.portClosed = v[m].portClosed
    PROVE  LinkedAll(v2, sn)
<1>1. ASSUME NEW x \in Machines, NEW t \in Machines PROVE Linked(v2[x], v2[t], x, t, sn[x][t])
  <2>1. SameEnd(v[x], v2[x]) /\ OnItsWay(v2[x], t) = OnItsWay(v[x], t)
    BY SameIsQuiet, SenderParts DEF Changed
  <2>2. Linked(v[x], v[t], x, t, sn[x][t])
    BY DEF LinkedAll
  <2>3. CASE t # m
    BY <2>1, <2>2, <2>3, QuietPair, SameIsQuiet DEF Changed
  <2>4. CASE t = m
    <3>1. PICK w, o, r, a, b, c, e, p2, q2, n :
             /\ w = OnItsWay(v[x], t) /\ o = Over(v[x]) /\ r = v[x].reason
             /\ a = Count(v[x].monitors, t) /\ b = Count(v[x].left, t)
             /\ c = v[t].portClosed /\ e = v[t].stream /\ n = sn[x][t]
             /\ p2 = Those(p, ForStream) /\ q2 = Those(q, ForStream)
      OBVIOUS
    <3>2. p2 \in Seq(Event) /\ q2 \in Seq(Event)
      BY <3>1, StreamType
    <3>3. Queue(v[t]) = p2 \o q2 /\ Queue(new) = q2
      BY <2>4, <3>1, StreamConcat DEF Queue
    <3>4. Link(w, o, r, a, b, c, e, p2 \o q2, x, n)
      BY <2>2, <3>1, <3>3 DEF Linked
    <3>5. o \in BOOLEAN /\ c \in BOOLEAN /\ e \in Seq(Event)
      BY <3>1, PairTypes
    <3>6. /\ c => Link(w, o, r, a, b, c, e, q2, x, n)
          /\ ~c => Link(w, o, r, a, b, c, e \o p2, q2, x, n)
      BY <3>2, <3>4, <3>5, LinkHandles
    <3>7. Linked(v[x], new, x, t, n)
      <4>1. CASE c
        <5>1. new.stream = e
          BY <2>4, <3>1, <4>1 DEF Received
        <5> QED BY <2>4, <3>1, <3>3, <3>6, <4>1, <5>1 DEF Linked
      <4>2. CASE ~c
        <5>1. new.stream = e \o p2
          BY <2>4, <3>1, <4>2 DEF Received
        <5> QED BY <2>4, <3>1, <3>3, <3>6, <4>2, <5>1 DEF Linked
      <4> QED BY <4>1, <4>2
    <3>8. SameReceiver(new, v2[t])
      BY <2>4, SameIsQuiet DEF Changed
    <3> QED BY <2>1, <3>1, <3>7, <3>8, QuietPair
  <2> QED BY <2>3, <2>4
<1> QED BY <1>1 DEF LinkedAll

\* A machine handles its events.
LEMMA HandleKeeps ==
    ASSUME IInv, EInv, NEW m \in Machines, HandleEvents(m) PROVE EInv'
<1>1. PICK old : old = vm[m]
  OBVIOUS
<1>2. old.pc = "running" /\ IsMachine(old) /\ old.events # << >>
  BY <1>1 DEF HandleEvents, Runs, IInv, AreMachines
<1>3. /\ m < nextVM /\ m \in listed /\ Fit(old, m, nextVM) /\ Balanced(old, started[m])
      /\ started \in [Machines -> [IOs -> Nat]]
  BY <1>1, <1>2, ThereFacts
<1>4. Typed(old) /\ old.events \in Seq(Event)
  BY <1>3 DEF Fit, Typed
<1>5. PICK p \in Seq(Event), q \in Seq(Event) :
         /\ Handled(old.events) = p /\ old.events = p \o q /\ Len(p) > 0
         /\ SubSeq(old.events, Len(p) + 1, Len(old.events)) = q
  BY <1>2, <1>4, HandledFirst
<1>6. PICK new : new = AfterEvents(old, p)
  OBVIOUS
<1>7. Changed(vm, vm', m, new)
  <2>1. vm' = [vm EXCEPT ![m] = new]
    BY <1>1, <1>5, <1>6 DEF HandleEvents
  <2> QED BY <2>1 DEF IInv, AreMachines, Changed
<1>25. BecomesAfter(old, new, p, q)
  <2>1. BecomesAfter(old, AfterEvents(old, p), p, q)
    BY <1>2, <1>4, <1>5, AfterFields
  <2> QED BY <1>6, <2>1
<1>8. /\ new.events = q
      /\ new.stream = Received(old, Those(p, ForStream))
      /\ \E f \in Seq(Nat) :
            /\ new.monitors = old.monitors \o f
            /\ \A j \in 1..Len(f) : \E i \in 1..Len(p) : IsMonitor(p[i]) /\ f[j] = p[i].from
      /\ new.asyncIONodes = old.asyncIONodes - NodesReleased(p)
      /\ new.reason = old.reason \/ (IsKill(p[Len(p)]) /\ new.reason = p[Len(p)].about)
      /\ new.status = old.status \/ new.status \in {0, 1}
      /\ new.pc \in {"running", "ending"}
      /\ new.left = old.left /\ new.portClosed = old.portClosed /\ new.streamAsked = old.streamAsked
      /\ new.target = old.target
  BY <1>25 DEF BecomesAfter
\* the elements of p and q are events of the old queue
<1>9. /\ \A i \in 1..Len(p) : Sane(p[i], m, nextVM)
      /\ \A i \in 1..Len(q) : Sane(q[i], m, nextVM)
  <2>1. /\ Len(p) \in Nat /\ Len(q) \in Nat /\ Len(p \o q) = Len(p) + Len(q)
        /\ \A i \in 1..Len(p) : (p \o q)[i] = p[i]
        /\ \A i \in 1..Len(q) : (p \o q)[Len(p) + i] = q[i]
    OBVIOUS
  <2>2. \A i \in 1..Len(p \o q) : Sane((p \o q)[i], m, nextVM)
    BY <1>3, <1>5 DEF Fit
  <2>3. \A i \in 1..Len(p) : i \in 1..Len(p \o q)
    BY <2>1
  <2>4. \A i \in 1..Len(q) : Len(p) + i \in 1..Len(p \o q)
    BY <2>1
  <2>5. \A i \in 1..Len(p) : Sane(p[i], m, nextVM)
    BY <2>1, <2>2, <2>3
  <2>6. ASSUME NEW i \in 1..Len(q) PROVE Sane(q[i], m, nextVM)
    <3>1. Sane((p \o q)[Len(p) + i], m, nextVM)
      BY <2>2, <2>4
    <3> QED BY <2>1, <3>1
  <2> QED BY <2>5, <2>6
<1>10. /\ NodesReleased(old.events) = NodesReleased(p) + NodesReleased(q)
       /\ NodesReleased(p) \in Nat /\ NodesReleased(q) \in Nat
  BY <1>5, ReleasedConcat
<1>11. PICK a \in Nat, b \in Nat, c \in Nat, d \in {0, 1} :
          /\ a = 2 * started[m]["read"] + started[m]["write"]
          /\ b = NodesReleased(p) /\ c = NodesReleased(q) /\ d = Bit(old.streamAsked)
  <2>1. started[m]["read"] \in Nat /\ started[m]["write"] \in Nat
    BY <1>3 DEF IOs
  <2> QED BY <1>10, <2>1, SMTT(20) DEF Bit
<1>12. IF old.portClosed THEN old.asyncIONodes \in {a + (b + c), (a + (b + c)) + d}
       ELSE old.asyncIONodes = (a + (b + c)) + d
  BY <1>3, <1>10, <1>11 DEF Balanced
<1>13. PICK k \in Nat : k = old.asyncIONodes
  BY <1>4 DEF Typed
<1>14. /\ new.asyncIONodes \in Nat
       /\ IF old.portClosed THEN new.asyncIONodes \in {a + c, (a + c) + d}
          ELSE new.asyncIONodes = (a + c) + d
  <2>1. new.asyncIONodes = k - b
    BY <1>8, <1>11, <1>13
  <2>2. k = a + (b + c) => k - b = a + c
    OBVIOUS
  <2>3. k = (a + (b + c)) + d => k - b = (a + c) + d
    OBVIOUS
  <2> QED BY <1>12, <1>13, <2>1, <2>2, <2>3
<1>15. Balanced(new, started[m])
  BY <1>8, <1>11, <1>14 DEF Balanced
<1>16. Typed(new) /\ ~Over(new) /\ new.pc # "pickling" /\ new.pc # "none"
  <2>1. PICK t \in Seq(Event) : t = Those(p, ForStream)
    BY StreamType
  <2>2. new.stream \in Seq(Event)
    <3>1. old.stream \in Seq(Event)
      BY <1>4 DEF Typed
    <3>2. old.stream \o t \in Seq(Event)
      BY <3>1, ConcatProperties
    <3> QED BY <1>8, <2>1, <3>1, <3>2 DEF Received
  <2>3. new.monitors \in Seq(Nat)
    <3>1. old.monitors \in Seq(Nat)
      BY <1>4 DEF Typed
    <3> QED BY <1>8, <3>1, ConcatProperties
  <2>4. new.reason \in Reasons
    <3>1. Len(p) \in 1..Len(p)
      BY <1>5, LenProperties
    <3>2. IsKill(p[Len(p)]) => p[Len(p)].about \in Reasons
      BY <1>9, <3>1 DEF Sane
    <3> QED BY <1>4, <1>8, <3>2 DEF Typed
  <2>5. new.status \in {0, 1}
    BY <1>4, <1>8 DEF Typed
  <2>6. new.pc \in Pcs /\ ~Over(new) /\ new.pc # "pickling" /\ new.pc # "none"
    BY <1>8 DEF Pcs, Over
  <2> QED BY <1>4, <1>8, <1>14, <2>2, <2>3, <2>4, <2>5, <2>6 DEF Typed
<1>17. \A i \in 1..Len(new.monitors) : Peer(new.monitors[i], m, nextVM)
  <2>1. PICK f \in Seq(Nat) :
            /\ new.monitors = old.monitors \o f
            /\ \A j \in 1..Len(f) : \E i \in 1..Len(p) : IsMonitor(p[i]) /\ f[j] = p[i].from
    BY <1>8
  <2>2. PICK g \in Seq(Nat) : g = old.monitors
    BY <1>4 DEF Typed
  <2>3. \A i \in 1..Len(g) : Peer(g[i], m, nextVM)
    BY <1>3, <2>2 DEF Fit
  <2>4. \A j \in 1..Len(f) : Peer(f[j], m, nextVM)
    BY <1>9, <2>1 DEF Sane
  <2>5. ASSUME NEW i \in 1..Len(g \o f) PROVE Peer((g \o f)[i], m, nextVM)
    <3>1. /\ Len(g) \in Nat /\ Len(f) \in Nat /\ Len(g \o f) = Len(g) + Len(f)
          /\ \A j \in 1..Len(g) : (g \o f)[j] = g[j]
          /\ \A j \in 1..Len(f) : (g \o f)[Len(g) + j] = f[j]
      OBVIOUS
    <3>2. CASE i <= Len(g)
      <4>1. i \in 1..Len(g)
        BY <3>1, <3>2
      <4> QED BY <2>3, <3>1, <4>1
    <3>3. CASE ~(i <= Len(g))
      <4>1. PICK j \in 1..Len(f) : i = Len(g) + j
        <5>1. i - Len(g) \in 1..Len(f) /\ i = Len(g) + (i - Len(g))
          BY <3>1, <3>3
        <5> QED BY <5>1
      <4> QED BY <2>4, <3>1, <4>1
    <3> QED BY <3>2, <3>3
  <2> QED BY <2>1, <2>2, <2>5
<1>18. \A i \in 1..Len(new.stream) : ForStream(new.stream[i])
  <2>1. PICK I : I = {i \in 1..Len(p) : ForStream(p[i])}
    OBVIOUS
  <2>2. PICK t \in Seq(Event) : t = Those(p, ForStream) /\ t = Select(p, I)
    BY <2>1, StreamType DEF Those
  <2>3. \A j \in 1..Len(t) : \E i \in 1..Len(p) : i \in I /\ t[j] = p[i]
    BY <2>2, SelectElements
  <2>4. \A j \in 1..Len(t) : ForStream(t[j])
    BY <2>1, <2>3
  <2>5. PICK g \in Seq(Event) : g = old.stream
    BY <1>4 DEF Typed
  <2>6. \A i \in 1..Len(g) : ForStream(g[i])
    BY <1>3, <2>5 DEF Fit
  <2>7. ASSUME NEW i \in 1..Len(g \o t) PROVE ForStream((g \o t)[i])
    <3>1. /\ Len(g) \in Nat /\ Len(t) \in Nat /\ Len(g \o t) = Len(g) + Len(t)
          /\ \A j \in 1..Len(g) : (g \o t)[j] = g[j]
          /\ \A j \in 1..Len(t) : (g \o t)[Len(g) + j] = t[j]
      OBVIOUS
    <3>2. CASE i <= Len(g)
      <4>1. i \in 1..Len(g)
        BY <3>1, <3>2
      <4> QED BY <2>6, <3>1, <4>1
    <3>3. CASE ~(i <= Len(g))
      <4>1. PICK j \in 1..Len(t) : i = Len(g) + j
        <5>1. i - Len(g) \in 1..Len(t) /\ i = Len(g) + (i - Len(g))
          BY <3>1, <3>3
        <5> QED BY <5>1
      <4> QED BY <2>4, <3>1, <4>1
    <3> QED BY <3>2, <3>3
  <2>8. new.stream = g \/ new.stream = g \o t
    BY <1>8, <2>2, <2>5 DEF Received
  <2> QED BY <2>6, <2>7, <2>8
<1>19. Fit(new, m, nextVM)
  BY <1>3, <1>8, <1>9, <1>16, <1>17, <1>18 DEF Fit
<1>20. SameSender(old, new)
  BY <1>2, <1>16 DEF SameSender, SameEnd, Over
<1>21. Well(vm', listed, nextVM, started, sent)
  BY <1>3, <1>7, <1>16, <1>19, WellSame
<1>22. Counting(vm', listed, started)
  BY <1>7, <1>15, CountingChange
<1>23. LinkedAll(vm', sent)
  <2>1. PICK v2 : v2 = vm'
    OBVIOUS
  <2>2. /\ Changed(vm, v2, m, new) /\ SameSender(vm[m], new) /\ vm[m].events = p \o q
        /\ new.events = q /\ new.stream = Received(vm[m], Those(p, ForStream))
        /\ new.portClosed = vm[m].portClosed
    BY <1>1, <1>5, <1>7, <1>8, <1>20, <2>1
  <2>3. Well(vm, listed, nextVM, started, sent) /\ LinkedAll(vm, sent)
    BY DEF EInv
  <2>4. LinkedAll(v2, sent)
    BY <2>2, <2>3, HandledLinks
  <2> QED BY <2>1, <2>4
<1>24. UNCHANGED <<listed, nextVM, started, sent>>
  BY DEF HandleEvents
<1> QED BY <1>21, <1>22, <1>23, <1>24 DEF EInv

-----------------------------------------------------------------------------
(* An event is posted *)

\* r2 is r, but for its queue.
SameButEvents(r, r2) ==
    /\ r2.pc = r.pc /\ r2.monitors = r.monitors /\ r2.left = r.left
    /\ r2.portClosed = r.portClosed /\ r2.streamAsked = r.streamAsked /\ r2.stream = r.stream
    /\ r2.asyncIONodes = r.asyncIONodes /\ r2.reason = r.reason /\ r2.status = r.status
    /\ r2.target = r.target

\* r2 is r, and the event e is in its queue.
Posted(r, r2, e) == SameButEvents(r, r2) /\ r2.events = r.events \o <<e>>

\* The events that are posted.
LEMMA EventTypes ==
    ASSUME NEW m \in Machines
    PROVE  /\ \A n \in Nat : Message(m, n) \in Event
           /\ \A r \in Reasons \cup {"unknown"} : Termination(m, r) \in Event
           /\ \A r \in Reasons : KillRequest(r) \in Event
           /\ MonitorRequest(m) \in Event
           /\ \A k \in IOs : Feedback(k) \in Event
<1>1. m \in Nat /\ Nobody \in Nat
  BY DEF Machines, Nobody
<1>2. \A n \in Nat : Message(m, n) \in Event
  BY <1>1 DEF Message, Event, EventKinds
<1>3. \A r \in Reasons \cup {"unknown"} : Termination(m, r) \in Event
  BY <1>1 DEF Termination, Event, EventKinds
<1>4. \A r \in Reasons : KillRequest(r) \in Event
  BY <1>1 DEF KillRequest, Event, EventKinds
<1>5. MonitorRequest(m) \in Event
  BY <1>1 DEF MonitorRequest, Event, EventKinds
<1>6. \A k \in IOs : Feedback(k) \in Event
  BY <1>1 DEF Feedback, Event, EventKinds
<1> QED BY <1>2, <1>3, <1>4, <1>5, <1>6

\* What is for the stream, after a post.
LEMMA PostedQueue ==
    ASSUME NEW r, NEW r2, NEW e \in Event, r.events \in Seq(Event), Posted(r, r2, e)
    PROVE  /\ r2.events \in Seq(Event)
           /\ ForStream(e) => Queue(r2) = Queue(r) \o <<e>>
           /\ ~ForStream(e) => Queue(r2) = Queue(r)
<1>1. PICK s \in Seq(Event), one \in Seq(Event) : s = r.events /\ one = <<e>>
  BY EmptyStream
<1>2. r2.events = s \o one /\ s \o one \in Seq(Event)
  BY <1>1, ConcatProperties DEF Posted
<1>3. Those(s \o one, ForStream) = Those(s, ForStream) \o Those(one, ForStream)
  BY StreamConcat
<1>4. Queue(r2) = Those(s \o one, ForStream) /\ Queue(r) = Those(s, ForStream)
  BY <1>1, <1>2 DEF Queue
<1>5. ForStream(e) => Those(one, ForStream) = <<e>>
  BY <1>1, StreamOne
<1>6. ~ForStream(e) => Those(one, ForStream) = << >>
  BY <1>1, StreamOne
<1>7. Those(s, ForStream) \o << >> = Those(s, ForStream)
  BY StreamType
<1> QED BY <1>2, <1>3, <1>4, <1>5, <1>6, <1>7

\* A queue with one more event.
LEMMA PostedFit ==
    ASSUME NEW m, NEW next, NEW r, Fit(r, m, next), NEW e \in Event, Sane(e, m, next),
           NEW r2, Posted(r, r2, e)
    PROVE  Fit(r2, m, next)
<1>1. PICK s \in Seq(Event) : s = r.events
  BY DEF Fit, Typed
<1>2. r2.events \in Seq(Event)
  BY <1>1, PostedQueue
<1>3. Typed(r2) /\ (Over(r2) <=> Over(r))
  BY <1>2 DEF Fit, Typed, Posted, SameButEvents, Over
<1>4. ASSUME NEW i \in 1..Len(r2.events) PROVE Sane(r2.events[i], m, next)
  <2>1. PICK n \in Nat : n = Len(s)
    BY LenProperties
  <2>2. /\ r2.events = s \o <<e>> /\ Len(s \o <<e>>) = n + 1
        /\ \A j \in 1..n : (s \o <<e>>)[j] = s[j]
        /\ (s \o <<e>>)[n + 1] = e
    BY <1>1, <2>1 DEF Posted
  <2>3. CASE i = n + 1
    BY <2>2, <2>3
  <2>4. CASE i # n + 1
    <3>1. i \in 1..n
      BY <2>1, <2>2, <2>4
    <3> QED BY <1>1, <2>1, <2>2, <3>1 DEF Fit
  <2> QED BY <2>3, <2>4
<1> QED BY <1>3, <1>4 DEF Fit, Posted, SameButEvents

\* An event in the queue says nothing of the machine that has it.
LEMMA PostedSame ==
    ASSUME NEW r, NEW r2, NEW e, Posted(r, r2, e)
    PROVE  SameSender(r, r2) /\ r2.portClosed = r.portClosed /\ r2.stream = r.stream
BY DEF Posted, SameButEvents, SameSender, SameEnd, Over

\* An event is put in the queue of machine t, which is in the list.
LEMMA PostedWell ==
    ASSUME NEW v, NEW l, NEW next, NEW s, NEW sn, Well(v, l, next, s, sn),
           NEW t \in Machines, t \in l, NEW e \in Event, Sane(e, t, next),
           NEW new, NEW v2, Changed(v, v2, t, new), Posted(v[t], new, e)
    PROVE  Well(v2, l, next, s, sn)
<1>1. /\ s \in [Machines -> [IOs -> Nat]] /\ sn \in [Machines -> [Machines -> Nat]] /\ next \in Nat
      /\ Fit(v[t], t, next) /\ Settled(v[t], t, l, next, s, sn) /\ l \subseteq Machines
  BY DEF Well
<1>2. t < next
  <2>1. t \in Nat
    BY DEF Machines
  <2> QED BY <1>1, <2>1 DEF Settled
<1>3. Fit(new, t, next)
  BY <1>1, PostedFit
<1>4. new.pc = "pickling" => new.target \in Machines /\ new.target < next /\ sn[t][new.target] > 0
  BY <1>1 DEF Settled, Posted, SameButEvents
<1>5. MoreSent(sn, sn, next)
  BY <1>1, NothingSent
<1>6. /\ l \subseteq l /\ \A x \in l : x # t => x \in l
      /\ \A x \in Machines : x # t => s[x] = s[x]
  OBVIOUS
<1> QED BY <1>1, <1>2, <1>3, <1>4, <1>5, <1>6, WellChange

\* An event that is not an answer releases no node.
LEMMA PostedCounting ==
    ASSUME NEW v, NEW l, l \subseteq Machines, NEW s, Counting(v, l, s), NEW t \in Machines,
           v[t].events \in Seq(Event), NEW e \in Event, e.kind # "feedback",
           NEW new, NEW v2, Changed(v, v2, t, new), Posted(v[t], new, e)
    PROVE  Counting(v2, l, s)
<1>1. NodesReleased(new.events) = NodesReleased(v[t].events)
  <2>1. PICK q \in Seq(Event), one \in Seq(Event) : q = v[t].events /\ one = <<e>>
    BY EmptyStream
  <2>2. NodesReleased(q \o one) = NodesReleased(q) + NodesReleased(one) /\ NodesReleased(q) \in Nat
    BY ReleasedConcat
  <2>3. NodesReleased(one) = 0
    BY <2>1, ReleasedOne
  <2> QED BY <2>1, <2>2, <2>3 DEF Posted
<1>2. ASSUME NEW x \in l PROVE Balanced(v2[x], s[x])
  <2>1. CASE x = t
    <3>1. Balanced(v[t], s[t])
      BY <2>1 DEF Counting
    <3>2. Balanced(new, s[t])
      BY <1>1, <3>1 DEF Balanced, Posted, SameButEvents
    <3> QED BY <2>1, <3>2 DEF Changed
  <2>2. CASE x # t
    BY <2>2 DEF Changed, Counting
  <2> QED BY <2>1, <2>2
<1> QED BY <1>2 DEF Counting

\* An event that is not for the stream.
LEMMA PostedLinks ==
    ASSUME NEW v, NEW sn, LinkedAll(v, sn), NEW t \in Machines, v[t].events \in Seq(Event),
           NEW e \in Event, ~ForStream(e),
           NEW new, NEW v2, Changed(v, v2, t, new), Posted(v[t], new, e)
    PROVE  LinkedAll(v2, sn)
<1>1. SameSender(v[t], new) /\ SameReceiver(v[t], new)
  BY PostedSame, PostedQueue DEF SameReceiver
<1> QED BY <1>1, QuietChange

\* What a post does: machine m is in state r, and the event is in the queue of
\* machine t, when that one is in the list.
LEMMA PushEffect ==
    ASSUME IInv, NEW m \in Machines, NEW r, IsMachine(r), NEW t, NEW e, Push(m, r, t, e)
    PROVE  /\ t \in listed =>
                 \E mid : /\ Changed(vm, mid, m, r) /\ Changed(mid, vm', t, vm'[t])
                          /\ t \in Machines
                          /\ mid[t].events \in Seq(Event) => Posted(mid[t], vm'[t], e)
           /\ t \notin listed => Changed(vm, vm', m, r)
<1>1. PICK mid : mid = [vm EXCEPT ![m] = r]
  OBVIOUS
<1>2. m # Nobody
  BY DEF Machines, Nobody
<1>3. Changed(vm, mid, m, r) /\ \A x \in Machines : IsMachine(mid[x])
  BY <1>1 DEF IInv, AreMachines, Changed
<1>4. CASE t \notin listed
  BY <1>1, <1>2, <1>3, <1>4 DEF Push
<1>5. CASE t \in listed
  <2>1. t \in Machines
    BY <1>5 DEF IInv, Numbered
  <2>2. PICK old : old = mid[t]
    OBVIOUS
  <2>3. PICK q : q = Append(old.events, e)
    OBVIOUS
  <2>4. vm' = [mid EXCEPT ![t].events = q]
    BY <1>1, <1>2, <1>5, <2>2, <2>3 DEF Push
  <2>5. vm'[t] = [old EXCEPT !.events = q] /\ \A x \in Machines \ {t} : vm'[x] = mid[x]
    BY <1>1, <2>1, <2>2, <2>4 DEF IInv, AreMachines
  <2>6. SameButEvents(old, vm'[t]) /\ vm'[t].events = q
    <3>1. PICK new : new = [old EXCEPT !.events = q]
      OBVIOUS
    <3>2. IsMachine(old)
      BY <1>3, <2>1, <2>2
    <3>3. SameButEvents(old, new) /\ new.events = q
      BY <3>1, <3>2 DEF IsMachine, SameButEvents
    <3> QED BY <2>5, <3>1, <3>3
  <2>7. old.events \in Seq(Event) => q = old.events \o <<e>>
    BY <2>3, AppendIsConcat
  <2>8. Changed(mid, vm', t, vm'[t])
    BY <2>5 DEF Changed
  <2> QED BY <1>3, <1>5, <2>1, <2>2, <2>6, <2>7, <2>8 DEF Posted
<1> QED BY <1>4, <1>5

\* A post by m, which goes on as r, of an event that is not for the stream.
LEMMA QuietPost ==
    ASSUME IInv, EInv, NEW m \in Machines, vm[m].pc = "running", NEW t \in Machines, t \in listed,
           NEW e \in Event, Sane(e, t, nextVM), ~ForStream(e), e.kind # "feedback",
           Push(m, vm[m], t, e), UNCHANGED <<listed, nextVM, started, sent>>
    PROVE  EInv'
<1>1. PICK r : r = vm[m]
  OBVIOUS
<1>2. IsMachine(r) /\ Push(m, r, t, e)
  BY <1>1 DEF IInv, AreMachines
<1>3. PICK mid : /\ Changed(vm, mid, m, r) /\ Changed(mid, vm', t, vm'[t])
                 /\ mid[t].events \in Seq(Event) => Posted(mid[t], vm'[t], e)
  BY <1>2, PushEffect
<1>4. PICK v2, new : v2 = vm' /\ new = vm'[t]
  OBVIOUS
<1>5. mid[t] = vm[t] /\ \A x \in Machines : mid[x] = vm[x]
  BY <1>1, <1>3 DEF Changed
<1>6. vm[t].events \in Seq(Event)
  BY DEF EInv, Well, Fit, Typed
<1>7. Changed(vm, v2, t, new) /\ Posted(vm[t], new, e)
  BY <1>3, <1>4, <1>5, <1>6 DEF Changed
<1>8. Well(v2, listed, nextVM, started, sent)
  BY <1>7, PostedWell DEF EInv
<1>9. Counting(v2, listed, started)
  <2>1. listed \subseteq Machines /\ Counting(vm, listed, started)
    BY DEF EInv, Well
  <2> QED BY <1>6, <1>7, <2>1, PostedCounting
<1>10. LinkedAll(v2, sent)
  BY <1>6, <1>7, PostedLinks DEF EInv
<1> QED BY <1>4, <1>8, <1>9, <1>10 DEF EInv

\* A request to end is posted.
LEMMA KillKeeps ==
    ASSUME IInv, EInv, NEW m \in Machines, NEW t \in Machines, NEW r \in {"kill", "normal"},
           Kill(m, t, r)
    PROVE  EInv'
<1>1. vm[m].pc = "running" /\ UNCHANGED <<listed, nextVM, started, sent>>
  BY DEF Kill, Runs
<1>2. PICK e \in Event : e = KillRequest(r)
  BY EventTypes DEF Reasons
<1>3. Sane(e, t, nextVM) /\ ~ForStream(e) /\ e.kind # "feedback"
  BY <1>2 DEF KillRequest, Sane, IsMonitor, IsKill, ForStream, Reasons
<1>4. Push(m, vm[m], t, e)
  BY <1>2 DEF Kill
<1>5. CASE t \in listed
  BY <1>1, <1>3, <1>4, <1>5, QuietPost
<1>6. CASE t \notin listed
  <2>1. vm' = [vm EXCEPT ![m] = vm[m]]
    BY <1>4, <1>6 DEF Push, Nobody, Machines
  <2>2. vm' = vm
    BY <2>1 DEF IInv, AreMachines
  <2> QED BY <1>1, <2>2 DEF EInv
<1> QED BY <1>5, <1>6

\* A value that is not another machine's word comes into the stream of m.
LEMMA OwnStream ==
    ASSUME NEW v, NEW l, NEW next, NEW s, NEW sn, Well(v, l, next, s, sn), LinkedAll(v, sn),
           NEW m \in Machines, NEW v2, NEW new, Changed(v, v2, m, new), SameSender(v[m], new),
           NEW e \in Event, \A x : ~IsMessageOf(e, x) /\ ~IsTermination(e, x),
           new.stream = v[m].stream \o <<e>>, new.portClosed = v[m].portClosed,
           Queue(new) = Queue(v[m])
    PROVE  LinkedAll(v2, sn)
<1>1. ASSUME NEW x \in Machines, NEW t \in Machines PROVE Linked(v2[x], v2[t], x, t, sn[x][t])
  <2>1. SameEnd(v[x], v2[x]) /\ OnItsWay(v2[x], t) = OnItsWay(v[x], t)
    BY SameIsQuiet, SenderParts DEF Changed
  <2>2. Linked(v[x], v[t], x, t, sn[x][t])
    BY DEF LinkedAll
  <2>3. CASE t # m
    BY <2>1, <2>2, <2>3, QuietPair, SameIsQuiet DEF Changed
  <2>4. CASE t = m
    <3>1. PICK w, o, r, a, b, c, f, q, n :
             /\ w = OnItsWay(v[x], t) /\ o = Over(v[x]) /\ r = v[x].reason
             /\ a = Count(v[x].monitors, t) /\ b = Count(v[x].left, t)
             /\ c = v[t].portClosed /\ f = v[t].stream /\ q = Queue(v[t]) /\ n = sn[x][t]
      OBVIOUS
    <3>2. Link(w, o, r, a, b, c, f, q, x, n)
      BY <2>2, <3>1 DEF Linked
    <3>3. /\ c \in BOOLEAN /\ o \in BOOLEAN /\ r \in Reasons
          /\ f \in Seq(Event) /\ q \in Seq(Event)
      BY <3>1, PairTypes
    <3>4. Link(w, o, r, a, b, c, f \o <<e>>, q, x, n)
      <4>1. ~IsMessageOf(e, x) /\ ~IsTermination(e, x)
        OBVIOUS
      <4> QED BY <3>2, <3>3, <4>1, LinkOther
    <3>5. Linked(v[x], new, x, t, n)
      BY <2>4, <3>1, <3>4 DEF Linked
    <3>6. SameReceiver(new, v2[t])
      BY <2>4, SameIsQuiet DEF Changed
    <3> QED BY <2>1, <3>1, <3>5, <3>6, QuietPair
  <2> QED BY <2>3, <2>4
<1> QED BY <1>1 DEF LinkedAll

\* A machine asks to be told of the end of another one, or is told that it is
\* unknown.
LEMMA MonitorKeeps ==
    ASSUME IInv, EInv, NEW m \in Machines, NEW t \in Machines, Monitor(m, t) PROVE EInv'
<1>1. PICK old : old = vm[m]
  OBVIOUS
<1>2. /\ old.pc = "running" /\ IsMachine(old) /\ t # m
      /\ UNCHANGED <<listed, nextVM, started, sent>>
  BY <1>1 DEF Monitor, Runs, IInv, AreMachines
<1>3. /\ m < nextVM /\ m \in listed /\ Fit(old, m, nextVM) /\ Balanced(old, started[m])
      /\ started \in [Machines -> [IOs -> Nat]]
  BY <1>1, <1>2, ThereFacts
<1>4. CASE t \in listed
  <2>1. PICK e \in Event : e = MonitorRequest(m)
    BY EventTypes
  <2>2. Sane(e, t, nextVM) /\ ~ForStream(e) /\ e.kind # "feedback"
    BY <1>2, <1>3, <2>1 DEF MonitorRequest, Sane, IsMonitor, IsKill, ForStream, Peer
  <2>3. Push(m, vm[m], t, e)
    BY <1>4, <2>1 DEF Monitor
  <2> QED BY <1>1, <1>2, <1>4, <2>2, <2>3, QuietPost
<1>5. CASE t \notin listed
  <2>1. PICK e \in Event : e = Termination(t, "unknown")
    BY EventTypes
  <2>2. PICK s, f : s \in Seq(Event) /\ s = old.stream /\ f = Received(old, <<e>>)
    BY <1>3 DEF Fit, Typed
  <2>3. PICK new : new = [old EXCEPT !.stream = f]
    OBVIOUS
  <2>4. /\ new.pc = old.pc /\ new.events = old.events /\ new.monitors = old.monitors
        /\ new.left = old.left /\ new.portClosed = old.portClosed /\ new.stream = f
        /\ new.reason = old.reason /\ new.status = old.status /\ new.target = old.target
        /\ new.streamAsked = old.streamAsked /\ new.asyncIONodes = old.asyncIONodes
        /\ IsMachine(new)
    BY <1>2, <2>3 DEF IsMachine
  <2>5. Push(m, new, t, MonitorRequest(m))
    BY <1>1, <1>5, <2>1, <2>2, <2>3 DEF Monitor
  <2>6. Changed(vm, vm', m, new)
    BY <1>5, <2>4, <2>5, PushEffect
  <2>7. f = s \/ f = s \o <<e>>
    BY <2>2 DEF Received
  <2>8. f \in Seq(Event) /\ \A i \in 1..Len(f) : ForStream(f[i])
    <3>1. \A i \in 1..Len(s) : ForStream(s[i])
      BY <1>3, <2>2 DEF Fit
    <3>2. ForStream(e)
      BY <2>1 DEF Termination, ForStream
    <3>3. CASE f = s \o <<e>>
      <4>1. PICK n \in Nat : n = Len(s)
        BY <2>2, LenProperties
      <4>2. /\ Len(s \o <<e>>) = n + 1 /\ s \o <<e>> \in Seq(Event)
            /\ \A j \in 1..n : (s \o <<e>>)[j] = s[j]
            /\ (s \o <<e>>)[n + 1] = e
        BY <2>2, <4>1
      <4>3. ASSUME NEW i \in 1..(n + 1) PROVE ForStream((s \o <<e>>)[i])
        <5>1. i = n + 1 \/ i \in 1..n
          BY <4>1
        <5> QED BY <3>1, <3>2, <4>1, <4>2, <5>1
      <4> QED BY <3>3, <4>2, <4>3
    <3> QED BY <2>2, <2>7, <3>1, <3>3
  <2>9. Fit(new, m, nextVM)
    <3>1. Typed(new) /\ ~Over(new)
      BY <1>2, <1>3, <2>4, <2>8 DEF Fit, Typed, Over
    <3> QED BY <1>2, <1>3, <2>4, <2>8, <3>1 DEF Fit
  <2>10. SameSender(old, new)
    BY <1>2, <2>4 DEF SameSender, SameEnd, Over
  <2>11. Balanced(new, started[m])
    BY <1>3, <2>4 DEF Balanced
  <2>12. Queue(new) = Queue(old)
    BY <2>4 DEF Queue
  <2>13. PICK v2 : v2 = vm'
    OBVIOUS
  <2>14. Well(v2, listed, nextVM, started, sent) /\ Counting(v2, listed, started)
    BY <1>2, <1>3, <2>4, <2>6, <2>9, <2>11, <2>13, WellSame, CountingChange
  <2>15. LinkedAll(v2, sent)
    <3>1. Well(vm, listed, nextVM, started, sent) /\ LinkedAll(vm, sent)
      BY DEF EInv
    <3>2. Changed(vm, v2, m, new) /\ SameSender(vm[m], new) /\ Queue(new) = Queue(vm[m])
          /\ new.portClosed = vm[m].portClosed
      BY <1>1, <2>4, <2>6, <2>10, <2>12, <2>13
    <3>3. CASE f = s
      <4>1. SameReceiver(vm[m], new)
        BY <1>1, <2>2, <2>4, <3>2, <3>3 DEF SameReceiver
      <4> QED BY <3>1, <3>2, <4>1, QuietChange
    <3>4. CASE f = s \o <<e>>
      <4>1. \A x : ~IsMessageOf(e, x) /\ ~IsTermination(e, x)
        BY <2>1 DEF Termination, IsMessageOf, IsTermination
      <4>2. new.stream = vm[m].stream \o <<e>>
        BY <1>1, <2>2, <2>4, <3>4
      <4> QED BY <3>1, <3>2, <4>1, <4>2, OwnStream
    <3> QED BY <2>7, <3>3, <3>4
  <2> QED BY <1>2, <2>13, <2>14, <2>15 DEF EInv
<1> QED BY <1>4, <1>5

\* An answer that is no more to come is in the queue.
LEMMA AnswerBalances ==
    ASSUME NEW r, NEW r2, NEW k \in IOs, Posted(r, r2, Feedback(k)), r.events \in Seq(Event),
           r.asyncIONodes \in Nat,
           NEW s \in [IOs -> Nat], s[k] > 0, Balanced(r, s),
           NEW s2, s2 = [s EXCEPT ![k] = s[k] - 1]
    PROVE  Balanced(r2, s2)
<1>1. PICK q \in Seq(Event), one \in Seq(Event) : q = r.events /\ one = <<Feedback(k)>>
  <2>1. Feedback(k) \in Event
    BY DEF Feedback, Event, EventKinds, Nobody
  <2> QED BY <2>1, EmptyStream
<1>2. PICK a \in Nat, b \in Nat, c \in Nat, d \in {0, 1} :
         a = s["read"] /\ b = s["write"] /\ c = NodesReleased(q) /\ d = Bit(r.streamAsked)
  <2>1. NodesReleased(q) \in Nat
    BY ReleasedConcat
  <2>2. s["read"] \in Nat /\ s["write"] \in Nat
    BY DEF IOs
  <2> QED BY <2>1, <2>2 DEF Bit
<1>3. PICK w \in {1, 2} : w = NodesReleased(one) /\ w = (IF k = "read" THEN 2 ELSE 1)
  <2>1. NodesReleased(one) = IF k = "read" THEN 2 ELSE 1
    BY <1>1, ReleasedOne DEF Feedback
  <2> QED BY <2>1
<1>4. NodesReleased(r2.events) = c + w
  BY <1>1, <1>2, <1>3, ReleasedConcat DEF Posted
<1>5. PICK a2 \in Nat, b2 \in Nat : a2 = s2["read"] /\ b2 = s2["write"] /\ 2 * a2 + b2 + w = 2 * a + b
  <2>1. CASE k = "read"
    <3>1. s2["read"] = a - 1 /\ s2["write"] = b /\ a > 0
      BY <1>2, <2>1 DEF IOs
    <3>2. a - 1 \in Nat /\ 2 * (a - 1) + b + 2 = 2 * a + b
      BY <3>1
    <3> QED BY <1>3, <2>1, <3>1, <3>2
  <2>2. CASE k = "write"
    <3>1. s2["read"] = a /\ s2["write"] = b - 1 /\ b > 0
      BY <1>2, <2>2 DEF IOs
    <3>2. b - 1 \in Nat /\ 2 * a + (b - 1) + 1 = 2 * a + b
      BY <3>1
    <3> QED BY <1>3, <2>2, <3>1, <3>2
  <2> QED BY <2>1, <2>2 DEF IOs
<1>6. 2 * a + b + c = 2 * a2 + b2 + (c + w)
  <2>1. PICK u \in Nat, u2 \in Nat, w2 \in Nat : u = 2 * a + b /\ u2 = 2 * a2 + b2 /\ w2 = w
    BY <1>3
  <2>2. u = u2 + w2
    BY <1>5, <2>1
  <2>3. u + c = u2 + (c + w2)
    BY <2>2
  <2> QED BY <2>1, <2>3
<1>7. IF r.portClosed THEN r.asyncIONodes \in {2 * a + b + c, 2 * a + b + c + d}
      ELSE r.asyncIONodes = 2 * a + b + c + d
  BY <1>1, <1>2 DEF Balanced
<1>8. PICK x \in Nat : x = 2 * a + b + c
  OBVIOUS
<1>9. IF r2.portClosed THEN r2.asyncIONodes \in {x, x + d} ELSE r2.asyncIONodes = x + d
  BY <1>7, <1>8 DEF Posted, SameButEvents
<1>10. x = 2 * s2["read"] + s2["write"] + NodesReleased(r2.events) /\ Bit(r2.streamAsked) = d
  <2>1. Bit(r2.streamAsked) = d
    BY <1>2 DEF Posted, SameButEvents
  <2> QED BY <1>4, <1>5, <1>6, <1>8, <2>1
<1> QED BY <1>9, <1>10 DEF Balanced

\* An answer is posted by the I/O thread.
LEMMA CompleteKeeps ==
    ASSUME IInv, EInv, NEW m \in Machines, NEW k \in IOs, CompleteIO(m, k) PROVE EInv'
<1>1. PICK old : old = vm[m]
  OBVIOUS
<1>2. /\ Fit(old, m, nextVM) /\ Settled(old, m, listed, nextVM, started, sent)
      /\ started \in [Machines -> [IOs -> Nat]] /\ sent \in [Machines -> [Machines -> Nat]]
      /\ nextVM \in Nat /\ listed \subseteq Machines
      /\ Well(vm, listed, nextVM, started, sent)
  BY <1>1 DEF EInv, Well
<1>3. UNCHANGED <<listed, nextVM, sent>> /\ started[m][k] > 0
  BY DEF CompleteIO
<1>4. m < nextVM
  <2>1. m \in Nat
    BY DEF Machines
  <2> QED BY <1>2, <1>3, <2>1 DEF Settled
<1>5. PICK s2 : s2 = started'
  OBVIOUS
<1>6. /\ s2 \in [Machines -> [IOs -> Nat]] /\ s2[m] = [started[m] EXCEPT ![k] = started[m][k] - 1]
      /\ \A x \in Machines : x # m => s2[x] = started[x]
  <2>1. s2 = [started EXCEPT ![m] = [started[m] EXCEPT ![k] = started[m][k] - 1]]
    BY <1>2, <1>5 DEF CompleteIO
  <2>2. started[m][k] - 1 \in Nat
    BY <1>2, <1>3
  <2> QED BY <1>2, <2>1, <2>2
<1>7. PICK e \in Event : e = Feedback(k)
  BY EventTypes
<1>8. PICK v2, new : v2 = vm' /\ new = vm'[m]
  OBVIOUS
<1>9. MoreSent(sent, sent, nextVM)
  BY <1>2, NothingSent
<1>10. listed \subseteq listed /\ \A x \in listed : x # m => x \in listed
  OBVIOUS
<1>11. CASE m \notin listed
  <2>1. vm' = vm
    BY <1>11 DEF CompleteIO, Push
  <2>2. Changed(vm, v2, m, old)
    BY <1>1, <1>8, <2>1 DEF Changed
  <2>3. old.pc \in {"removed", "gone"} /\ old.pc # "pickling"
    BY <1>2, <1>4, <1>11 DEF Settled
  <2>5. Well(v2, listed, nextVM, s2, sent)
    <3>1. /\ Well(vm, listed, nextVM, started, sent) /\ m < nextVM /\ Changed(vm, v2, m, old)
          /\ s2 \in [Machines -> [IOs -> Nat]] /\ \A x \in Machines : x # m => s2[x] = started[x]
          /\ Fit(old, m, nextVM) /\ (m \notin listed => old.pc \in {"removed", "gone"})
          /\ (old.pc = "pickling" =>
                 old.target \in Machines /\ old.target < nextVM /\ sent[m][old.target] > 0)
      BY <1>2, <1>4, <1>6, <2>2, <2>3
    <3> QED BY <1>9, <1>10, <3>1, WellChange
  <2>6. Counting(vm, listed, s2)
    BY <1>2, <1>6, <1>11 DEF EInv, Counting
  <2> QED BY <1>3, <1>5, <1>8, <2>1, <2>5, <2>6 DEF EInv
<1>12. CASE m \in listed
  <2>1. Changed(vm, v2, m, new) /\ Posted(old, new, e)
    <3>1. PICK q : q = Append(old.events, e)
      OBVIOUS
    <3>2. vm' = [vm EXCEPT ![m].events = q]
      BY <1>1, <1>7, <1>12, <3>1 DEF CompleteIO, Push
    <3>3. new = [old EXCEPT !.events = q] /\ \A x \in Machines \ {m} : v2[x] = vm[x]
      BY <1>1, <1>8, <3>2 DEF IInv, AreMachines
    <3>4. IsMachine(old)
      BY <1>1 DEF IInv, AreMachines
    <3>5. SameButEvents(old, new) /\ new.events = q
      BY <3>3, <3>4 DEF IsMachine, SameButEvents
    <3>6. q = old.events \o <<e>>
      BY <1>2, <3>1, AppendIsConcat DEF Fit, Typed
    <3> QED BY <1>8, <3>3, <3>5, <3>6 DEF Posted, Changed
  <2>2. Sane(e, m, nextVM) /\ ~ForStream(e)
    BY <1>7 DEF Feedback, Sane, IsMonitor, IsKill, ForStream
  <2>3. Fit(new, m, nextVM)
    BY <1>2, <2>1, <2>2, PostedFit
  <2>4. new.pc = "pickling" => new.target \in Machines /\ new.target < nextVM /\ sent[m][new.target] > 0
    BY <1>2, <2>1 DEF Settled, Posted, SameButEvents
  <2>5. Well(v2, listed, nextVM, s2, sent)
    BY <1>2, <1>4, <1>6, <1>9, <1>10, <1>12, <2>1, <2>3, <2>4, WellChange, SMTT(20)
  <2>6. Balanced(new, s2[m])
    <3>1. Posted(old, new, Feedback(k))
      BY <1>7, <2>1
    <3>2. old.events \in Seq(Event) /\ old.asyncIONodes \in Nat
      BY <1>2 DEF Fit, Typed
    <3>3. Balanced(old, started[m])
      BY <1>1, <1>12 DEF EInv, Counting
    <3>4. started[m] \in [IOs -> Nat]
      BY <1>2
    <3> QED BY <1>3, <1>6, <3>1, <3>2, <3>3, <3>4, AnswerBalances
  <2>7. Counting(v2, listed, s2)
    <3>1. ASSUME NEW x \in listed PROVE Balanced(v2[x], s2[x])
      <4>1. CASE x = m
        BY <2>1, <2>6, <4>1 DEF Changed
      <4>2. CASE x # m
        BY <1>2, <1>6, <2>1, <4>2 DEF Changed, EInv, Counting
      <4> QED BY <4>1, <4>2
    <3> QED BY <3>1 DEF Counting
  <2>8. LinkedAll(v2, sent)
    <3>1. LinkedAll(vm, sent) /\ vm[m].events \in Seq(Event)
      BY <1>1, <1>2 DEF EInv, Fit, Typed
    <3> QED BY <1>1, <2>1, <2>2, <3>1, PostedLinks
  <2> QED BY <1>3, <1>5, <1>8, <2>5, <2>7, <2>8 DEF EInv
<1> QED BY <1>11, <1>12

\* Machine m goes on as r, and says something to t, in the list, of itself.
LEMMA SpokenTo ==
    ASSUME NEW v, NEW l, NEW next, NEW s, NEW sn, Well(v, l, next, s, sn), LinkedAll(v, sn),
           NEW m \in Machines, NEW r, NEW mid, Changed(v, mid, m, r), SameReceiver(v[m], r),
           NEW t \in Machines, NEW new, NEW v2, Changed(mid, v2, t, new),
           NEW e \in Event, ForStream(e), e.from = m, Posted(mid[t], new, e),
           mid[t].events \in Seq(Event),
           \A x \in Machines : x # t => Linked(r, v[x], m, x, sn[m][x]),
           Link(OnItsWay(r, t), Over(r), r.reason, Count(r.monitors, t), Count(r.left, t),
                v[t].portClosed, v[t].stream, Queue(v[t]) \o <<e>>, m, sn[m][t])
    PROVE  LinkedAll(v2, sn)
<1>1. ASSUME NEW x \in Machines PROVE SameSender(mid[x], v2[x])
  BY PostedSame, SameIsQuiet DEF Changed
<1>2. ASSUME NEW x \in Machines, x # t PROVE SameReceiver(v[x], v2[x])
  <2>1. v2[x] = mid[x]
    BY <1>2 DEF Changed
  <2> QED BY <2>1, SameIsQuiet DEF Changed
<1>3. mid[m] = r /\ \A x \in Machines : x # m => mid[x] = v[x]
  BY DEF Changed
<1>4. /\ v2[t].portClosed = v[t].portClosed /\ v2[t].stream = v[t].stream
      /\ Queue(v2[t]) = Queue(v[t]) \o <<e>>
  <2>1. SameReceiver(v[t], mid[t])
    BY <1>3, SameIsQuiet
  <2>2. v2[t] = new
    BY DEF Changed
  <2>3. /\ new.portClosed = mid[t].portClosed /\ new.stream = mid[t].stream
        /\ Queue(new) = Queue(mid[t]) \o <<e>>
    BY PostedSame, PostedQueue
  <2> QED BY <2>1, <2>2, <2>3 DEF SameReceiver
<1>5. ASSUME NEW x \in Machines, NEW y \in Machines PROVE Linked(v2[x], v2[y], x, y, sn[x][y])
  <2>1. SameEnd(mid[x], v2[x]) /\ OnItsWay(v2[x], y) = OnItsWay(mid[x], y)
    BY <1>1, SenderParts
  <2>2. CASE y # t
    <3>1. Linked(mid[x], v[y], x, y, sn[x][y])
      BY <1>3, <2>2 DEF LinkedAll
    <3>2. SameReceiver(v[y], v2[y])
      BY <1>2, <2>2
    <3> QED BY <2>1, <3>1, <3>2, QuietPair
  <2>3. CASE y = t
    <3>1. PICK rt : rt = v2[t]
      OBVIOUS
    <3>2. Linked(mid[x], rt, x, t, sn[x][t])
      <4>1. CASE x = m
        BY <1>3, <1>4, <3>1, <4>1 DEF Linked
      <4>2. CASE x # m
        <5>1. PICK w, o, re, a, b, c, f, q, n :
                 /\ w = OnItsWay(v[x], t) /\ o = Over(v[x]) /\ re = v[x].reason
                 /\ a = Count(v[x].monitors, t) /\ b = Count(v[x].left, t)
                 /\ c = v[t].portClosed /\ f = v[t].stream /\ q = Queue(v[t]) /\ n = sn[x][t]
          OBVIOUS
        <5>2. Link(w, o, re, a, b, c, f, q, x, n)
          BY <5>1 DEF LinkedAll, Linked
        <5>3. /\ c \in BOOLEAN /\ o \in BOOLEAN /\ re \in Reasons
              /\ f \in Seq(Event) /\ q \in Seq(Event)
          BY <5>1, PairTypes
        <5>4. ~IsMessageOf(e, x) /\ ~IsTermination(e, x)
          BY <4>2 DEF IsMessageOf, IsTermination
        <5>5. Link(w, o, re, a, b, c, f, q \o <<e>>, x, n)
          BY <5>2, <5>3, <5>4, LinkOther
        <5> QED BY <1>3, <1>4, <3>1, <4>2, <5>1, <5>5 DEF Linked
      <4> QED BY <4>1, <4>2
    <3>3. SameReceiver(rt, v2[t])
      BY <3>1, SameIsQuiet
    <3>4. Linked(v2[x], v2[t], x, t, sn[x][t])
      BY <2>1, <2>3, <3>2, <3>3, QuietPair
    <3> QED BY <2>3, <3>4
  <2> QED BY <2>2, <2>3
<1> QED BY <1>5 DEF LinkedAll

\* The same, when t is not in the list.
LEMMA SpokenInVain ==
    ASSUME NEW v, NEW sn, NEW m \in Machines, NEW r, NEW v2, Changed(v, v2, m, r),
           LinkedAll(v, sn), SameReceiver(v[m], r),
           \A x \in Machines : Linked(r, v[x], m, x, sn[m][x])
    PROVE  LinkedAll(v2, sn)
<1>1. ASSUME NEW x \in Machines, NEW y \in Machines PROVE Linked(v2[x], v2[y], x, y, sn[x][y])
  <2>1. SameReceiver(v[y], v2[y])
    BY SameIsQuiet DEF Changed
  <2>2. Linked(v2[x], v[y], x, y, sn[x][y])
    BY DEF LinkedAll, Changed
  <2>3. SameEnd(v2[x], v2[x])
    BY DEF SameEnd
  <2> QED BY <2>1, <2>2, <2>3, QuietPair
<1> QED BY <1>1 DEF LinkedAll

\* A machine that has left the list receives nothing any more.
LEMMA GoneIsClosed ==
    ASSUME EInv, NEW t \in Machines, t < nextVM, t \notin listed
    PROVE  vm[t].portClosed = TRUE
<1>1. Fit(vm[t], t, nextVM) /\ Settled(vm[t], t, listed, nextVM, started, sent)
  BY DEF EInv, Well
<1>2. Over(vm[t])
  BY <1>1 DEF Settled, Over
<1> QED BY <1>1, <1>2 DEF Fit, Typed

\* Machine m goes on as r, and posts e, of which it is the origin, to t.
LEMMA SpeechKeeps ==
    ASSUME IInv, EInv, NEW m \in Machines, m \in listed, m < nextVM,
           NEW r, IsMachine(r), Fit(r, m, nextVM), r.pc # "pickling", Balanced(r, started[m]),
           SameReceiver(vm[m], r), NEW t \in Machines,
           NEW e \in Event, ForStream(e), e.from = m, Sane(e, t, nextVM), e.kind # "feedback",
           Push(m, r, t, e), UNCHANGED <<listed, nextVM, started, sent>>,
           \A x \in Machines : x # t => Linked(r, vm[x], m, x, sent[m][x]),
           t \in listed =>
              Link(OnItsWay(r, t), Over(r), r.reason, Count(r.monitors, t), Count(r.left, t),
                   vm[t].portClosed, vm[t].stream, Queue(vm[t]) \o <<e>>, m, sent[m][t]),
           t \notin listed => Linked(r, vm[t], m, t, sent[m][t])
    PROVE  EInv'
<1>1. PICK v2, new : v2 = vm' /\ new = vm'[t]
  OBVIOUS
<1>2. Well(vm, listed, nextVM, started, sent) /\ LinkedAll(vm, sent) /\ listed \subseteq Machines
  BY DEF EInv, Well
<1>3. CASE t \notin listed
  <2>1. Changed(vm, v2, m, r)
    BY <1>1, <1>3, PushEffect
  <2>2. Well(v2, listed, nextVM, started, sent) /\ Counting(v2, listed, started)
    BY <2>1, WellSame, CountingChange
  <2>3. \A x \in Machines : Linked(r, vm[x], m, x, sent[m][x])
    BY <1>3
  <2>4. LinkedAll(v2, sent)
    BY <1>2, <2>1, <2>3, SpokenInVain
  <2> QED BY <1>1, <2>2, <2>4 DEF EInv
<1>4. CASE t \in listed
  <2>1. PICK mid : /\ Changed(vm, mid, m, r) /\ Changed(mid, v2, t, new)
                   /\ mid[t].events \in Seq(Event) => Posted(mid[t], new, e)
    BY <1>1, <1>4, PushEffect
  <2>2. Well(mid, listed, nextVM, started, sent) /\ Counting(mid, listed, started)
    BY <2>1, WellSame, CountingChange
  <2>3. mid[t].events \in Seq(Event) /\ Posted(mid[t], new, e)
    BY <2>1, <2>2 DEF Well, Fit, Typed
  <2>4. Well(v2, listed, nextVM, started, sent)
    BY <1>4, <2>1, <2>2, <2>3, PostedWell
  <2>5. Counting(v2, listed, started)
    BY <1>2, <2>1, <2>2, <2>3, PostedCounting
  <2>6. LinkedAll(v2, sent)
    BY <1>2, <1>4, <2>1, <2>3, SpokenTo
  <2> QED BY <1>1, <2>4, <2>5, <2>6 DEF EInv
<1> QED BY <1>3, <1>4

\* The message is posted: it is no more on its way, and last in the queue; or it is
\* lost, at a port that is closed.
LEMMA SendPickledKeeps ==
    ASSUME IInv, EInv, NEW m \in Machines, SendPickled(m) PROVE EInv'
<1>1. PICK old : old = vm[m]
  OBVIOUS
<1>2. old.pc = "pickling" /\ IsMachine(old) /\ UNCHANGED <<listed, nextVM, started, sent>>
  BY <1>1 DEF SendPickled, IInv, AreMachines
<1>3. /\ m < nextVM /\ m \in listed /\ Fit(old, m, nextVM) /\ Balanced(old, started[m])
      /\ started \in [Machines -> [IOs -> Nat]]
  BY <1>1, <1>2, ThereFacts
<1>4. Well(vm, listed, nextVM, started, sent) /\ LinkedAll(vm, sent)
  BY DEF EInv
<1>5. PICK t \in Machines : t = old.target /\ t < nextVM /\ sent[m][t] > 0
  BY <1>1, <1>2, <1>4 DEF Well, Settled
<1>6. PICK n \in Nat : n = sent[m][t]
  BY <1>4 DEF Well
<1>7. PICK e \in Event : e = Message(m, n)
  BY EventTypes
<1>8. PICK r : r = [old EXCEPT !.pc = "running", !.target = Nobody]
  OBVIOUS
<1>9. /\ IsMachine(r) /\ r.pc = "running" /\ r.events = old.events /\ r.monitors = old.monitors
      /\ r.left = old.left /\ r.portClosed = old.portClosed /\ r.stream = old.stream
      /\ r.reason = old.reason /\ r.status = old.status
      /\ r.streamAsked = old.streamAsked /\ r.asyncIONodes = old.asyncIONodes
  BY <1>2, <1>8 DEF IsMachine
<1>10. Push(m, r, t, e)
  BY <1>1, <1>5, <1>6, <1>7, <1>8 DEF SendPickled
<1>11. ForStream(e) /\ e.from = m /\ Sane(e, t, nextVM) /\ e.kind # "feedback"
  BY <1>7 DEF Message, ForStream, Sane, IsMonitor, IsKill
<1>12. Over(r) = FALSE /\ Over(old) = FALSE /\ r.pc # "pickling"
  BY <1>2, <1>9 DEF Over
<1>13. Fit(r, m, nextVM)
  <2>1. Typed(r)
    BY <1>3, <1>9 DEF Fit, Typed, Pcs
  <2> QED BY <1>2, <1>3, <1>9, <1>12, <2>1 DEF Fit
<1>14. Balanced(r, started[m]) /\ SameReceiver(vm[m], r) /\ SameEnd(old, r)
  BY <1>1, <1>3, <1>9, <1>12 DEF Balanced, SameReceiver, Queue, SameEnd
<1>15. \A x \in Machines : OnItsWay(r, x) = 0 /\ (x # t => OnItsWay(old, x) = 0)
  BY <1>5, <1>9 DEF OnItsWay, Bit
<1>16. ASSUME NEW x \in Machines, x # t PROVE Linked(r, vm[x], m, x, sent[m][x])
  <2>1. Linked(old, vm[x], m, x, sent[m][x]) /\ OnItsWay(r, x) = OnItsWay(old, x)
    BY <1>1, <1>4, <1>15, <1>16 DEF LinkedAll
  <2> QED BY <1>14, <2>1, QuietPair, SameIsQuiet
<1>17. PICK re, a, b, c, f, q :
          /\ re = old.reason /\ a = Count(old.monitors, t) /\ b = Count(old.left, t)
          /\ c = vm[t].portClosed /\ f = vm[t].stream /\ q = Queue(vm[t])
  OBVIOUS
<1>18. /\ c \in BOOLEAN /\ f \in Seq(Event) /\ q \in Seq(Event) /\ m \in Nat
  BY <1>4, <1>17, PairTypes
<1>19. Link(1, FALSE, re, a, b, c, f, q, m, n)
  <2>1. OnItsWay(old, t) = 1
    BY <1>2, <1>5 DEF OnItsWay, Bit
  <2> QED BY <1>1, <1>4, <1>6, <1>12, <1>17, <2>1 DEF LinkedAll, Linked
<1>20. t \in listed =>
          Link(OnItsWay(r, t), Over(r), r.reason, Count(r.monitors, t), Count(r.left, t),
               vm[t].portClosed, vm[t].stream, Queue(vm[t]) \o <<e>>, m, sent[m][t])
  <2>1. Link(0, FALSE, re, a, b, c, f, q \o <<Message(m, n)>>, m, n)
    BY <1>5, <1>6, <1>18, <1>19, LinkArrives
  <2>2. Link(0, FALSE, re, a, b, c, f, q \o <<e>>, m, n)
    BY <1>7, <2>1
  <2>3. OnItsWay(r, t) = 0
    BY <1>15
  <2> QED BY <1>6, <1>9, <1>12, <1>17, <2>2, <2>3
<1>21. t \notin listed => Linked(r, vm[t], m, t, sent[m][t])
  <2>1. SUFFICES ASSUME t \notin listed PROVE Linked(r, vm[t], m, t, sent[m][t])
    OBVIOUS
  <2>2. c
    BY <1>5, <1>17, <2>1, GoneIsClosed
  <2>3. Link(0, FALSE, re, a, b, c, f, q, m, n)
    <3>1. n <= n /\ (c \/ n - 0 = n - 1)
      BY <2>2
    <3> QED BY <1>18, <1>19, <3>1, LinkRelabelled
  <2>4. OnItsWay(r, t) = 0
    BY <1>15
  <2> QED BY <1>6, <1>9, <1>12, <1>17, <2>3, <2>4 DEF Linked
<1> QED BY <1>2, <1>3, <1>9, <1>10, <1>11, <1>12, <1>13, <1>14, <1>16, <1>20, <1>21, SpeechKeeps

\* One monitor is told: one less is left, and the record is last in its queue.
LEMMA NotifyMonitorKeeps ==
    ASSUME IInv, EInv, NEW m \in Machines, NotifyMonitor(m) PROVE EInv'
<1>1. PICK old : old = vm[m]
  OBVIOUS
<1>2. old.pc = "notifying" /\ IsMachine(old) /\ UNCHANGED <<listed, nextVM, started, sent>>
  BY <1>1 DEF NotifyMonitor, IInv, AreMachines
<1>3. /\ m < nextVM /\ m \in listed /\ Fit(old, m, nextVM) /\ Balanced(old, started[m])
      /\ started \in [Machines -> [IOs -> Nat]]
  BY <1>1, <1>2, ThereFacts
<1>4. Well(vm, listed, nextVM, started, sent) /\ LinkedAll(vm, sent)
  BY DEF EInv
<1>5. PICK s \in Seq(Nat), rest \in Seq(Nat), h \in Nat :
         /\ s = old.left /\ rest = Tail(old.left) /\ h = Head(old.left) /\ s = <<h>> \o rest
         /\ Len(s) = Len(rest) + 1 /\ s[1] = h /\ \A i \in 1..Len(rest) : rest[i] = s[i + 1]
  <2>1. old.left \in Seq(Nat) /\ old.left # << >>
    BY <1>1, <1>3 DEF NotifyMonitor, Fit, Typed
  <2>2. PICK s \in Seq(Nat) : s = old.left /\ s # << >>
    BY <2>1
  <2>3. /\ Head(s) \in Nat /\ Tail(s) \in Seq(Nat) /\ Len(s) = Len(Tail(s)) + 1 /\ s[1] = Head(s)
        /\ \A i \in 1..Len(Tail(s)) : Tail(s)[i] = s[i + 1]
    BY <2>2
  <2>4. s = <<Head(s)>> \o Tail(s)
    BY <2>2
  <2> QED BY <2>2, <2>3, <2>4
<1>6. PICK t \in Machines : t = h /\ t < nextVM /\ t # m
  <2>1. 1 \in 1..Len(s)
    BY <1>5, LenProperties
  <2>2. Peer(h, m, nextVM)
    BY <1>3, <1>5, <2>1 DEF Fit
  <2> QED BY <2>2 DEF Peer
<1>7. old.reason \in Reasons
  BY <1>3 DEF Fit, Typed
<1>8. PICK e \in Event : e = Termination(m, old.reason)
  BY <1>7, EventTypes
<1>9. PICK r : r = [old EXCEPT !.left = rest]
  OBVIOUS
<1>10. /\ IsMachine(r) /\ r.pc = old.pc /\ r.events = old.events /\ r.monitors = old.monitors
       /\ r.left = rest /\ r.portClosed = old.portClosed /\ r.stream = old.stream
       /\ r.reason = old.reason /\ r.status = old.status /\ r.target = old.target
       /\ r.streamAsked = old.streamAsked /\ r.asyncIONodes = old.asyncIONodes
  BY <1>2, <1>9 DEF IsMachine
<1>11. Push(m, r, t, e)
  BY <1>1, <1>5, <1>6, <1>8, <1>9 DEF NotifyMonitor
<1>12. ForStream(e) /\ e.from = m /\ Sane(e, t, nextVM) /\ e.kind # "feedback"
  BY <1>8 DEF Termination, ForStream, Sane, IsMonitor, IsKill
<1>13. Over(r) = TRUE /\ Over(old) = TRUE /\ r.pc # "pickling"
  BY <1>2, <1>10 DEF Over
<1>14. Fit(r, m, nextVM)
  <2>1. Typed(r)
    BY <1>3, <1>10 DEF Fit, Typed
  <2>2. \A i \in 1..Len(rest) : Peer(rest[i], m, nextVM)
    <3>1. \A i \in 1..Len(rest) : i + 1 \in 1..Len(s)
      BY <1>5, LenProperties
    <3> QED BY <1>3, <1>5, <3>1 DEF Fit
  <2> QED BY <1>2, <1>3, <1>10, <1>13, <2>1, <2>2 DEF Fit
<1>15. Balanced(r, started[m]) /\ SameReceiver(vm[m], r)
  BY <1>1, <1>3, <1>10 DEF Balanced, SameReceiver, Queue
<1>16. \A x : OnItsWay(r, x) = OnItsWay(old, x)
  BY <1>10 DEF OnItsWay
<1>17. ASSUME NEW x \in Machines
       PROVE  Count(old.left, x) = (IF h = x THEN 1 ELSE 0) + Count(rest, x) /\ Count(rest, x) \in Nat
  <2>1. <<h>> \in Seq(Nat)
    OBVIOUS
  <2>2. Count(<<h>> \o rest, x) = Count(<<h>>, x) + Count(rest, x)
    BY <2>1, CountConcat
  <2>3. Count(<<h>>, x) = IF h = x THEN 1 ELSE 0
    BY CountOne
  <2>4. Count(rest, x) \in Nat
    BY CountType
  <2> QED BY <1>5, <2>2, <2>3, <2>4
<1>18. ASSUME NEW x \in Machines, x # t PROVE Linked(r, vm[x], m, x, sent[m][x])
  <2>1. Count(old.left, x) = Count(rest, x)
    BY <1>6, <1>17, <1>18
  <2>2. Linked(old, vm[x], m, x, sent[m][x])
    BY <1>1, <1>4 DEF LinkedAll
  <2> QED BY <1>10, <1>13, <1>16, <2>1, <2>2 DEF Linked
<1>19. PICK w, re, a, b, b2, c, f, q, n :
          /\ w = OnItsWay(old, t) /\ re = old.reason /\ a = Count(old.monitors, t)
          /\ b = Count(old.left, t) /\ b2 = Count(rest, t) /\ n = sent[m][t]
          /\ c = vm[t].portClosed /\ f = vm[t].stream /\ q = Queue(vm[t])
  OBVIOUS
<1>20. /\ a \in Nat /\ b \in Nat /\ c \in BOOLEAN /\ f \in Seq(Event) /\ q \in Seq(Event) /\ m \in Nat
       /\ re \in Reasons
  BY <1>1, <1>4, <1>19, PairTypes
<1>21. b - 1 = b2
  <2>1. b = 1 + b2 /\ b2 \in Nat
    BY <1>6, <1>17, <1>19
  <2> QED BY <2>1
<1>22. Link(w, TRUE, re, a, b, c, f, q, m, n)
  BY <1>1, <1>4, <1>13, <1>19 DEF LinkedAll, Linked
<1>23. /\ Link(w, TRUE, re, a, b - 1, c, f, q \o <<Termination(m, re)>>, m, n)
       /\ c => Link(w, TRUE, re, a, b2, c, f, q, m, n)
  <2>1. /\ Link(w, TRUE, re, a, b - 1, c, f, q \o <<Termination(m, re)>>, m, n)
        /\ c => \A left2 : Link(w, TRUE, re, a, left2, c, f, q, m, n)
    BY <1>20, <1>22, LinkTells
  <2> QED BY <2>1
<1>24. t \in listed =>
          Link(OnItsWay(r, t), Over(r), r.reason, Count(r.monitors, t), Count(r.left, t),
               vm[t].portClosed, vm[t].stream, Queue(vm[t]) \o <<e>>, m, sent[m][t])
  <2>1. Link(w, TRUE, re, a, b2, c, f, q \o <<e>>, m, n)
    BY <1>8, <1>19, <1>21, <1>23
  <2> QED BY <1>10, <1>13, <1>16, <1>19, <2>1
<1>25. t \notin listed => Linked(r, vm[t], m, t, sent[m][t])
  <2>1. SUFFICES ASSUME t \notin listed PROVE Linked(r, vm[t], m, t, sent[m][t])
    OBVIOUS
  <2>2. c
    BY <1>6, <1>19, <2>1, GoneIsClosed
  <2> QED BY <1>10, <1>13, <1>16, <1>19, <1>23, <2>2 DEF Linked
<1> QED BY <1>2, <1>3, <1>10, <1>11, <1>12, <1>13, <1>14, <1>15, <1>18, <1>24, <1>25, SpeechKeeps

-----------------------------------------------------------------------------
(* The invariant holds, and what follows from it *)

\* Two machines at the start.
LEMMA NothingSaid ==
    ASSUME NEW m, NEW reason, NEW mine, NEW left
    PROVE  Link(0, FALSE, reason, mine, left, FALSE, << >>, << >>, m, 0)
<1>1. << >> \in Seq(Event) /\ << >> \o << >> = << >> /\ Len(<< >>) = 0
  BY EmptyStream
<1>2. MessagesOf(m, << >>) = Upto(0)
  <2>1. PICK I : I = {i \in 1..Len(<< >>) : IsMessageOf(<< >>[i], m)}
    OBVIOUS
  <2>2. TheMessages(m, << >>) = << >>
    BY <2>1, SelectOfEmpty DEF TheMessages, Those
  <2>3. MessagesOf(m, << >>) = [i \in 1..0 |-> << >>[i].about]
    <3>0. PICK s \in Seq(Event) : s = << >>
      BY <1>1
    <3>1. PICK those : those = TheMessages(m, s)
      OBVIOUS
    <3>4. MessagesOf(m, s) = [i \in 1..Len(TheMessages(m, s)) |-> TheMessages(m, s)[i].about]
      BY MessagesType
    <3>2. MessagesOf(m, s) = [i \in 1..Len(those) |-> those[i].about]
      BY <3>1, <3>4
    <3>3. those = << >> /\ Len(those) = 0
      BY <1>1, <2>2, <3>0, <3>1
    <3> QED BY <3>0, <3>2, <3>3
  <2>4. 1..0 = {}
    OBVIOUS
  <2> QED BY <2>3, <2>4 DEF Upto
<1>3. Reliable(0, FALSE, << >>, << >>, m, 0)
  BY <1>1, <1>2 DEF Reliable
<1>4. /\ Told(FALSE, reason, << >> \o << >>, m)
      /\ Heard(FALSE, reason, mine, left, FALSE, << >> \o << >>, m)
  BY <1>1 DEF Told, Heard
<1> QED BY <1>3, <1>4 DEF Link

\* The invariant holds at the start,
LEMMA EInvInit == EnvironmentInit => EInv
<1> SUFFICES ASSUME EnvironmentInit PROVE EInv
  OBVIOUS
<1>1. /\ listed = {1} /\ nextVM = 2 /\ 1 \in Machines
      /\ vm[1] = NewMachine(1, 1) /\ \A m \in Machines : m # 1 => vm[m] = NoMachine
  BY InitialIsMachine DEF EnvironmentInit, InitialVMIdentifier
<1>2. ASSUME NEW m \in Machines
      PROVE  /\ vm[m].pc = (IF m = 1 THEN "running" ELSE "none")
             /\ vm[m].events = << >> /\ vm[m].monitors = << >> /\ vm[m].left = << >>
             /\ vm[m].portClosed = FALSE /\ vm[m].streamAsked = FALSE /\ vm[m].stream = << >>
             /\ vm[m].asyncIONodes = 0 /\ vm[m].reason = "normal" /\ vm[m].status = 0
  <2>1. CASE m = 1
    BY <1>1, <2>1 DEF NewMachine
  <2>2. CASE m # 1
    BY <1>1, <2>2 DEF NoMachine, NewMachine
  <2> QED BY <2>1, <2>2
<1>3. /\ started = [m \in Machines |-> [k \in IOs |-> 0]]
      /\ sent = [m \in Machines |-> [t \in Machines |-> 0]]
  BY DEF EnvironmentInit
<1>4. ASSUME NEW m \in Machines
      PROVE  Fit(vm[m], m, nextVM) /\ Settled(vm[m], m, listed, nextVM, started, sent)
  <2>1. PICK r : r = vm[m]
    OBVIOUS
  <2>2. /\ r.pc = (IF m = 1 THEN "running" ELSE "none")
        /\ r.events = << >> /\ r.monitors = << >> /\ r.left = << >>
        /\ r.portClosed = FALSE /\ r.streamAsked = FALSE /\ r.stream = << >>
        /\ r.asyncIONodes = 0 /\ r.reason = "normal" /\ r.status = 0
    BY <1>2, <2>1
  <2>3. << >> \in Seq(Event) /\ << >> \in Seq(Nat) /\ Len(<< >>) = 0
    BY EmptyStream
  <2>4. m \in Nat /\ m >= 1 /\ (m < 2 <=> m = 1)
    BY DEF Machines
  <2>5. Typed(r) /\ ~Over(r) /\ r.pc # "pickling"
    <3>1. /\ r.events \in Seq(Event) /\ r.stream \in Seq(Event)
          /\ r.monitors \in Seq(Nat) /\ r.left \in Seq(Nat)
      BY <2>2, <2>3
    <3>2. r.pc \in Pcs /\ r.reason \in Reasons /\ ~Over(r) /\ r.pc # "pickling"
      BY <2>2 DEF Pcs, Reasons, Over
    <3>3. r.portClosed \in BOOLEAN /\ r.streamAsked \in BOOLEAN
      BY <2>2, Zenon
    <3>4. r.asyncIONodes \in Nat /\ r.status \in {0, 1}
      BY <2>2
    <3> QED BY <3>1, <3>2, <3>3, <3>4 DEF Typed
  <2>6. Fit(r, m, 2)
    <3>1. r.pc # "none" <=> m < 2
      BY <2>2, <2>4
    <3>2. \A i \in 1..Len(<< >>) : FALSE
      BY <2>3
    <3> QED BY <2>2, <2>5, <3>1, <3>2 DEF Fit
  <2>7. m < 2 /\ m \notin listed => r.pc \in {"removed", "gone"}
    BY <1>1, <2>4
  <2>8. m >= 2 => /\ r = NoMachine /\ m \notin listed
                  /\ \A k \in IOs : started[m][k] = 0
                  /\ \A x \in Machines : sent[x][m] = 0
    BY <1>1, <1>3, <2>1, <2>4
  <2> QED BY <1>1, <2>1, <2>5, <2>6, <2>7, <2>8 DEF Settled
<1>5. Well(vm, listed, nextVM, started, sent)
  BY <1>1, <1>3, <1>4 DEF Well
<1>6. Counting(vm, listed, started)
  <2>1. NodesReleased(vm[1].events) = 0
    BY <1>1, <1>2, ReleasedOne
  <2>2. started[1]["read"] = 0 /\ started[1]["write"] = 0
    BY <1>1, <1>3 DEF IOs
  <2>3. vm[1].portClosed = FALSE /\ vm[1].streamAsked = FALSE /\ vm[1].asyncIONodes = 0
    BY <1>1, <1>2
  <2>4. Balanced(vm[1], started[1])
    BY <2>1, <2>2, <2>3 DEF Balanced, Bit
  <2> QED BY <1>1, <2>4 DEF Counting
<1>7. LinkedAll(vm, sent)
  <2>1. ASSUME NEW m \in Machines, NEW t \in Machines PROVE Linked(vm[m], vm[t], m, t, sent[m][t])
    <3>1. Over(vm[m]) = FALSE /\ OnItsWay(vm[m], t) = 0
      <4>1. vm[m].pc \in {"running", "none"}
        BY <1>2
      <4> QED BY <4>1 DEF Over, OnItsWay, Bit
    <3>2. Queue(vm[t]) = << >>
      <4>1. PICK I : I = {i \in 1..Len(<< >>) : ForStream(<< >>[i])}
        OBVIOUS
      <4> QED BY <1>2, <4>1, SelectOfEmpty, ZenonT(40) DEF Queue, Those
    <3>3. sent[m][t] = 0 /\ vm[t].portClosed = FALSE /\ vm[t].stream = << >>
      BY <1>2, <1>3
    <3> QED BY <3>1, <3>2, <3>3, NothingSaid DEF Linked
  <2> QED BY <2>1 DEF LinkedAll
<1> QED BY <1>5, <1>6, <1>7 DEF EInv

\* every step keeps it,
LEMMA EInvStep == IInv /\ EInv /\ [EnvironmentNext]_environmentVars => EInv'
<1> SUFFICES ASSUME IInv, EInv, [EnvironmentNext]_environmentVars PROVE EInv'
  OBVIOUS
<1>1. ASSUME NEW m \in Machines, BuiltIn(m) PROVE EInv'
  BY <1>1, NewKeeps, GetStreamKeeps, CloseStreamKeeps, CrashKeeps, SendKeeps, MonitorKeeps,
     KillKeeps, StartKeeps DEF BuiltIn
<1>2. ASSUME NEW m \in Machines, Ending(m) PROVE EInv'
  BY <1>2, TerminateKeeps, NotifyMonitorKeeps, StateKeeps DEF Ending
<1>3. ASSUME NEW m \in Machines,
             SendPickled(m) \/ HandleEvents(m) \/ FinishVM(m) \/ Wait(m)
      PROVE  EInv'
  BY <1>3, SendPickledKeeps, HandleKeeps, StateKeeps
<1>4. ASSUME NEW m \in Machines, NEW k \in IOs, CompleteIO(m, k) PROVE EInv'
  BY <1>4, CompleteKeeps
<1>5. ASSUME Notify \/ RunIO \/ UNCHANGED environmentVars PROVE EInv'
  BY <1>5, NotifyLinks, RestKeeps
<1> QED BY <1>1, <1>2, <1>3, <1>4, <1>5 DEF EnvironmentNext

\* and so it always holds.
LEMMA EInvHolds == EnvironmentSpec => []EInv
<1>1. EnvironmentInit => EInv
  BY EInvInit
<1>2. IInv /\ EInv /\ [EnvironmentNext]_environmentVars => EInv'
  BY EInvStep
<1> QED BY <1>1, <1>2, IInvHolds, PTL DEF EnvironmentSpec

\* A machine counts the nodes that are still to be bound, whichever answers, posts
\* and requests interleave (boostvm-decl.hh, the count of nodes for asynchronous
\* inputs and outputs; boostvm.cc, getStream and closeStream).
THEOREM NodesAreCounted == EnvironmentSpec => []AsyncCounts
<1>1. EInv => AsyncCounts
  BY DEF EInv, Counting, Balanced, AsyncCounts, NodesStarted
<1> QED BY <1>1, EInvHolds, PTL

\* A machine receives what another one has sent to it, in this order and once, as
\* long as its port is open (boostvm.cc, sendOnVMPort and receiveOnVMStream).
THEOREM PortsAreReliable == EnvironmentSpec => []PortIsReliable
<1>1. ASSUME EInv, NEW m \in Machines, NEW t \in Machines
      PROVE  LET onItsWay == Bit(vm[m].pc = "pickling" /\ vm[m].target = t)
                 received == MessagesOf(m, vm[t].stream)
             IN IF vm[t].portClosed
                THEN received = [i \in 1..Len(received) |-> i] /\ Len(received) <= sent[m][t]
                ELSE MessagesOf(m, Incoming(t)) = [i \in 1..(sent[m][t] - onItsWay) |-> i]
  <2>1. Reliable(OnItsWay(vm[m], t), vm[t].portClosed, vm[t].stream, Queue(vm[t]), m, sent[m][t])
    BY <1>1 DEF EInv, LinkedAll, Linked, Link
  <2> QED BY <2>1 DEF Reliable, OnItsWay, Upto, Incoming, Queue
<1>2. EInv => PortIsReliable
  BY <1>1 DEF PortIsReliable
<1> QED BY <1>2, EInvHolds, PTL

\* What has been said of the end of m to t.
LEMMA TermsOfEnd ==
    ASSUME EInv, NEW m \in Machines, NEW t \in Machines
    PROVE  /\ Incoming(t) \in Seq(Event)
           /\ vm[m].reason \in Reasons
           /\ Terminations(m, t) = {i \in 1..Len(Incoming(t)) : IsTermination(Incoming(t)[i], m)}
           /\ Told(Over(vm[m]), vm[m].reason, Incoming(t), m)
           /\ Heard(Over(vm[m]), vm[m].reason, Count(vm[m].monitors, t), Count(vm[m].left, t),
                    vm[t].portClosed, Incoming(t), m)
           /\ Count(vm[m].monitors, t) \in Nat /\ Count(vm[m].left, t) \in Nat
<1>1. Well(vm, listed, nextVM, started, sent) /\ Linked(vm[m], vm[t], m, t, sent[m][t])
  BY DEF EInv, LinkedAll
<1>2. Incoming(t) = vm[t].stream \o Queue(vm[t])
  BY DEF Incoming, Queue
<1>3. /\ vm[t].stream \in Seq(Event) /\ Queue(vm[t]) \in Seq(Event) /\ vm[m].reason \in Reasons
      /\ Count(vm[m].monitors, t) \in Nat /\ Count(vm[m].left, t) \in Nat
  BY <1>1, PairTypes
<1>4. Incoming(t) \in Seq(Event)
  BY <1>2, <1>3, ConcatProperties
<1>5. Terminations(m, t) = {i \in 1..Len(Incoming(t)) : IsTermination(Incoming(t)[i], m)}
  BY DEF Terminations, IsTermination
<1>6. /\ Told(Over(vm[m]), vm[m].reason, Incoming(t), m)
      /\ Heard(Over(vm[m]), vm[m].reason, Count(vm[m].monitors, t), Count(vm[m].left, t),
               vm[t].portClosed, Incoming(t), m)
  BY <1>1, <1>2 DEF Linked, Link
<1> QED BY <1>3, <1>4, <1>5, <1>6

\* The record of the end of a machine comes after all of its messages
\* (boostvm.cc, terminate).
THEOREM TerminationComesLast == EnvironmentSpec => []TerminatedIsLast
<1>1. ASSUME EInv, NEW m \in Machines, NEW t \in Machines, NEW i \in Terminations(m, t)
      PROVE  /\ vm[m].pc \in {"notifying", "removed", "gone"}
             /\ \A j \in (i + 1)..Len(Incoming(t)) :
                   ~(Incoming(t)[j].kind = "message" /\ Incoming(t)[j].from = m)
  <2>1. i \in 1..Len(Incoming(t)) /\ IsTermination(Incoming(t)[i], m)
    BY <1>1, TermsOfEnd
  <2>2. Over(vm[m]) /\ \A j \in (i + 1)..Len(Incoming(t)) : ~IsMessageOf(Incoming(t)[j], m)
    BY <1>1, <2>1, TermsOfEnd DEF Told
  <2> QED BY <2>2 DEF Over, IsMessageOf
<1>2. EInv => TerminatedIsLast
  BY <1>1 DEF TerminatedIsLast
<1> QED BY <1>2, EInvHolds, PTL

\* A machine that has told its monitors has told each as often as it asked, of the
\* right reason (boostvm.cc, notifyMonitors).
THEOREM MonitorsAreTold == EnvironmentSpec => []MonitorsHear
<1>1. ASSUME EInv, NEW m \in Machines, NEW t \in Machines
      PROVE  LET mine == HowMany(vm[m].monitors, LAMBDA x : x = t)
                 left == HowMany(vm[m].left, LAMBDA x : x = t)
                 told == Terminations(m, t)
             IN IF vm[m].pc \in {"notifying", "removed", "gone"} /\ ~vm[t].portClosed
                THEN /\ told = {} <=> mine = left
                     /\ \A i, j \in told : Incoming(t)[i] = Incoming(t)[j]
                     /\ HowMany(Incoming(t), LAMBDA e : e = Termination(m, vm[m].reason))
                          = mine - left
                ELSE vm[m].pc \notin {"notifying", "removed", "gone"} => told = {}
  <2>1. PICK s, r, o, c, end :
           /\ s \in Seq(Event) /\ r \in Reasons /\ s = Incoming(t) /\ r = vm[m].reason /\ o = Over(vm[m]) /\ c = vm[t].portClosed
           /\ end = Termination(m, r)
    BY <1>1, TermsOfEnd
  <2>2. PICK mine \in Nat, left \in Nat, n \in Nat :
           /\ mine = Count(vm[m].monitors, t) /\ left = Count(vm[m].left, t) /\ n = Count(s, end)
    BY <1>1, <2>1, TermsOfEnd, CountType
  <2>3. Told(o, r, s, m) /\ Heard(o, r, mine, left, c, s, m)
    BY <1>1, <2>1, <2>2, TermsOfEnd
  <2>4. Terminations(m, t) = {i \in 1..Len(s) : IsTermination(s[i], m)}
    BY <1>1, <2>1, TermsOfEnd
  <2>5. \A i \in Terminations(m, t) : o /\ s[i] = end
    BY <2>1, <2>3, <2>4 DEF Told
  <2>6. IsTermination(end, m)
    BY <2>1 DEF IsTermination, Termination, Reasons
  <2>7. Terminations(m, t) = {} <=> n = 0
    <3>1. s \in Seq(Event)
      BY <2>1
    <3>2. n = 0 <=> \A i \in 1..Len(s) : s[i] # end
      BY <2>2, <3>1, CountType
    <3> QED BY <2>4, <2>5, <2>6, <3>2
  <2>8. o /\ ~c => n + left = mine
    BY <2>1, <2>2, <2>3 DEF Heard
  <2>9. o /\ ~c => (n = 0 <=> mine = left) /\ n = mine - left
    BY <2>8
  <2>10. /\ mine = HowMany(vm[m].monitors, LAMBDA x : x = t)
         /\ left = HowMany(vm[m].left, LAMBDA x : x = t)
         /\ n = HowMany(Incoming(t), LAMBDA e : e = Termination(m, vm[m].reason))
    BY <2>1, <2>2 DEF Count
  <2>11. o <=> vm[m].pc \in {"notifying", "removed", "gone"}
    BY <2>1 DEF Over
  <2> QED BY <2>1, <2>5, <2>7, <2>9, <2>10, <2>11
<1>2. EInv => MonitorsHear
  BY <1>1 DEF MonitorsHear
<1> QED BY <1>2, EInvHolds, PTL

\* What EnvironmentTypeOK says of the environment itself.
Bounded ==
    /\ nextVM \in 2..(MaxMachines + 1)
    /\ post.by \in Machines \cup {Nobody} /\ post.to \in Machines \cup {Nobody}
    /\ exitCode \in {0, 1} /\ ended \in BOOLEAN
    /\ calls \in 0..MaxCalls

\* A post is by a machine or by the I/O thread, to a machine or to none.
LEMMA PostTypes ==
    ASSUME IInv, NEW by \in Machines \cup {Nobody}, NEW r, NEW to, NEW e, Push(by, r, to, e), Bounded
    PROVE  post'.by \in Machines \cup {Nobody} /\ post'.to \in Machines \cup {Nobody}
BY DEF Push, IInv, Numbered, Bounded

\* The bound on the calls.
LEMMA CountedBound == ASSUME Bounded, Counted PROVE calls' \in 0..MaxCalls
BY EnvironmentAssumption DEF Bounded, Counted

\* Every step keeps the ranges.
LEMMA BoundedStep == IInv /\ EInv /\ Bounded /\ [EnvironmentNext]_environmentVars => Bounded'
<1> SUFFICES ASSUME IInv, EInv, Bounded, [EnvironmentNext]_environmentVars PROVE Bounded'
  OBVIOUS
<1>1. ASSUME NEW m \in Machines, New(m) PROVE Bounded'
  <2>1. nextVM + 1 \in 2..(MaxMachines + 1)
    BY <1>1, EnvironmentAssumption DEF Bounded, New
  <2> QED BY <1>1, <2>1, CountedBound DEF Bounded, New
<1>2. ASSUME NEW m \in Machines,
             \/ GetStream(m) \/ CloseStream(m) \/ Crash(m)
             \/ \E t \in Machines : Send(m, t)
             \/ \E k \in IOs : StartAsyncIO(m, k)
      PROVE  Bounded'
  BY <1>2, CountedBound DEF Bounded, GetStream, CloseStream, Crash, Send, StartAsyncIO
<1>3. ASSUME NEW m \in Machines, NEW t \in Machines, Monitor(m, t) PROVE Bounded'
  <2>1. PICK r, e : Push(m, r, t, e)
    BY <1>3 DEF Monitor
  <2>2. post'.by \in Machines \cup {Nobody} /\ post'.to \in Machines \cup {Nobody}
    BY <2>1, PostTypes
  <2> QED BY <1>3, <2>2, CountedBound DEF Bounded, Monitor
<1>4. ASSUME NEW m \in Machines, NEW t \in Machines, NEW x \in {"kill", "normal"}, Kill(m, t, x)
      PROVE  Bounded'
  <2>1. PICK r, e : Push(m, r, t, e)
    BY <1>4 DEF Kill
  <2>2. post'.by \in Machines \cup {Nobody} /\ post'.to \in Machines \cup {Nobody}
    BY <2>1, PostTypes
  <2> QED BY <1>4, <2>2, CountedBound DEF Bounded, Kill
<1>5. ASSUME NEW m \in Machines, SendPickled(m) \/ NotifyMonitor(m) PROVE Bounded'
  <2>1. PICK r, to, e : Push(m, r, to, e)
    BY <1>5 DEF SendPickled, NotifyMonitor
  <2>2. post'.by \in Machines \cup {Nobody} /\ post'.to \in Machines \cup {Nobody}
    BY <2>1, PostTypes
  <2> QED BY <1>5, <2>2 DEF Bounded, SendPickled, NotifyMonitor
<1>6. ASSUME NEW m \in Machines, NEW k \in IOs, CompleteIO(m, k) PROVE Bounded'
  <2>1. PICK r, e : Push(Nobody, r, m, e)
    BY <1>6 DEF CompleteIO
  <2>2. post'.by \in Machines \cup {Nobody} /\ post'.to \in Machines \cup {Nobody}
    BY <2>1, PostTypes
  <2> QED BY <1>6, <2>2 DEF Bounded, CompleteIO
<1>7. ASSUME NEW m \in Machines,
             HandleEvents(m) \/ FinishVM(m) \/ Wait(m) \/ TerminateVM(m) \/ RemoveVM(m)
      PROVE  Bounded'
  BY <1>7 DEF Bounded, HandleEvents, FinishVM, Wait, TerminateVM, RemoveVM
<1>8. ASSUME NEW m \in Machines, DeleteWork(m) PROVE Bounded'
  <2>1. vm[m].status \in {0, 1}
    BY DEF EInv, Well, Fit, Typed
  <2> QED BY <1>8, <2>1 DEF Bounded, DeleteWork
<1>9. ASSUME Notify \/ RunIO \/ UNCHANGED environmentVars PROVE Bounded'
  <2>1. CASE Notify
    BY <2>1 DEF Bounded, Notify, NoPost
  <2>2. CASE RunIO
    BY <2>2, Zenon DEF Bounded, RunIO
  <2>3. CASE UNCHANGED environmentVars
    BY <2>3 DEF Bounded, environmentVars
  <2> QED BY <1>9, <2>1, <2>2, <2>3
<1>10. ASSUME NEW m \in Machines, BuiltIn(m) PROVE Bounded'
  BY <1>1, <1>2, <1>3, <1>4, <1>10 DEF BuiltIn
<1>11. ASSUME NEW m \in Machines, Ending(m) PROVE Bounded'
  BY <1>5, <1>7, <1>8, <1>11 DEF Ending
<1> QED BY <1>5, <1>6, <1>7, <1>9, <1>10, <1>11 DEF EnvironmentNext

\* The state of the environment and of its machines is always of the right type.
THEOREM EnvironmentTypes == EnvironmentSpec => []EnvironmentTypeOK
<1>1. EnvironmentInit => Bounded
  <2> SUFFICES ASSUME EnvironmentInit PROVE Bounded
    OBVIOUS
  <2>1. post = NoPost /\ exitCode = 0 /\ ended \in BOOLEAN /\ nextVM = 2 /\ calls = 0
    <3>1. ended \in BOOLEAN
      BY Zenon DEF EnvironmentInit
    <3>2. post = NoPost /\ exitCode = 0 /\ nextVM = 2 /\ calls = 0
      BY DEF EnvironmentInit, InitialVMIdentifier
    <3> QED BY <3>1, <3>2
  <2>2. 2 \in 2..(MaxMachines + 1) /\ 0 \in 0..MaxCalls
    BY EnvironmentAssumption
  <2> QED BY <2>1, <2>2 DEF Bounded, NoPost
<1>2. IInv /\ EInv /\ Bounded /\ [EnvironmentNext]_environmentVars => Bounded'
  BY BoundedStep
<1>3. EInv /\ Bounded => EnvironmentTypeOK
  <2>1. ASSUME EInv, NEW m \in Machines
        PROVE  /\ vm[m].pc \in {"none", "running", "pickling", "waiting", "ending", "notifying",
                                "removed", "gone"}
               /\ \A i \in 1..Len(vm[m].events) : vm[m].events[i].kind \in EventKinds
               /\ \A i \in 1..Len(vm[m].stream) : ForStream(vm[m].stream[i])
               /\ \A i \in 1..Len(vm[m].monitors) : vm[m].monitors[i] \in Machines \ {m}
               /\ vm[m].asyncIONodes \in Nat
               /\ vm[m].reason \in Reasons /\ vm[m].status \in {0, 1}
               /\ \A k \in IOs : started[m][k] \in Nat
    <3>1. Fit(vm[m], m, nextVM) /\ started \in [Machines -> [IOs -> Nat]]
      BY <2>1 DEF EInv, Well
    <3>2. PICK s \in Seq(Event) : s = vm[m].events
      BY <3>1 DEF Fit, Typed
    <3>3. \A i \in 1..Len(s) : s[i].kind \in EventKinds
      <4>1. ASSUME NEW i \in 1..Len(s) PROVE s[i].kind \in EventKinds
        <5>1. s[i] \in Event
          BY ElementOfSeq
        <5> QED BY <5>1 DEF Event
      <4> QED BY <4>1
    <3>4. \A i \in 1..Len(vm[m].monitors) : vm[m].monitors[i] \in Machines \ {m}
      BY <3>1 DEF Fit, Peer
    <3> QED BY <3>1, <3>2, <3>3, <3>4 DEF Fit, Typed, Pcs
  <2>2. EInv => listed \subseteq Machines
    BY DEF EInv, Well
  <2> QED BY <2>1, <2>2 DEF Bounded, EnvironmentTypeOK
<1> QED BY <1>1, <1>2, <1>3, IInvHolds, EInvHolds, PTL DEF EnvironmentSpec

=============================================================================
