-------------------------- MODULE PreemptionProofs --------------------------
(***************************************************************************)
(* The order of the two flags in requestExitRun() loses no request, and    *)
(* the preemption timer is deleted after the last handler that uses it,    *)
(* for every bound on threads, requests and handlers.                      *)
(***************************************************************************)
EXTENDS Preemption, TLAPS

\* Only the flags that RequestsArrive is about.
Flags == preemptRequested \in BOOLEAN /\ alive \in BOOLEAN

IInv == Flags /\ RequestsArrive

\* The machine's thread sets at most the two flags of a collection, both, and an
\* Oz thread starts to run only when neither request is there.
LEMMA MachineKeepsRequests ==
  ASSUME IInv, MachineStep \/ ThreadStep \/ SpuriousWakeup
  PROVE  IInv'
  <1> USE DEF IInv, Flags, RequestsArrive, flagVars, eventVars, threadVars, timerVars
  <1>1. CASE Call
    BY <1>1 DEF Call
  <1>2. CASE ExitRun
    BY <1>2 DEF ExitRun, Return
  <1>3. CASE Turn
    BY <1>3 DEF Turn, Return
  <1>4. CASE TestPreemption
    BY <1>4 DEF TestPreemption
  <1>5. CASE Finish
    BY <1>5 DEF Finish
  <1>6. CASE HandleEvent
    BY <1>6 DEF HandleEvent
  <1>7. CASE InvokeAgainNow
    BY <1>7 DEF InvokeAgainNow
  <1>8. CASE Sleep
    BY <1>8 DEF Sleep
  <1>9. CASE Terminate
    BY <1>9 DEF Terminate
  <1>10. CASE RemoveTerminatedVM
    BY <1>10 DEF RemoveTerminatedVM
  <1>11. CASE ThreadEnds
    BY <1>11 DEF ThreadEnds
  <1>12. CASE Spawn
    BY <1>12 DEF Spawn
  <1>13. CASE SetAlarm
    BY <1>13 DEF SetAlarm
  <1>14. CASE StartIO
    BY <1>14 DEF StartIO
  <1>15. CASE RequestGC
    BY <1>15 DEF RequestGC
  <1>16. CASE SpuriousWakeup
    BY <1>16 DEF SpuriousWakeup
  <1> QED
    BY <1>1, <1>2, <1>3, <1>4, <1>5, <1>6, <1>7, <1>8, <1>9, <1>10, <1>11, <1>12, <1>13,
       <1>14, <1>15, <1>16 DEF MachineStep, ThreadStep

\* A poster requests the exit first, and to preempt next; between the two it is
\* at "first".
LEMMA PosterKeepsRequests ==
  ASSUME IInv, PosterStep \/ \E e \in PostedEvents : PostEvent(e)
  PROVE  IInv'
  <1> USE DEF IInv, Flags, RequestsArrive, flagVars, eventVars, threadVars, timerVars
  <1>1. CASE RequestExitRun
    BY <1>1 DEF RequestExitRun
  <1>2. CASE NotifyAll
    BY <1>2 DEF NotifyAll, Notified
  <1>3. ASSUME NEW e \in PostedEvents, PostEvent(e) PROVE IInv'
    BY <1>3 DEF PostEvent
  <1> QED
    BY <1>1, <1>2, <1>3 DEF PosterStep

\* A handler sets the flag of preemption and clears none.
LEMMA HandlersKeepRequests ==
  ASSUME IInv, IOStep \/ TimerExpires \/ AlarmTimerExpires \/ AlarmTimeComes
  PROVE  IInv'
  <1> USE DEF IInv, Flags, RequestsArrive, flagVars, eventVars, threadVars, timerVars
  <1>1. CASE ArmTimer
    BY <1>1 DEF ArmTimer
  <1>2. CASE StopTimer
    BY <1>2 DEF StopTimer
  <1>3. CASE OnPreemptionTimerExpire
    BY <1>3 DEF OnPreemptionTimerExpire
  <1>4. CASE StopTimerForGood
    BY <1>4 DEF StopTimerForGood
  <1>5. CASE DeleteTimer
    BY <1>5 DEF DeleteTimer
  <1>6. CASE OnAlarm
    BY <1>6 DEF OnAlarm, Notified
  <1>7. CASE TimerExpires
    BY <1>7 DEF TimerExpires
  <1>8. CASE AlarmTimerExpires
    BY <1>8 DEF AlarmTimerExpires
  <1>9. CASE AlarmTimeComes
    BY <1>9 DEF AlarmTimeComes
  <1> QED
    BY <1>1, <1>2, <1>3, <1>4, <1>5, <1>6, <1>7, <1>8, <1>9 DEF IOStep

\* While an Oz thread runs, a request to leave the loop that has been made
\* entirely, or to collect garbage, comes with a request to preempt, however the
\* machine, the poster and the timers interleave (vm-decl.hh, requestExitRun).
THEOREM NoRequestIsLost == PreemptionSpec => []RequestsArrive
  <1>1. PreemptionInit => IInv
    BY DEF PreemptionInit, IInv, Flags, RequestsArrive
  <1>2. IInv /\ [PreemptionNext]_preemptionVars => IInv'
    <2> SUFFICES ASSUME IInv, [PreemptionNext]_preemptionVars PROVE IInv'
      OBVIOUS
    <2>1. CASE PreemptionNext
      BY <2>1, MachineKeepsRequests, PosterKeepsRequests, HandlersKeepRequests
         DEF PreemptionNext
    <2>2. CASE UNCHANGED preemptionVars
      BY <2>2 DEF preemptionVars, flagVars, eventVars, threadVars, timerVars, IInv, Flags,
                  RequestsArrive
    <2> QED
      BY <2>1, <2>2
  <1>3. IInv => RequestsArrive
    BY DEF IInv
  <1> QED
    BY <1>1, <1>2, <1>3, PTL DEF PreemptionSpec

-----------------------------------------------------------------------------
(* The end of the preemption timer *)

Closed == at \in {"closing", "gone"}

Before(h) == h \in {"arm", "stop"}

\* The machine posts no handler after "stopTimer", and what is posted behind it
\* comes from a timer that still waits; behind "deleteTimer" nothing comes from
\* it, because the stopped timer is not armed again.
Queued ==
    /\ handlers \in Seq(Handlers)
    /\ \A i \in 1..Len(handlers) : handlers[i] \in {"stopTimer", "deleteTimer"} => Closed
    /\ \A i \in 1..Len(handlers) : handlers[i] = "stopTimer" =>
          \A j \in (i + 1)..Len(handlers) :
             ~Before(handlers[j]) /\ handlers[j] \notin {"stopTimer", "deleteTimer"}
    /\ \A i \in 1..Len(handlers) : handlers[i] = "deleteTimer" =>
          /\ expiryMax /\ ~timerWaits /\ ~timerDeleted
          /\ \A j \in 1..Len(handlers) : ~Before(handlers[j]) /\ handlers[j] # "stopTimer"
          /\ \A j \in (i + 1)..Len(handlers) : ~OfTimer(handlers[j])

TimerInv == Queued /\ (timerDeleted => Closed) /\ TimerOutlivesHandlers

LEMMA AppendHandler ==
  ASSUME handlers \in Seq(Handlers), NEW h \in Handlers, handlers' = Append(handlers, h)
  PROVE  /\ handlers' \in Seq(Handlers) /\ Len(handlers) \in Nat
         /\ Len(handlers') = Len(handlers) + 1
         /\ handlers'[Len(handlers) + 1] = h
         /\ \A i \in 1..Len(handlers) : handlers'[i] = handlers[i]
  OBVIOUS

LEMMA TakeFirst ==
  ASSUME handlers \in Seq(Handlers), NEW h, TakeHandler(h)
  PROVE  /\ handlers' \in Seq(Handlers) /\ Len(handlers) \in Nat \ {0} /\ handlers[1] = h
         /\ Len(handlers') = Len(handlers) - 1
         /\ \A i \in 1..Len(handlers') : handlers'[i] = handlers[i + 1]
  BY DEF TakeHandler

\* Before the machine ends, nothing is asked of the timer that is final.
LEMMA OpenStep ==
  ASSUME TimerInv, ~Closed, ~Closed', timerDeleted' = timerDeleted,
         \/ handlers' = handlers
         \/ \E h \in {"arm", "stop", "alarm", "expired"} : handlers' = Append(handlers, h)
  PROVE  TimerInv'
  <1>1. ~timerDeleted'
    BY DEF TimerInv
  <1>2. handlers \in Seq(Handlers)
        /\ \A i \in 1..Len(handlers) : handlers[i] \notin {"stopTimer", "deleteTimer"}
    BY DEF TimerInv, Queued
  <1>3. handlers' \in Seq(Handlers)
        /\ \A i \in 1..Len(handlers') : handlers'[i] \notin {"stopTimer", "deleteTimer"}
    <2>1. CASE handlers' = handlers
      BY <1>2, <2>1
    <2>2. ASSUME NEW h \in {"arm", "stop", "alarm", "expired"}, handlers' = Append(handlers, h)
          PROVE  <1>3!:
      <3>1. h \in Handlers
        BY DEF Handlers
      <3> QED
        BY <1>2, <2>2, <3>1, AppendHandler
    <2> QED
      BY <2>1, <2>2
  <1> QED
    BY <1>1, <1>3 DEF TimerInv, Queued, TimerOutlivesHandlers

\* A handler that is put at the end of the queue.
LEMMA AppendKeeps ==
  ASSUME TimerInv, NEW h \in {"alarm", "expired"}, handlers' = Append(handlers, h),
         h = "expired" => timerWaits,
         at' = at, expiryMax' = expiryMax, timerDeleted' = timerDeleted,
         timerWaits' = timerWaits \/ timerWaits' = FALSE
  PROVE  TimerInv'
  <1>1. h \in Handlers /\ ~Before(h)
    BY DEF Handlers, Before
  <1>2. handlers \in Seq(Handlers)
    BY DEF TimerInv, Queued
  <1> USE <1>1, <1>2, AppendHandler
  <1>3. Queued'
    BY DEF TimerInv, Queued, Closed, OfTimer
  <1>4. TimerOutlivesHandlers'
    BY DEF TimerInv, TimerOutlivesHandlers, OfTimer
  <1> QED
    BY <1>3, <1>4 DEF TimerInv, Closed

LEMMA MachineKeepsTimer ==
  ASSUME TimerInv, MachineStep \/ ThreadStep \/ SpuriousWakeup
  PROVE  TimerInv'
  <1> USE DEF Closed, flagVars, eventVars, threadVars, timerVars
  <1>1. CASE Terminate
    <2>1. handlers \in Seq(Handlers) /\ "stopTimer" \in Handlers /\ ~timerDeleted
      BY <1>1 DEF Terminate, TimerInv, Queued, Handlers
    <2>2. \A i \in 1..Len(handlers) : handlers[i] \notin {"stopTimer", "deleteTimer"}
      BY <1>1 DEF Terminate, TimerInv, Queued
    <2>3. handlers' = Append(handlers, "stopTimer") /\ at' = "closing"
          /\ timerDeleted' = timerDeleted
      BY <1>1 DEF Terminate
    <2>4. Queued'
      BY <2>1, <2>2, <2>3, AppendHandler DEF Queued
    <2> QED
      BY <2>1, <2>3, <2>4 DEF TimerInv, TimerOutlivesHandlers
  <1>2. CASE RemoveTerminatedVM
    BY <1>2 DEF RemoveTerminatedVM, TimerInv, Queued, TimerOutlivesHandlers
  <1>3. CASE Call
    BY <1>3, OpenStep DEF Call
  <1>4. CASE ExitRun \/ Turn
    BY <1>4, OpenStep DEF ExitRun, Turn, Return
  <1>5. CASE TestPreemption \/ ThreadStep
    BY <1>5, OpenStep
       DEF TestPreemption, ThreadStep, ThreadEnds, Spawn, SetAlarm, StartIO, RequestGC
  <1>6. CASE Finish \/ HandleEvent \/ InvokeAgainNow \/ Sleep \/ SpuriousWakeup
    BY <1>6, OpenStep DEF Finish, HandleEvent, InvokeAgainNow, Sleep, SpuriousWakeup
  <1> QED
    BY <1>1, <1>2, <1>3, <1>4, <1>5, <1>6 DEF MachineStep

LEMMA OthersKeepTimer ==
  ASSUME TimerInv,
         \/ \E e \in PostedEvents : PostEvent(e)
         \/ PosterStep \/ AlarmTimeComes \/ TimerExpires \/ AlarmTimerExpires
  PROVE  TimerInv'
  <1> USE DEF flagVars, eventVars, threadVars, timerVars
  <1>1. ASSUME UNCHANGED <<handlers, timerDeleted, timerWaits, expiryMax>>, Closed' <=> Closed
        PROVE  TimerInv'
    BY <1>1 DEF TimerInv, Queued, TimerOutlivesHandlers
  <1>2. ASSUME NEW e \in PostedEvents, PostEvent(e) PROVE TimerInv'
    BY <1>1, <1>2 DEF PostEvent, Closed
  <1>3. CASE PosterStep
    BY <1>1, <1>3 DEF PosterStep, RequestExitRun, NotifyAll, Notified, Closed
  <1>4. CASE AlarmTimeComes
    BY <1>1, <1>4 DEF AlarmTimeComes, Closed
  <1>5. CASE TimerExpires
    BY <1>5, AppendKeeps DEF TimerExpires
  <1>6. CASE AlarmTimerExpires
    BY <1>6, AppendKeeps DEF AlarmTimerExpires
  <1> QED
    BY <1>2, <1>3, <1>4, <1>5, <1>6

\* The I/O thread takes the first handler of the queue.
LEMMA IOKeepsTimer == ASSUME TimerInv, IOStep PROVE TimerInv'
  <1> USE DEF flagVars, eventVars, threadVars, timerVars
  <1>1. handlers \in Seq(Handlers)
    BY DEF TimerInv, Queued
  <1>2. CASE ArmTimer \/ StopTimer
    <2>1. PICK h \in {"arm", "stop"} : TakeHandler(h) /\ at' = at /\ timerDeleted' = timerDeleted
      BY <1>2 DEF ArmTimer, StopTimer
    <2>2. /\ handlers' \in Seq(Handlers) /\ Len(handlers) \in Nat \ {0} /\ handlers[1] = h
          /\ Len(handlers') = Len(handlers) - 1
          /\ \A i \in 1..Len(handlers') : handlers'[i] = handlers[i + 1]
      BY <1>1, <2>1, TakeFirst
    <2>3. ~timerDeleted
      BY <2>2 DEF TimerInv, TimerOutlivesHandlers, OfTimer
    <2>4. \A i \in 1..Len(handlers) : handlers[i] # "deleteTimer"
      BY <2>2 DEF TimerInv, Queued, Before
    <2>5. Queued'
      BY <2>1, <2>2, <2>4 DEF TimerInv, Queued, Closed
    <2> QED
      BY <2>1, <2>3, <2>5 DEF TimerInv, TimerOutlivesHandlers
  <1>3. CASE OnPreemptionTimerExpire \/ OnAlarm
    <2>1. PICK h \in {"expired", "alarm"} : TakeHandler(h)
      BY <1>3 DEF OnPreemptionTimerExpire, OnAlarm
    <2>2. /\ handlers' \in Seq(Handlers) /\ Len(handlers) \in Nat \ {0} /\ handlers[1] = h
          /\ Len(handlers') = Len(handlers) - 1
          /\ \A i \in 1..Len(handlers') : handlers'[i] = handlers[i + 1]
      BY <1>1, <2>1, TakeFirst
    <2>3. /\ Closed' <=> Closed
          /\ timerDeleted' <=> timerDeleted
          /\ expiryMax' <=> expiryMax
          /\ expiryMax /\ ~timerWaits => ~timerWaits'
      <3>1. CASE OnPreemptionTimerExpire
        <4>1. at' = at /\ timerDeleted' = timerDeleted
          BY <3>1 DEF OnPreemptionTimerExpire
        <4>2. expiryMax' = expiryMax
          BY <3>1 DEF OnPreemptionTimerExpire
        <4>3. ~expiryMax \/ timerWaits' = timerWaits
          BY <3>1 DEF OnPreemptionTimerExpire
        <4> QED
          BY <4>1, <4>2, <4>3 DEF Closed
      <3>2. CASE OnAlarm
        BY <3>2 DEF OnAlarm, Notified, Closed
      <3> QED
        BY <1>3, <3>1, <3>2
    <2>4. timerDeleted /\ ~timerWaits => ~timerWaits'
      <3>1. CASE OnPreemptionTimerExpire
        <4>1. TakeHandler("expired")
          BY <3>1 DEF OnPreemptionTimerExpire
        <4>2. ~timerDeleted
          BY <1>1, <4>1, TakeFirst DEF TimerInv, TimerOutlivesHandlers, OfTimer
        <4> QED
          BY <4>2
      <3>2. CASE OnAlarm
        BY <3>2 DEF OnAlarm
      <3> QED
        BY <1>3, <3>1, <3>2
    <2>5. Queued'
      BY <2>2, <2>3, SMTT(30) DEF TimerInv, Queued
    <2>6. TimerOutlivesHandlers'
      BY <2>2, <2>3, <2>4 DEF TimerInv, TimerOutlivesHandlers
    <2> QED
      BY <2>3, <2>5, <2>6 DEF TimerInv
  <1>4. CASE StopTimerForGood
    <2>1. PICK rest : rest = Tail(handlers)
      OBVIOUS
    <2>2. /\ Len(handlers) \in Nat \ {0} /\ handlers[1] = "stopTimer"
          /\ rest \in Seq(Handlers) /\ Len(rest) = Len(handlers) - 1
          /\ \A i \in 1..Len(rest) : rest[i] = handlers[i + 1]
          /\ handlers' = Append(rest, "deleteTimer")
      BY <1>1, <1>4, <2>1 DEF StopTimerForGood
    <2>3. /\ handlers' \in Seq(Handlers) /\ Len(handlers') = Len(handlers)
          /\ handlers'[Len(handlers)] = "deleteTimer"
          /\ \A i \in 1..(Len(handlers) - 1) : handlers'[i] = handlers[i + 1]
      BY <2>2 DEF Handlers
    <2>4. ~timerDeleted /\ Closed
      BY <2>2 DEF TimerInv, Queued, TimerOutlivesHandlers, OfTimer
    <2>5. at' = at /\ expiryMax' /\ ~timerWaits' /\ ~timerDeleted'
      BY <1>4, <2>4 DEF StopTimerForGood
    <2>6. \A i \in 1..(Len(handlers) - 1) :
             /\ ~Before(handlers'[i])
             /\ handlers'[i] \notin {"stopTimer", "deleteTimer"}
      BY <2>2, <2>3 DEF TimerInv, Queued
    <2>7. Queued'
      BY <2>2, <2>3, <2>4, <2>5, <2>6 DEF Queued, Closed, Before
    <2> QED
      BY <2>5, <2>7 DEF TimerInv, TimerOutlivesHandlers
  <1>5. CASE DeleteTimer
    <2>1. /\ handlers' \in Seq(Handlers) /\ Len(handlers) \in Nat \ {0}
          /\ handlers[1] = "deleteTimer"
          /\ Len(handlers') = Len(handlers) - 1
          /\ \A i \in 1..Len(handlers') : handlers'[i] = handlers[i + 1]
      BY <1>1, <1>5, TakeFirst DEF DeleteTimer
    <2>2. at' = at /\ timerWaits' = timerWaits
      BY <1>5 DEF DeleteTimer
    <2>3. ~timerWaits /\ Closed /\ \A j \in 2..Len(handlers) : ~OfTimer(handlers[j])
      BY <2>1 DEF TimerInv, Queued
    <2>4. \A i \in 1..Len(handlers') : ~OfTimer(handlers'[i])
      BY <2>1, <2>3
    <2>5. Queued'
      BY <2>1, <2>4 DEF Queued, OfTimer
    <2> QED
      BY <2>2, <2>3, <2>4, <2>5 DEF TimerInv, TimerOutlivesHandlers, Closed
  <1> QED
    BY <1>2, <1>3, <1>4, <1>5 DEF IOStep

\* When the preemption timer is deleted, no handler that uses it is left and
\* nothing waits on it, whenever it expires and however far the I/O thread lags
\* behind the machine (boostvm.cc, terminate).
THEOREM TimerIsDeletedLast == PreemptionSpec => []TimerOutlivesHandlers
  <1>1. PreemptionInit => TimerInv
    BY DEF PreemptionInit, TimerInv, Queued, TimerOutlivesHandlers
  <1>2. TimerInv /\ [PreemptionNext]_preemptionVars => TimerInv'
    <2> SUFFICES ASSUME TimerInv, [PreemptionNext]_preemptionVars PROVE TimerInv'
      OBVIOUS
    <2>1. CASE PreemptionNext
      BY <2>1, MachineKeepsTimer, OthersKeepTimer, IOKeepsTimer DEF PreemptionNext
    <2>2. CASE UNCHANGED preemptionVars
      BY <2>2 DEF preemptionVars, flagVars, eventVars, threadVars, timerVars, TimerInv, Queued,
                  Closed, TimerOutlivesHandlers
    <2> QED
      BY <2>1, <2>2
  <1>3. TimerInv => TimerOutlivesHandlers
    BY DEF TimerInv
  <1> QED
    BY <1>1, <1>2, <1>3, PTL DEF PreemptionSpec

=============================================================================
