--------------------------- MODULE ThreadPoolProofs ---------------------------
(***************************************************************************)
(* For every set of threads and every pair of ratios: the run queues hold  *)
(* exactly the threads that are waiting to run, each of them once, and     *)
(* popNext() serves every queue within a fixed number of pops.             *)
(***************************************************************************)
EXTENDS ThreadPool, SequenceTheorems, TLAPS

-----------------------------------------------------------------------------
(* What the operations on a ThreadQueue do to its contents. *)

\* RemoveAt(q, i), element by element: std::deque::erase.
LEMMA RemoveAtElements ==
    ASSUME NEW S, NEW q \in Seq(S), NEW i \in 1..Len(q)
    PROVE  /\ RemoveAt(q, i) \in Seq(S)
           /\ Len(RemoveAt(q, i)) = Len(q) - 1
           /\ \A j \in 1..(Len(q) - 1) :
                RemoveAt(q, i)[j] = IF j < i THEN q[j] ELSE q[j + 1]
<1> DEFINE a == SubSeq(q, 1, i - 1)
           b == SubSeq(q, i + 1, Len(q))
<1>1. a \in Seq(S) /\ Len(a) = i - 1 /\ \A j \in 1..(i - 1) : a[j] = q[j]
  BY SubSeqProperties
<1>2. /\ b \in Seq(S)
      /\ Len(b) = Len(q) - i
      /\ \A j \in 1..(Len(q) - i) : b[j] = q[i + j]
  BY SubSeqProperties
<1>3. RemoveAt(q, i) = a \o b
  BY DEF RemoveAt
<1> HIDE DEF a, b
<1>4. /\ a \o b \in Seq(S)
      /\ Len(a \o b) = Len(a) + Len(b)
      /\ \A j \in 1..(Len(a) + Len(b)) :
           (a \o b)[j] = IF j <= Len(a) THEN a[j] ELSE b[j - Len(a)]
  <2>1. a \in Seq(S) /\ b \in Seq(S)
    BY <1>1, <1>2
  <2> QED BY <2>1, ConcatProperties
<1>5. Len(q) \in Nat /\ Len(a) + Len(b) = Len(q) - 1
  BY <1>1, <1>2
<1>6. ASSUME NEW j \in 1..(Len(q) - 1)
      PROVE  (a \o b)[j] = IF j < i THEN q[j] ELSE q[j + 1]
  <2>1. CASE j < i
    BY <1>1, <1>4, <1>5, <2>1
  <2>2. CASE ~(j < i)
    <3>1. (a \o b)[j] = b[j - (i - 1)]
      BY <1>1, <1>4, <1>5, <2>2
    <3>2. j - (i - 1) \in 1..(Len(q) - i)
      BY <1>5, <2>2
    <3>3. b[j - (i - 1)] = q[i + (j - (i - 1))]
      BY <1>2, <3>2
    <3>4. i + (j - (i - 1)) = j + 1
      OBVIOUS
    <3> QED BY <2>2, <3>1, <3>3, <3>4
  <2> QED BY <2>1, <2>2
<1> QED BY <1>3, <1>4, <1>5, <1>6

\* push(t).
LEMMA PushContents ==
    ASSUME NEW q \in Seq(Threads), NEW t \in Threads
    PROVE  /\ Append(q, t) \in Seq(Threads)
           /\ \A u : Contains(Append(q, t), u) <=> Contains(q, u) \/ u = t
           /\ IsInjective(q) /\ ~Contains(q, t) => IsInjective(Append(q, t))
<1>1. /\ Append(q, t) \in Seq(Threads)
      /\ Len(Append(q, t)) = Len(q) + 1
      /\ \A i \in 1..Len(q) : Append(q, t)[i] = q[i]
      /\ Append(q, t)[Len(q) + 1] = t
  BY AppendProperties
<1>2. DOMAIN q = 1..Len(q) /\ DOMAIN Append(q, t) = 1..(Len(q) + 1)
  BY <1>1
<1>3. \A u : Contains(Append(q, t), u) <=> Contains(q, u) \/ u = t
  BY <1>1 DEF Contains
<1>4. IsInjective(q) /\ ~Contains(q, t) => IsInjective(Append(q, t))
  BY <1>1, <1>2 DEF IsInjective, Contains
<1> QED BY <1>1, <1>3, <1>4

\* front() and pop().
LEMMA PopContents ==
    ASSUME NEW q \in Seq(Threads), q # << >>
    PROVE  /\ Head(q) \in Threads
           /\ Contains(q, Head(q))
           /\ Tail(q) \in Seq(Threads)
           /\ IsInjective(q) =>
                /\ IsInjective(Tail(q))
                /\ \A u : Contains(Tail(q), u) <=> Contains(q, u) /\ u # Head(q)
<1>1. /\ Head(q) \in Threads
      /\ Tail(q) \in Seq(Threads)
      /\ Len(Tail(q)) = Len(q) - 1
      /\ \A i \in 1..(Len(q) - 1) : Tail(q)[i] = q[i + 1]
  BY HeadTailProperties
<1>2. Len(q) \in Nat \ {0} /\ Head(q) = q[1]
  BY EmptySeq
<1>3. DOMAIN q = 1..Len(q) /\ DOMAIN Tail(q) = 1..(Len(q) - 1)
  BY <1>1
<1>4. Contains(q, Head(q))
  BY <1>2 DEF Contains
<1>5. ASSUME IsInjective(q)
      PROVE  /\ IsInjective(Tail(q))
             /\ \A u : Contains(Tail(q), u) <=> Contains(q, u) /\ u # Head(q)
  <2>1. IsInjective(Tail(q))
    BY <1>1, <1>2, <1>3, <1>5 DEF IsInjective
  <2>2. ASSUME NEW u, Contains(Tail(q), u)
        PROVE  Contains(q, u) /\ u # Head(q)
    BY <1>1, <1>2, <1>3, <1>5, <2>2 DEF IsInjective, Contains
  <2>3. ASSUME NEW u, Contains(q, u), u # Head(q)
        PROVE  Contains(Tail(q), u)
    <3>1. PICK i \in 2..Len(q) : q[i] = u
      BY <1>2, <2>3 DEF Contains
    <3>2. i - 1 \in 1..Len(Tail(q)) /\ Tail(q)[i - 1] = u
      BY <1>1, <1>2, <3>1
    <3> QED BY <3>2 DEF Contains
  <2> QED BY <2>1, <2>2, <2>3
<1> QED BY <1>1, <1>4, <1>5

\* remove(t), from a queue that holds no thread twice.
LEMMA RemoveContents ==
    ASSUME NEW q \in Seq(Threads), NEW t \in Threads, IsInjective(q)
    PROVE  /\ ThreadQueueRemove(q, t) \in Seq(Threads)
           /\ IsInjective(ThreadQueueRemove(q, t))
           /\ \A u : Contains(ThreadQueueRemove(q, t), u)
                        <=> Contains(q, u) /\ u # t
<1> DEFINE r == ThreadQueueRemove(q, t)
<1>1. CASE ~Contains(q, t)
  BY <1>1 DEF ThreadQueueRemove
<1>2. CASE Contains(q, t)
  <2>1. PICK k \in 1..Len(q) : q[k] = t
    BY <1>2 DEF Contains
  <2>2. \A j \in 1..(k - 1) : q[j] # t
    BY <2>1 DEF IsInjective
  <2>3. PICK i \in 1..Len(q) : q[i] = t /\ r = RemoveAt(q, i)
    BY <1>2, <2>1, <2>2 DEF ThreadQueueRemove
  <2>4. /\ r \in Seq(Threads)
        /\ Len(r) = Len(q) - 1
        /\ \A j \in 1..(Len(q) - 1) : r[j] = IF j < i THEN q[j] ELSE q[j + 1]
    BY <2>3, RemoveAtElements
  <2> HIDE DEF r
  <2>5. Len(q) \in Nat /\ DOMAIN q = 1..Len(q) /\ DOMAIN r = 1..(Len(q) - 1)
    BY <2>4
  <2>6. IsInjective(r)
    <3> DEFINE At(j) == IF j < i THEN j ELSE j + 1
    <3>1. \A a, b \in 1..Len(q) : q[a] = q[b] => a = b
      BY <2>5 DEF IsInjective
    <3>2. \A j \in 1..(Len(q) - 1) : At(j) \in 1..Len(q) /\ r[j] = q[At(j)]
      BY <2>4, <2>5
    <3>3. \A a, b \in 1..(Len(q) - 1) : At(a) = At(b) => a = b
      BY <2>5
    <3>4. \A a, b \in 1..(Len(q) - 1) : r[a] = r[b] => a = b
      <4> HIDE DEF At
      <4> QED BY <3>1, <3>2, <3>3
    <3> QED BY <3>4, <2>5 DEF IsInjective
  <2>7. ASSUME NEW u, Contains(r, u)
        PROVE  Contains(q, u) /\ u # t
    BY <2>3, <2>4, <2>5, <2>7 DEF Contains, IsInjective
  <2>8. ASSUME NEW u, Contains(q, u), u # t
        PROVE  Contains(r, u)
    <3>1. PICK j \in 1..Len(q) : q[j] = u
      BY <2>8 DEF Contains
    <3>2. CASE j < i
      <4>1. j \in 1..Len(r) /\ r[j] = u
        BY <2>4, <2>5, <3>1, <3>2
      <4> QED BY <4>1 DEF Contains
    <3>3. CASE j > i
      <4>1. j - 1 \in 1..Len(r) /\ r[j - 1] = u
        BY <2>4, <2>5, <3>1, <3>3
      <4> QED BY <4>1 DEF Contains
    <3> QED BY <2>3, <2>8, <3>1, <3>2, <3>3
  <2> QED BY <2>4, <2>6, <2>7, <2>8 DEF r
<1> QED BY <1>1, <1>2

-----------------------------------------------------------------------------
(* What the steps do to the queues. *)

Distinct == TypeOK /\ OnceInItsQueue

\* Schedule(t) puts t in the queue of its priority and changes nothing else.
LEMMA ScheduleContents ==
    ASSUME Distinct, NEW t \in Threads, t \notin Scheduled, Schedule(t)
    PROVE  /\ queues' \in [ThreadPriority -> Seq(Threads)]
           /\ \A p \in ThreadPriority : IsInjective(queues'[p])
           /\ \A p \in ThreadPriority, u \in Threads :
                Contains(queues'[p], u) <=>
                    Contains(queues[p], u) \/ (u = t /\ p = priority[t])
<1> DEFINE p0 == priority[t]
<1>1. /\ p0 \in ThreadPriority
      /\ queues \in [ThreadPriority -> Seq(Threads)]
      /\ \A p \in ThreadPriority : queues[p] \in Seq(Threads) /\ IsInjective(queues[p])
  BY DEF Distinct, TypeOK, OnceInItsQueue
<1>2. ~Contains(queues[p0], t)
  BY <1>1 DEF Scheduled
<1>3. /\ Append(queues[p0], t) \in Seq(Threads)
      /\ IsInjective(Append(queues[p0], t))
      /\ \A u : Contains(Append(queues[p0], t), u) <=> Contains(queues[p0], u) \/ u = t
  BY <1>1, <1>2, PushContents
<1>4. \A p \in ThreadPriority :
        queues'[p] = IF p = p0 THEN Append(queues[p0], t) ELSE queues[p]
  BY <1>1 DEF Schedule
<1>5. queues' \in [ThreadPriority -> Seq(Threads)]
  BY <1>1, <1>3 DEF Schedule
<1> QED BY <1>1, <1>3, <1>4, <1>5

\* popNext() serves a queue that is not empty.
LEMMA NextQueueServes ==
    ASSUME ~PoolIsEmpty
    PROVE  NextQueue \in ThreadPriority /\ ~IsEmpty(NextQueue)
BY DEF PoolIsEmpty, NextQueue, ThreadPriority

\* PopNext(t) takes t out of the pool and changes nothing else.
LEMMA PopNextContents ==
    ASSUME Distinct, NEW t \in Threads, PopNext(t)
    PROVE  /\ t \in Scheduled
           /\ queues' \in [ThreadPriority -> Seq(Threads)]
           /\ \A p \in ThreadPriority : IsInjective(queues'[p])
           /\ \A p \in ThreadPriority, u \in Threads :
                Contains(queues'[p], u) <=> Contains(queues[p], u) /\ u # t
<1> DEFINE p0 == NextQueue
<1>1. p0 \in ThreadPriority /\ queues[p0] # << >>
  BY NextQueueServes DEF PopNext, IsEmpty
<1> HIDE DEF p0
<1>2. /\ queues \in [ThreadPriority -> Seq(Threads)]
      /\ \A p \in ThreadPriority : queues[p] \in Seq(Threads) /\ IsInjective(queues[p])
  BY DEF Distinct, TypeOK, OnceInItsQueue
<1>3. /\ t = Head(queues[p0])
      /\ queues' = [queues EXCEPT ![p0] = Tail(queues[p0])]
  BY DEF PopNext, p0
<1>4. /\ Contains(queues[p0], t)
      /\ Tail(queues[p0]) \in Seq(Threads)
      /\ IsInjective(Tail(queues[p0]))
      /\ \A u : Contains(Tail(queues[p0]), u) <=> Contains(queues[p0], u) /\ u # t
  BY <1>1, <1>2, <1>3, PopContents
<1>5. \A p \in ThreadPriority :
        queues'[p] = IF p = p0 THEN Tail(queues[p0]) ELSE queues[p]
  BY <1>2, <1>3
<1>6. \A p \in ThreadPriority : p # p0 => ~Contains(queues[p], t)
  BY <1>1, <1>4 DEF Distinct, OnceInItsQueue
<1>7. queues' \in [ThreadPriority -> Seq(Threads)]
  BY <1>2, <1>3, <1>4
<1> QED BY <1>1, <1>2, <1>4, <1>5, <1>6, <1>7 DEF Scheduled

\* unschedule(t) takes t out of the pool and changes nothing else.
LEMMA UnscheduledContents ==
    ASSUME Distinct, NEW t \in Threads
    PROVE  /\ Unscheduled(t) \in [ThreadPriority -> Seq(Threads)]
           /\ \A p \in ThreadPriority : IsInjective(Unscheduled(t)[p])
           /\ \A p \in ThreadPriority, u \in Threads :
                Contains(Unscheduled(t)[p], u) <=> Contains(queues[p], u) /\ u # t
<1>1. \A p \in ThreadPriority : queues[p] \in Seq(Threads) /\ IsInjective(queues[p])
  BY DEF Distinct, TypeOK, OnceInItsQueue
<1>2. \A p \in ThreadPriority : Unscheduled(t)[p] = ThreadQueueRemove(queues[p], t)
  BY DEF Unscheduled
<1>3. \A p \in ThreadPriority :
        /\ ThreadQueueRemove(queues[p], t) \in Seq(Threads)
        /\ IsInjective(ThreadQueueRemove(queues[p], t))
        /\ \A u : Contains(ThreadQueueRemove(queues[p], t), u)
                    <=> Contains(queues[p], u) /\ u # t
  BY <1>1, RemoveContents
<1> QED BY <1>2, <1>3 DEF Unscheduled

-----------------------------------------------------------------------------
(* The pool holds what waits to run. *)

IInv == TypeOK /\ PoolConsistent

\* The counters stay between 0 and their ratios, whichever queue is served.
LEMMA RemainingsType ==
    ASSUME TypeOK, ~PoolIsEmpty, remainings' = RemainingsAfter(NextQueue)
    PROVE  /\ remainings' \in [{"tpHi", "tpMiddle"} -> Nat]
           /\ remainings'["tpHi"] <= HiToMiddlePriorityRatio
           /\ remainings'["tpMiddle"] <= MiddleToLowPriorityRatio
<1> USE RatioAssumption
<1>1. /\ remainings \in [{"tpHi", "tpMiddle"} -> Nat]
      /\ remainings["tpHi"] <= HiToMiddlePriorityRatio
      /\ remainings["tpMiddle"] <= MiddleToLowPriorityRatio
  BY DEF TypeOK
<1>2. NextQueue \in {"tpHi", "tpMiddle", "tpLow"}
  BY NextQueueServes DEF ThreadPriority
<1>3. CASE NextQueue = "tpHi"
  BY <1>1, <1>3 DEF RemainingsAfter
<1>4. CASE NextQueue = "tpMiddle"
  BY <1>1, <1>4 DEF RemainingsAfter
<1>5. CASE NextQueue = "tpLow"
  BY <1>1, <1>5 DEF RemainingsAfter
<1> QED BY <1>2, <1>3, <1>4, <1>5

\* Serving a queue keeps the history variable a function into Nat.
LEMMA WaitedType ==
    ASSUME TypeOK, NEW t \in Threads, PopNext(t)
    PROVE  waited' \in [ThreadPriority -> Nat]
<1>1. waited' = [r \in ThreadPriority |->
                   IF r = NextQueue \/ queues'[r] = << >> THEN 0 ELSE waited[r] + 1]
  BY DEF PopNext, Waiting
<1>2. \A r \in ThreadPriority : waited[r] \in Nat
  BY DEF TypeOK
<1> QED BY <1>1, <1>2

\* Popping keeps the invariant, whether the thread runs or is killed.
LEMMA PopNextIInv ==
    ASSUME IInv, NEW t \in Threads, Run(t) \/ Kill(t)
    PROVE  IInv'
<1>1. PopNext(t) /\ currentThread = NoThread /\ UNCHANGED <<created, terminated, priority, inLoop, exitRun, setPriorities, exitRequests>>
  BY DEF Run, Kill, PopNext, AtLoopHead, threadVars, boundVars
<1>2. Distinct
  BY DEF Distinct, IInv, PoolConsistent
<1>3. /\ t \in Scheduled
      /\ queues' \in [ThreadPriority -> Seq(Threads)]
      /\ \A p \in ThreadPriority : IsInjective(queues'[p])
      /\ \A p \in ThreadPriority, u \in Threads :
           Contains(queues'[p], u) <=> Contains(queues[p], u) /\ u # t
  BY <1>1, <1>2, PopNextContents
<1>4. Scheduled' = Scheduled \ {t}
  BY <1>3 DEF Scheduled
<1>5. t \in runnable /\ t \in created
  BY <1>3 DEF IInv, PoolConsistent, QueuedAreRunnable, TypeOK
<1>6. \/ currentThread' = t /\ UNCHANGED <<runnable, dead>>
      \/ /\ currentThread' = NoThread
         /\ runnable' = runnable \ {t}
         /\ dead' = dead \cup {t}
  BY <1>1 DEF Run, Kill, threadVars
<1>7. TypeOK'
  <2>1. /\ remainings' \in [{"tpHi", "tpMiddle"} -> Nat]
        /\ remainings'["tpHi"] <= HiToMiddlePriorityRatio
        /\ remainings'["tpMiddle"] <= MiddleToLowPriorityRatio
    BY <1>1, RemainingsType DEF PopNext, IInv
  <2>2. waited' \in [ThreadPriority -> Nat]
    BY <1>1, WaitedType DEF IInv
  <2> QED BY <1>1, <1>3, <1>5, <1>6, <2>1, <2>2 DEF IInv, TypeOK
<1>8. OnceInItsQueue'
  BY <1>1, <1>3 DEF IInv, PoolConsistent, OnceInItsQueue
<1>9. QueuedAreRunnable' /\ RunnableAreQueued' /\ DeadAreStopped'
  BY <1>1, <1>4, <1>5, <1>6, NoThreadAssumption
     DEF IInv, PoolConsistent, QueuedAreRunnable, RunnableAreQueued, DeadAreStopped, TypeOK
<1> QED BY <1>7, <1>8, <1>9 DEF IInv, PoolConsistent

\* A step that schedules a thread which was not in the pool, and leaves it
\* runnable, alive and without the machine, keeps the invariant.
LEMMA ScheduleIInv ==
    ASSUME IInv, NEW t \in Threads, t \notin Scheduled, Schedule(t),
           t \in runnable', t \notin dead, currentThread' # t,
           runnable' = runnable \cup {t},
           created' = created \cup {t},
           currentThread' = currentThread \/ (currentThread = t /\ currentThread' = NoThread),
           inLoop' \in BOOLEAN,
           UNCHANGED <<terminated, dead, priority, remainings, waited,
                       exitRun, setPriorities, exitRequests>>
    PROVE  IInv'
<1>1. Distinct
  BY DEF Distinct, IInv, PoolConsistent
<1>2. /\ queues' \in [ThreadPriority -> Seq(Threads)]
      /\ \A p \in ThreadPriority : IsInjective(queues'[p])
      /\ \A p \in ThreadPriority, u \in Threads :
           Contains(queues'[p], u) <=> Contains(queues[p], u) \/ (u = t /\ p = priority[t])
  BY <1>1, ScheduleContents
<1>3. priority \in [Threads -> ThreadPriority]
  BY DEF IInv, TypeOK
<1>4. Scheduled' = Scheduled \cup {t}
  BY <1>2, <1>3 DEF Scheduled
<1>5. TypeOK'
  BY <1>2 DEF IInv, TypeOK
<1>6. OnceInItsQueue'
  BY <1>2 DEF IInv, PoolConsistent, OnceInItsQueue
<1>7. QueuedAreRunnable' /\ RunnableAreQueued' /\ DeadAreStopped'
  BY <1>4, NoThreadAssumption
     DEF IInv, PoolConsistent, QueuedAreRunnable, RunnableAreQueued, DeadAreStopped, TypeOK
<1> QED BY <1>5, <1>6, <1>7 DEF IInv, PoolConsistent

\* A change of priority moves the thread to the other queue.
LEMMA SetPriorityIInv ==
    ASSUME IInv, NEW t \in Threads, NEW p \in ThreadPriority, SetPriority(t, p)
    PROVE  IInv'
<1>1. Distinct
  BY DEF Distinct, IInv, PoolConsistent
<1>2. /\ priority \in [Threads -> ThreadPriority]
      /\ priority' = [priority EXCEPT ![t] = p]
      /\ setPriorities' = setPriorities + 1
      /\ setPriorities < MaxSetPriority
      /\ UNCHANGED <<created, runnable, terminated, dead, remainings,
                     currentThread, inLoop, exitRun, exitRequests>>
  BY DEF SetPriority, IInv, TypeOK, threadVars
<1>3. setPriorities' \in 0..MaxSetPriority
  BY <1>2, BoundAssumption DEF IInv, TypeOK
<1>4. CASE t \in runnable /\ currentThread # t
  <2> DEFINE left == Unscheduled(t)
  <2>1. /\ queues' = [left EXCEPT ![p] = Append(left[p], t)]
        /\ waited' = [r \in ThreadPriority |->
                        IF left[r] = << >> THEN 0 ELSE waited[r]]
    BY <1>4 DEF SetPriority
  <2>2. /\ left \in [ThreadPriority -> Seq(Threads)]
        /\ \A r \in ThreadPriority : IsInjective(left[r])
        /\ \A r \in ThreadPriority, u \in Threads :
             Contains(left[r], u) <=> Contains(queues[r], u) /\ u # t
    BY <1>1, UnscheduledContents
  <2> HIDE DEF left
  <2>3. /\ Append(left[p], t) \in Seq(Threads)
        /\ IsInjective(Append(left[p], t))
        /\ \A u \in Threads : Contains(Append(left[p], t), u)
                                <=> Contains(left[p], u) \/ u = t
    <3>1. left[p] \in Seq(Threads) /\ IsInjective(left[p]) /\ ~Contains(left[p], t)
      BY <2>2
    <3> QED BY <3>1, PushContents
  <2>4. \A r \in ThreadPriority :
          queues'[r] = IF r = p THEN Append(left[p], t) ELSE left[r]
    BY <2>1, <2>2
  <2>5. \A r \in ThreadPriority, u \in Threads : Contains(queues'[r], u) <=>
            (u # t /\ Contains(queues[r], u)) \/ (u = t /\ r = p)
    BY <2>2, <2>3, <2>4
  <2>6. t \in Scheduled
    BY <1>4 DEF IInv, PoolConsistent, RunnableAreQueued
  <2>7. Scheduled' = Scheduled
    BY <2>5, <2>6 DEF Scheduled
  <2>8. queues' \in [ThreadPriority -> Seq(Threads)]
    BY <2>1, <2>2, <2>3
  <2>9. OnceInItsQueue'
    <3>1. \A r \in ThreadPriority : IsInjective(queues'[r])
      BY <2>2, <2>3, <2>4
    <3> QED BY <1>2, <2>5, <3>1 DEF IInv, PoolConsistent, OnceInItsQueue
  <2>10. waited' \in [ThreadPriority -> Nat]
    BY <2>1 DEF IInv, TypeOK
  <2>11. TypeOK'
    BY <1>2, <1>3, <2>8, <2>10 DEF IInv, TypeOK
  <2>12. QueuedAreRunnable' /\ RunnableAreQueued' /\ DeadAreStopped'
    BY <1>2, <2>7
       DEF IInv, PoolConsistent, QueuedAreRunnable, RunnableAreQueued, DeadAreStopped
  <2> QED BY <2>9, <2>11, <2>12 DEF IInv, PoolConsistent
<1>5. CASE ~(t \in runnable /\ currentThread # t)
  <2>1. UNCHANGED <<queues, waited>>
    BY <1>5 DEF SetPriority
  <2>2. t \notin Scheduled
    BY <1>5 DEF IInv, PoolConsistent, QueuedAreRunnable
  <2>3. Scheduled' = Scheduled
    BY <2>1 DEF Scheduled
  <2>4. TypeOK'
    BY <1>2, <1>3, <2>1 DEF IInv, TypeOK
  <2>5. OnceInItsQueue'
    BY <1>2, <2>1, <2>2 DEF IInv, PoolConsistent, OnceInItsQueue, Scheduled
  <2>6. QueuedAreRunnable' /\ RunnableAreQueued' /\ DeadAreStopped'
    BY <1>2, <2>3
       DEF IInv, PoolConsistent, QueuedAreRunnable, RunnableAreQueued, DeadAreStopped
  <2> QED BY <2>4, <2>5, <2>6 DEF IInv, PoolConsistent
<1> QED BY <1>4, <1>5

LEMMA InitIInv == Init => IInv
<1> SUFFICES ASSUME Init PROVE IInv
  OBVIOUS
<1>1. TypeOK
  <2>1. queues \in [ThreadPriority -> Seq(Threads)]
    BY EmptySeq DEF Init
  <2>2. /\ remainings \in [{"tpHi", "tpMiddle"} -> Nat]
        /\ remainings["tpHi"] <= HiToMiddlePriorityRatio
        /\ remainings["tpMiddle"] <= MiddleToLowPriorityRatio
    BY RatioAssumption DEF Init
  <2>3. /\ priority \in [Threads -> ThreadPriority]
        /\ waited \in [ThreadPriority -> Nat]
    BY DEF Init, ThreadPriority
  <2>4. setPriorities \in 0..MaxSetPriority /\ exitRequests \in 0..MaxExitRequests
    BY BoundAssumption DEF Init
  <2>5. /\ created \subseteq Threads
        /\ runnable \subseteq created
        /\ terminated \subseteq dead
        /\ dead \subseteq created
        /\ currentThread \in Threads \cup {NoThread}
        /\ inLoop \in BOOLEAN
        /\ exitRun \in BOOLEAN
    BY Zenon DEF Init
  <2> QED BY <2>1, <2>2, <2>3, <2>4, <2>5 DEF TypeOK
<1>2. \A p \in ThreadPriority, t \in Threads : ~Contains(queues[p], t)
  BY DEF Init, Contains
<1>3. OnceInItsQueue
  BY <1>2 DEF Init, OnceInItsQueue, IsInjective
<1>4. Scheduled = {}
  BY <1>2 DEF Scheduled
<1> QED BY <1>1, <1>3, <1>4
        DEF Init, IInv, PoolConsistent, QueuedAreRunnable, RunnableAreQueued, DeadAreStopped

\* A step that leaves the queues alone and only lets the current thread stop.
LEMMA StopIInv ==
    ASSUME IInv, Suspend \/ Terminate
    PROVE  IInv'
<1>1. /\ currentThread \in runnable
      /\ runnable' = runnable \ {currentThread}
      /\ \/ UNCHANGED <<terminated, dead>>
         \/ /\ terminated' = terminated \cup {currentThread}
            /\ dead' = dead \cup {currentThread}
      /\ UNCHANGED <<created, priority, queues, remainings, waited, currentThread,
                     inLoop, exitRun, setPriorities, exitRequests>>
  BY DEF Suspend, Terminate, poolVars, boundVars
<1>2. Scheduled' = Scheduled
  BY <1>1 DEF Scheduled
<1>3. TypeOK'
  BY <1>1 DEF IInv, TypeOK
<1>4. OnceInItsQueue'
  BY <1>1 DEF IInv, PoolConsistent, OnceInItsQueue
<1> QED BY <1>1, <1>2, <1>3, <1>4
        DEF IInv, PoolConsistent, QueuedAreRunnable, RunnableAreQueued, DeadAreStopped

\* A step of the loop or of its caller that moves no thread.
LEMMA LoopIInv ==
    ASSUME IInv, BreakLoop \/ ExitLoop \/ InvokeAgain \/ RequestExitRun
    PROVE  IInv'
<1>1. UNCHANGED <<created, runnable, terminated, dead, priority, queues, waited,
                  currentThread, setPriorities>>
  BY DEF BreakLoop, ExitLoop, InvokeAgain, RequestExitRun, threadVars, poolVars, boundVars
<1>2. /\ inLoop' \in BOOLEAN
      /\ exitRun' \in BOOLEAN
      /\ exitRequests' \in 0..MaxExitRequests
      /\ remainings' \in [{"tpHi", "tpMiddle"} -> Nat]
      /\ remainings'["tpHi"] <= HiToMiddlePriorityRatio
      /\ remainings'["tpMiddle"] <= MiddleToLowPriorityRatio
  <2>1. /\ inLoop' \in BOOLEAN
        /\ exitRun' \in BOOLEAN
    BY DEF IInv, TypeOK, BreakLoop, ExitLoop, InvokeAgain, RequestExitRun
  <2>2. exitRequests' \in 0..MaxExitRequests
    BY BoundAssumption
       DEF IInv, TypeOK, BreakLoop, ExitLoop, InvokeAgain, RequestExitRun, boundVars
  <2>3. \/ remainings' = remainings
        \/ remainings' = [tpHi |-> HiToMiddlePriorityRatio,
                          tpMiddle |-> MiddleToLowPriorityRatio]
    BY DEF BreakLoop, ExitLoop, InvokeAgain, RequestExitRun, poolVars
  <2>4. /\ remainings' \in [{"tpHi", "tpMiddle"} -> Nat]
        /\ remainings'["tpHi"] <= HiToMiddlePriorityRatio
        /\ remainings'["tpMiddle"] <= MiddleToLowPriorityRatio
    BY <2>3, RatioAssumption DEF IInv, TypeOK
  <2> QED BY <2>1, <2>2, <2>4
<1>3. Scheduled' = Scheduled
  BY <1>1 DEF Scheduled
<1>4. TypeOK'
  BY <1>1, <1>2 DEF IInv, TypeOK
<1>5. OnceInItsQueue'
  BY <1>1 DEF IInv, PoolConsistent, OnceInItsQueue
<1> QED BY <1>1, <1>3, <1>4, <1>5
        DEF IInv, PoolConsistent, QueuedAreRunnable, RunnableAreQueued, DeadAreStopped

LEMMA StepIInv == IInv /\ [Next]_vars => IInv'
<1> SUFFICES ASSUME IInv, [Next]_vars PROVE IInv'
  OBVIOUS
<1>1. ASSUME NEW t \in Threads, NEW createSuspended \in BOOLEAN,
             Create(t, createSuspended)
      PROVE  IInv'
  <2>1. t \notin created /\ t # currentThread /\ t \notin Scheduled
    BY <1>1, NoThreadAssumption
       DEF Create, Executing, IInv, TypeOK, PoolConsistent, QueuedAreRunnable
  <2>2. CASE createSuspended
    <3>1. UNCHANGED <<runnable, terminated, dead, priority, queues, remainings, waited,
                      currentThread, inLoop, exitRun, setPriorities, exitRequests>>
      BY <1>1, <2>2 DEF Create, boundVars
    <3>2. created' = created \cup {t}
      BY <1>1 DEF Create
    <3>3. Scheduled' = Scheduled
      BY <3>1 DEF Scheduled
    <3>4. TypeOK'
      BY <3>1, <3>2 DEF IInv, TypeOK
    <3>5. OnceInItsQueue'
      BY <3>1 DEF IInv, PoolConsistent, OnceInItsQueue
    <3> QED BY <3>1, <3>3, <3>4, <3>5
            DEF IInv, PoolConsistent, QueuedAreRunnable, RunnableAreQueued, DeadAreStopped
  <2>3. CASE ~createSuspended
    BY <1>1, <2>1, <2>3, ScheduleIInv DEF Create, boundVars, IInv, TypeOK
  <2> QED BY <2>2, <2>3
<1>2. ASSUME NEW t \in Threads, Resume(t)
      PROVE  IInv'
  <2>1. t \notin runnable /\ t # currentThread /\ t \notin Scheduled
    BY <1>2, NoThreadAssumption
       DEF Resume, Executing, IInv, PoolConsistent, QueuedAreRunnable
  <2>2. created' = created \cup {t} /\ t \notin dead
    BY <1>2 DEF Resume
  <2> QED BY <1>2, <2>1, <2>2, ScheduleIInv DEF Resume, boundVars, IInv, TypeOK
<1>3. ASSUME NEW t \in Threads, NEW p \in ThreadPriority, SetPriority(t, p)
      PROVE  IInv'
  BY <1>3, SetPriorityIInv
<1>4. CASE Suspend \/ Terminate
  BY <1>4, StopIInv
<1>5. ASSUME NEW t \in Threads, Run(t) \/ Kill(t)
      PROVE  IInv'
  BY <1>5, PopNextIInv
<1>6. CASE Return
  <2>1. /\ currentThread \in Threads
        /\ currentThread' = NoThread
        /\ UNCHANGED <<created, runnable, terminated, dead, priority, remainings, waited,
                       inLoop, exitRun, setPriorities, exitRequests>>
    BY <1>6 DEF Return, threadVars, boundVars, IInv, TypeOK
  <2>2. currentThread \notin Scheduled
    BY DEF IInv, PoolConsistent, QueuedAreRunnable
  <2>3. CASE currentThread \in runnable
    <3>1. Schedule(currentThread)
      BY <1>6, <2>3 DEF Return
    <3>2. /\ currentThread \notin dead
          /\ created' = created \cup {currentThread}
          /\ runnable' = runnable \cup {currentThread}
          /\ inLoop' \in BOOLEAN
          /\ currentThread' # currentThread
      BY <2>1, <2>3, NoThreadAssumption DEF IInv, TypeOK, PoolConsistent, DeadAreStopped
    <3> QED BY <2>1, <2>2, <2>3, <3>1, <3>2, ScheduleIInv
  <2>4. CASE currentThread \notin runnable
    <3>1. queues' = queues
      BY <1>6, <2>4 DEF Return
    <3>2. Scheduled' = Scheduled
      BY <3>1 DEF Scheduled
    <3>3. TypeOK'
      BY <2>1, <3>1 DEF IInv, TypeOK
    <3>4. OnceInItsQueue'
      BY <2>1, <3>1 DEF IInv, PoolConsistent, OnceInItsQueue
    <3>5. NoThread \notin runnable
      BY NoThreadAssumption DEF IInv, TypeOK
    <3> QED BY <2>1, <2>4, <3>2, <3>3, <3>4, <3>5
            DEF IInv, PoolConsistent, QueuedAreRunnable, RunnableAreQueued, DeadAreStopped
  <2> QED BY <2>3, <2>4
<1>7. CASE BreakLoop \/ ExitLoop \/ InvokeAgain \/ RequestExitRun
  BY <1>7, LoopIInv
<1>8. CASE UNCHANGED vars
  <2>1. Scheduled' = Scheduled
    BY <1>8 DEF Scheduled, vars, poolVars
  <2>2. TypeOK'
    BY <1>8 DEF IInv, TypeOK, vars, threadVars, poolVars, boundVars
  <2>3. OnceInItsQueue'
    BY <1>8 DEF IInv, PoolConsistent, OnceInItsQueue, vars, poolVars
  <2> QED BY <1>8, <2>1, <2>2, <2>3
          DEF IInv, PoolConsistent, QueuedAreRunnable, RunnableAreQueued, DeadAreStopped,
              vars, threadVars
<1> QED BY <1>1, <1>2, <1>3, <1>4, <1>5, <1>6, <1>7, <1>8 DEF Next

\* Every thread that waits to run is in the queue of its priority, once, and
\* nothing else is: schedule(), unschedule(), setPriority(), suspend(),
\* terminate(), kill() and the loop of VirtualMachine::run keep it so in any
\* order, for any number of threads.
THEOREM PoolIsConsistent == Spec => []PoolConsistent
<1>1. Spec => []IInv
  BY InitIInv, StepIInv, PTL DEF Spec
<1>2. IInv => PoolConsistent
  BY DEF IInv
<1> QED BY <1>1, <1>2, PTL

\* The types, and the ranges of the counters of popNext().
THEOREM TypeCorrect == Spec => []TypeOK
<1>1. Spec => []IInv
  BY InitIInv, StepIInv, PTL DEF Spec
<1>2. IInv => TypeOK
  BY DEF IInv
<1> QED BY <1>1, <1>2, PTL

-----------------------------------------------------------------------------
(* popNext() serves every queue within BypassBound pops. *)

LEMMA Product ==
    ASSUME NEW m \in Nat, NEW n \in Nat, NEW k \in Nat, m <= n
    PROVE  m * k <= n * k
OBVIOUS

\* The counters alone never make a queue wait longer than its bound.
LEMMA StillToWaitBound ==
    TypeOK => \A p \in ThreadPriority :
                 StillToWait(p) \in Nat /\ StillToWait(p) <= BypassBound(p)
<1> SUFFICES ASSUME TypeOK, NEW p \in ThreadPriority
             PROVE  StillToWait(p) \in Nat /\ StillToWait(p) <= BypassBound(p)
  OBVIOUS
<1> USE RatioAssumption
<1> DEFINE hi == remainings["tpHi"]
           mid == remainings["tpMiddle"]
<1>1. /\ hi \in Nat /\ hi <= HiToMiddlePriorityRatio
      /\ mid \in Nat /\ mid <= MiddleToLowPriorityRatio
  BY DEF TypeOK
<1> HIDE DEF hi, mid
<1>2. mid * (HiToMiddlePriorityRatio + 1) \in Nat
  BY <1>1
<1>3. mid * (HiToMiddlePriorityRatio + 1)
        <= MiddleToLowPriorityRatio * (HiToMiddlePriorityRatio + 1)
  BY <1>1, Product
<1>4. MiddleToLowPriorityRatio * (HiToMiddlePriorityRatio + 1) \in Nat
  OBVIOUS
<1>5. CASE p = "tpHi"
  BY <1>1, <1>5 DEF StillToWait, BypassBound, hi
<1>6. CASE p = "tpMiddle"
  BY <1>1, <1>6 DEF StillToWait, BypassBound, hi, mid
<1>7. CASE p = "tpLow"
  <2>1. /\ StillToWait(p) = hi + mid * (HiToMiddlePriorityRatio + 1)
        /\ BypassBound(p) = HiToMiddlePriorityRatio
             + MiddleToLowPriorityRatio * (HiToMiddlePriorityRatio + 1)
    BY <1>7 DEF StillToWait, BypassBound, hi, mid
  <2> QED BY <1>1, <1>2, <1>3, <1>4, <2>1
<1> QED BY <1>5, <1>6, <1>7 DEF ThreadPriority

\* Serving one queue brings every other non-empty queue closer to its turn.
LEMMA OthersComeCloser ==
    ASSUME TypeOK, ~PoolIsEmpty, remainings' = RemainingsAfter(NextQueue),
           NEW r \in ThreadPriority, r # NextQueue, ~IsEmpty(r)
    PROVE  StillToWait(r)' + 1 <= StillToWait(r)
<1> USE RatioAssumption
<1> DEFINE hi == remainings["tpHi"]
           mid == remainings["tpMiddle"]
           C == HiToMiddlePriorityRatio + 1
<1>1. hi \in Nat /\ mid \in Nat /\ C \in Nat \ {0}
  BY DEF TypeOK
<1>2. NextQueue \in ThreadPriority /\ ~IsEmpty(NextQueue)
  BY NextQueueServes
<1>3. CASE r = "tpHi"
  <2>1. NextQueue \in {"tpMiddle", "tpLow"} /\ hi = 0
    BY <1>1, <1>2, <1>3 DEF NextQueue, ThreadPriority
  <2>2. remainings'["tpHi"] = HiToMiddlePriorityRatio
    BY <2>1 DEF RemainingsAfter
  <2> QED BY <1>3, <2>1, <2>2 DEF StillToWait
<1>4. CASE r = "tpMiddle"
  <2>1. CASE NextQueue = "tpHi"
    <3>1. CASE hi > 0
      <4>1. remainings'["tpHi"] = hi - 1 /\ remainings'["tpMiddle"] = mid
        BY <1>1, <2>1, <3>1 DEF RemainingsAfter, TypeOK
      <4> QED BY <1>1, <1>4, <4>1 DEF StillToWait
    <3>2. CASE hi = 0
      <4>1. mid = 0
        BY <1>1, <1>4, <2>1, <3>2 DEF NextQueue
      <4>2. /\ remainings'["tpHi"] = HiToMiddlePriorityRatio - 1
            /\ remainings'["tpMiddle"] = MiddleToLowPriorityRatio
        BY <2>1, <3>2 DEF RemainingsAfter
      <4> QED BY <1>1, <1>4, <3>2, <4>1, <4>2 DEF StillToWait
    <3> QED BY <1>1, <3>1, <3>2
  <2>2. CASE NextQueue = "tpLow"
    <3>1. mid = 0
      BY <1>1, <1>4, <2>2 DEF NextQueue
    <3>2. /\ remainings'["tpHi"] = HiToMiddlePriorityRatio
          /\ remainings'["tpMiddle"] = MiddleToLowPriorityRatio
      BY <2>2 DEF RemainingsAfter
    <3> QED BY <1>1, <1>4, <3>1, <3>2 DEF StillToWait
  <2> QED BY <1>2, <1>4, <2>1, <2>2 DEF ThreadPriority
<1>5. CASE r = "tpLow"
  <2>1. /\ StillToWait(r) = hi + mid * C
        /\ StillToWait(r)' = remainings'["tpHi"] + remainings'["tpMiddle"] * C
    BY <1>5 DEF StillToWait
  <2>2. CASE NextQueue = "tpHi"
    <3>1. hi > 0
      BY <1>1, <1>5, <2>2 DEF NextQueue
    <3>2. remainings'["tpHi"] = hi - 1 /\ remainings'["tpMiddle"] = mid
      BY <1>1, <2>2, <3>1 DEF RemainingsAfter, TypeOK
    <3>3. mid * C \in Nat
      BY <1>1
    <3> HIDE DEF C
    <3> QED BY <1>1, <2>1, <3>2, <3>3
  <2>3. CASE NextQueue = "tpMiddle"
    <3>1. mid > 0
      BY <1>1, <1>5, <2>3 DEF NextQueue
    <3>2. remainings'["tpHi"] = HiToMiddlePriorityRatio /\ remainings'["tpMiddle"] = mid - 1
      BY <2>3, <3>1 DEF RemainingsAfter
    <3>3. mid * C \in Nat /\ (mid - 1) * C = mid * C - C
      BY <1>1
    <3> QED BY <1>1, <2>1, <3>2, <3>3
  <2> QED BY <1>2, <1>5, <2>2, <2>3 DEF ThreadPriority
<1> QED BY <1>3, <1>4, <1>5 DEF ThreadPriority

LEMMA InitBypass == Init => BypassInv
<1> SUFFICES ASSUME Init, NEW p \in ThreadPriority
             PROVE  waited[p] + StillToWait(p) <= BypassBound(p) /\ waited[p] = 0
  BY DEF BypassInv
<1>1. waited[p] = 0
  BY DEF Init
<1>2. StillToWait(p) \in Nat /\ StillToWait(p) <= BypassBound(p)
  BY InitIInv, StillToWaitBound DEF IInv
<1> QED BY <1>1, <1>2

\* A step that pushes at most one thread and pops none.
LEMMA PushBypass ==
    ASSUME BypassInv, UNCHANGED <<waited, remainings>>,
           UNCHANGED queues \/ \E t \in Threads : TypeOK /\ Schedule(t)
    PROVE  BypassInv'
<1>1. \A p \in ThreadPriority : IsEmpty(p)' => IsEmpty(p)
  <2>1. CASE UNCHANGED queues
    BY <2>1 DEF IsEmpty
  <2>2. ASSUME NEW t \in Threads, TypeOK, Schedule(t), NEW p \in ThreadPriority
        PROVE  IsEmpty(p)' => IsEmpty(p)
    <3>1. queues'[p] = IF p = priority[t] THEN Append(queues[p], t) ELSE queues[p]
      BY <2>2 DEF Schedule, TypeOK
    <3>2. queues[p] \in Seq(Threads)
      BY <2>2 DEF TypeOK
    <3>3. Append(queues[p], t) # << >>
      BY <3>2, AppendProperties
    <3> QED BY <3>1, <3>3 DEF IsEmpty
  <2> QED BY <2>1, <2>2
<1>2. \A p \in ThreadPriority : StillToWait(p)' = StillToWait(p)
  BY DEF StillToWait
<1> QED BY <1>1, <1>2 DEF BypassInv

LEMMA StepBypass == IInv /\ BypassInv /\ [Next]_vars => BypassInv'
<1> SUFFICES ASSUME IInv, BypassInv, [Next]_vars PROVE BypassInv'
  OBVIOUS
<1>1. TypeOK /\ TypeOK'
  BY StepIInv DEF IInv
<1>2. \A p \in ThreadPriority :
        /\ StillToWait(p)' \in Nat /\ StillToWait(p)' <= BypassBound(p)
        /\ StillToWait(p) \in Nat
        /\ waited[p] \in Nat
  <2>1. (TypeOK => \A p \in ThreadPriority :
                     StillToWait(p) \in Nat /\ StillToWait(p) <= BypassBound(p))'
    BY StillToWaitBound, PTL
  <2> QED BY <1>1, <2>1, StillToWaitBound DEF TypeOK, BypassBound
<1>3. ASSUME NEW t \in Threads, Run(t) \/ Kill(t)
      PROVE  BypassInv'
  <2>1. /\ ~PoolIsEmpty
        /\ remainings' = RemainingsAfter(NextQueue)
        /\ queues' = [queues EXCEPT ![NextQueue] = Tail(queues[NextQueue])]
        /\ waited' = [r \in ThreadPriority |->
             IF r = NextQueue \/ queues'[r] = << >> THEN 0 ELSE waited[r] + 1]
    BY <1>3 DEF Run, Kill, PopNext, Waiting
  <2>2. ASSUME NEW r \in ThreadPriority
        PROVE  /\ waited'[r] + StillToWait(r)' <= BypassBound(r)
               /\ IsEmpty(r)' => waited'[r] = 0
    <3>1. CASE r = NextQueue \/ queues'[r] = << >>
      BY <1>2, <2>1, <3>1
    <3>2. CASE r # NextQueue /\ queues'[r] # << >>
      <4>1. queues[r] = queues'[r]
        BY <1>1, <2>1, <3>2 DEF TypeOK
      <4>2. StillToWait(r)' + 1 <= StillToWait(r)
        BY <1>1, <2>1, <3>2, <4>1, OthersComeCloser DEF IsEmpty
      <4>3. waited'[r] = waited[r] + 1
        BY <2>1, <3>2
      <4>4. waited[r] + StillToWait(r) <= BypassBound(r)
        BY DEF BypassInv
      <4>5. BypassBound(r) \in Nat
        BY RatioAssumption DEF BypassBound, ThreadPriority
      <4> QED BY <1>2, <3>2, <4>2, <4>3, <4>4, <4>5 DEF IsEmpty
    <3> QED BY <3>1, <3>2
  <2> QED BY <2>2 DEF BypassInv, BypassBound
<1>4. ASSUME NEW t \in Threads, NEW p \in ThreadPriority, SetPriority(t, p)
      PROVE  BypassInv'
  <2>1. CASE t \in runnable /\ currentThread # t
    <3> DEFINE left == Unscheduled(t)
    <3>1. /\ queues' = [left EXCEPT ![p] = Append(left[p], t)]
          /\ waited' = [r \in ThreadPriority |->
                          IF left[r] = << >> THEN 0 ELSE waited[r]]
          /\ remainings' = remainings
      BY <1>4, <2>1 DEF SetPriority
    <3>2. left \in [ThreadPriority -> Seq(Threads)]
      BY UnscheduledContents DEF Distinct, IInv, PoolConsistent
    <3> HIDE DEF left
    <3>3. Append(left[p], t) # << >>
      BY <3>2, AppendProperties
    <3>4. \A r \in ThreadPriority : StillToWait(r)' = StillToWait(r)
      BY <3>1 DEF StillToWait
    <3>5. ASSUME NEW r \in ThreadPriority
          PROVE  /\ waited'[r] + StillToWait(r)' <= BypassBound(r)
                 /\ IsEmpty(r)' => waited'[r] = 0
      <4>1. queues'[r] = IF r = p THEN Append(left[p], t) ELSE left[r]
        BY <3>1, <3>2
      <4>2. waited'[r] = IF left[r] = << >> THEN 0 ELSE waited[r]
        BY <3>1
      <4>3. waited[r] + StillToWait(r) <= BypassBound(r)
        BY DEF BypassInv
      <4> QED BY <1>2, <3>3, <3>4, <4>1, <4>2, <4>3 DEF IsEmpty
    <3> QED BY <3>5 DEF BypassInv, BypassBound
  <2>2. CASE ~(t \in runnable /\ currentThread # t)
    BY <1>4, <2>2, PushBypass DEF SetPriority
  <2> QED BY <2>1, <2>2
<1>5. CASE BreakLoop
  <2>1. \A p \in ThreadPriority : waited'[p] = 0
    BY <1>5 DEF BreakLoop, PoolIsEmpty, BypassInv
  <2>2. \A p \in ThreadPriority : waited'[p] + StillToWait(p)' <= BypassBound(p)
    BY <1>2, <2>1
  <2> QED BY <2>1, <2>2 DEF BypassInv, BypassBound
<1>6. ASSUME NEW t \in Threads, NEW createSuspended \in BOOLEAN,
             Create(t, createSuspended)
      PROVE  BypassInv'
  BY <1>1, <1>6, PushBypass DEF Create
<1>7. ASSUME NEW t \in Threads, Resume(t)
      PROVE  BypassInv'
  BY <1>1, <1>7, PushBypass DEF Resume
<1>8. CASE Return
  <2>1. currentThread \in Threads
    BY <1>1, <1>8 DEF Return, TypeOK
  <2> QED BY <1>1, <1>8, <2>1, PushBypass DEF Return
<1>9. CASE Suspend \/ Terminate \/ ExitLoop \/ InvokeAgain \/ RequestExitRun \/ UNCHANGED vars
  BY <1>9, PushBypass
     DEF Suspend, Terminate, ExitLoop, InvokeAgain, RequestExitRun, vars, poolVars
<1> QED BY <1>3, <1>4, <1>5, <1>6, <1>7, <1>8, <1>9 DEF Next

\* The two counters of popNext() bound, for every pair of ratios, how many
\* pops can pass over a queue that holds a thread.
THEOREM BypassIsBounded == Spec => []BoundedBypass
<1>1. Spec => [](IInv /\ BypassInv)
  BY InitIInv, StepIInv, InitBypass, StepBypass, PTL DEF Spec
<1>2. IInv /\ BypassInv => BoundedBypass
  <2> SUFFICES ASSUME IInv, BypassInv, NEW p \in ThreadPriority
               PROVE  waited[p] <= BypassBound(p)
    BY DEF BoundedBypass
  <2>1. waited[p] \in Nat /\ StillToWait(p) \in Nat
    BY StillToWaitBound DEF IInv, TypeOK
  <2>2. waited[p] + StillToWait(p) <= BypassBound(p) /\ BypassBound(p) \in Nat
    BY RatioAssumption DEF BypassInv, BypassBound, ThreadPriority
  <2> QED BY <2>1, <2>2
<1> QED BY <1>1, <1>2, PTL

-----------------------------------------------------------------------------
(* No thread overtakes another one of its priority. *)

LEMMA SameOrder ==
    ASSUME NEW q \in Seq(Threads)
    PROVE  KeepsOrder(q, q)
<1> SUFFICES ASSUME NEW i \in 1..Len(q), NEW t \in Threads,
                    \A j \in 1..i : q[j] # t, Contains(q, t)
             PROVE  \E k, l \in 1..Len(q) : k < l /\ q[k] = q[i] /\ q[l] = t
  BY DEF KeepsOrder
<1>1. PICK l \in 1..Len(q) : q[l] = t
  BY DEF Contains
<1>2. i < l
  BY <1>1
<1> QED BY <1>1, <1>2

LEMMA PushOrder ==
    ASSUME NEW q \in Seq(Threads), NEW u \in Threads
    PROVE  KeepsOrder(q, Append(q, u))
<1>1. PICK r : r = Append(q, u)
  OBVIOUS
<1>2. /\ Len(q) \in Nat
      /\ Len(r) = Len(q) + 1
      /\ \A i \in 1..Len(q) : r[i] = q[i]
  BY <1>1, AppendProperties
<1> SUFFICES ASSUME NEW i \in 1..Len(q), NEW t \in Threads,
                    \A j \in 1..i : q[j] # t, Contains(r, t)
             PROVE  \E k, l \in 1..Len(r) : k < l /\ r[k] = q[i] /\ r[l] = t
  BY <1>1 DEF KeepsOrder
<1>3. PICK l \in 1..Len(r) : r[l] = t
  BY DEF Contains
<1>4. i < l
  BY <1>2, <1>3
<1>5. i \in 1..Len(r) /\ r[i] = q[i]
  BY <1>2
<1> QED BY <1>3, <1>4, <1>5

\* Taking out the i-th thread, by pop() (the first one) or by remove().
LEMMA TakeOutOrder ==
    ASSUME NEW q \in Seq(Threads), IsInjective(q), NEW n \in 1..Len(q),
           NEW r \in Seq(Threads), Len(r) = Len(q) - 1,
           \A j \in 1..(Len(q) - 1) : r[j] = IF j < n THEN q[j] ELSE q[j + 1]
    PROVE  KeepsOrder(q, r)
<1> DEFINE At(j) == IF j < n THEN j ELSE j + 1
<1>1. Len(q) \in Nat /\ DOMAIN q = 1..Len(q)
  OBVIOUS
<1>2. \A a, b \in 1..Len(q) : q[a] = q[b] => a = b
  BY <1>1 DEF IsInjective
<1>3. \A j \in 1..Len(r) : At(j) \in 1..Len(q) /\ r[j] = q[At(j)]
  BY <1>1
<1> SUFFICES ASSUME NEW i \in 1..Len(q), NEW t \in Threads,
                    \A j \in 1..i : q[j] # t, Contains(r, q[i]), Contains(r, t)
             PROVE  \E k, l \in 1..Len(r) : k < l /\ r[k] = q[i] /\ r[l] = t
  BY DEF KeepsOrder
<1>4. PICK k \in 1..Len(r) : r[k] = q[i]
  BY DEF Contains
<1>5. PICK l \in 1..Len(r) : r[l] = t
  BY DEF Contains
<1>6. At(k) = i /\ At(l) \in 1..Len(q) /\ q[At(l)] = t
  BY <1>2, <1>3, <1>4, <1>5
<1>7. i < At(l)
  <2> HIDE DEF At
  <2> QED BY <1>1, <1>6
<1>8. k < l
  BY <1>1, <1>6, <1>7
<1> QED BY <1>4, <1>5, <1>8

LEMMA PopOrder ==
    ASSUME NEW q \in Seq(Threads), IsInjective(q), q # << >>
    PROVE  KeepsOrder(q, Tail(q))
<1>1. /\ Tail(q) \in Seq(Threads)
      /\ Len(Tail(q)) = Len(q) - 1
      /\ \A i \in 1..(Len(q) - 1) : Tail(q)[i] = q[i + 1]
  BY HeadTailProperties
<1>2. Len(q) \in Nat \ {0}
  BY EmptySeq
<1>3. /\ 1 \in 1..Len(q)
      /\ \A j \in 1..(Len(q) - 1) : Tail(q)[j] = IF j < 1 THEN q[j] ELSE q[j + 1]
  BY <1>1, <1>2
<1> QED BY <1>1, <1>3, TakeOutOrder

LEMMA RemoveOrder ==
    ASSUME NEW q \in Seq(Threads), IsInjective(q), NEW t \in Threads
    PROVE  KeepsOrder(q, ThreadQueueRemove(q, t))
<1>1. CASE ~Contains(q, t)
  BY <1>1, SameOrder DEF ThreadQueueRemove
<1>2. CASE Contains(q, t)
  <2>1. PICK k \in 1..Len(q) : q[k] = t
    BY <1>2 DEF Contains
  <2>2. \A j \in 1..(k - 1) : q[j] # t
    BY <2>1 DEF IsInjective
  <2>3. PICK i \in 1..Len(q) : ThreadQueueRemove(q, t) = RemoveAt(q, i)
    BY <1>2, <2>1, <2>2 DEF ThreadQueueRemove
  <2>4. /\ RemoveAt(q, i) \in Seq(Threads)
        /\ Len(RemoveAt(q, i)) = Len(q) - 1
        /\ \A j \in 1..(Len(q) - 1) :
             RemoveAt(q, i)[j] = IF j < i THEN q[j] ELSE q[j + 1]
    BY RemoveAtElements
  <2>5. PICK r : r = RemoveAt(q, i)
    OBVIOUS
  <2> QED BY <2>3, <2>4, <2>5, TakeOutOrder
<1> QED BY <1>1, <1>2

LEMMA StepOrder ==
    IInv /\ [Next]_vars => \A p \in ThreadPriority : KeepsOrder(queues[p], queues'[p])
<1> SUFFICES ASSUME IInv, [Next]_vars, NEW p \in ThreadPriority
             PROVE  KeepsOrder(queues[p], queues'[p])
  OBVIOUS
<1>1. Distinct
  BY DEF Distinct, IInv, PoolConsistent
<1>2. /\ queues \in [ThreadPriority -> Seq(Threads)]
      /\ queues[p] \in Seq(Threads)
      /\ IsInjective(queues[p])
  BY <1>1 DEF Distinct, TypeOK, OnceInItsQueue
<1>3. CASE UNCHANGED queues
  BY <1>2, <1>3, SameOrder
<1>4. ASSUME NEW t \in Threads, Schedule(t)
      PROVE  KeepsOrder(queues[p], queues'[p])
  <2>1. queues'[p] = IF p = priority[t] THEN Append(queues[p], t) ELSE queues[p]
    BY <1>2, <1>4 DEF Schedule
  <2> QED BY <1>2, <2>1, SameOrder, PushOrder
<1>5. ASSUME NEW t \in Threads, Run(t) \/ Kill(t)
      PROVE  KeepsOrder(queues[p], queues'[p])
  <2>1. /\ ~PoolIsEmpty
        /\ queues' = [queues EXCEPT ![NextQueue] = Tail(queues[NextQueue])]
    BY <1>5 DEF Run, Kill, PopNext
  <2>2. queues'[p] = IF p = NextQueue THEN Tail(queues[p]) ELSE queues[p]
    BY <1>2, <2>1
  <2>3. p = NextQueue => queues[p] # << >>
    BY <2>1, NextQueueServes DEF IsEmpty
  <2> QED BY <1>2, <2>2, <2>3, SameOrder, PopOrder
<1>6. ASSUME NEW t \in Threads, NEW r \in ThreadPriority, SetPriority(t, r)
      PROVE  KeepsOrder(queues[p], queues'[p])
  <2>1. CASE t \in runnable /\ currentThread # t
    <3>1. queues' = [Unscheduled(t) EXCEPT ![r] = Append(Unscheduled(t)[r], t)]
      BY <1>6, <2>1 DEF SetPriority
    <3>2. Unscheduled(t)[p] = ThreadQueueRemove(queues[p], t)
      BY DEF Unscheduled
    <3>3. CASE p = r
      <4>1. ~Contains(queues[p], t)
        BY <1>1, <1>6, <3>3 DEF SetPriority, Distinct, OnceInItsQueue
      <4>2. Unscheduled(t)[p] = queues[p]
        BY <3>2, <4>1 DEF ThreadQueueRemove
      <4>3. queues'[p] = Append(queues[p], t)
        BY <3>1, <3>3, <4>2 DEF Unscheduled
      <4> QED BY <1>2, <4>3, PushOrder
    <3>4. CASE p # r
      <4>1. queues'[p] = ThreadQueueRemove(queues[p], t)
        BY <3>1, <3>2, <3>4 DEF Unscheduled
      <4> QED BY <1>2, <4>1, RemoveOrder
    <3> QED BY <3>3, <3>4
  <2>2. CASE ~(t \in runnable /\ currentThread # t)
    BY <1>3, <1>6, <2>2 DEF SetPriority
  <2> QED BY <2>1, <2>2
<1>7. ASSUME NEW t \in Threads, NEW createSuspended \in BOOLEAN,
             Create(t, createSuspended)
      PROVE  KeepsOrder(queues[p], queues'[p])
  BY <1>3, <1>4, <1>7 DEF Create
<1>8. ASSUME NEW t \in Threads, Resume(t)
      PROVE  KeepsOrder(queues[p], queues'[p])
  BY <1>4, <1>8 DEF Resume
<1>9. CASE Return
  <2>1. currentThread \in Threads
    BY <1>9 DEF Return, IInv, TypeOK
  <2> QED BY <1>3, <1>4, <1>9, <2>1 DEF Return
<1>10. CASE \/ Suspend \/ Terminate \/ BreakLoop \/ ExitLoop \/ InvokeAgain
            \/ RequestExitRun \/ UNCHANGED vars
  BY <1>3, <1>10
     DEF Suspend, Terminate, BreakLoop, ExitLoop, InvokeAgain, RequestExitRun, vars, poolVars
<1> QED BY <1>5, <1>6, <1>7, <1>8, <1>9, <1>10 DEF Next

\* push() at the back, pop() at the front, remove() in the middle and the move
\* of a thread to the queue of its new priority never reorder the threads
\* that stay, for any number of threads.
THEOREM ThreadsKeepTheirOrder == Spec => FirstInFirstOut
<1>1. Spec => []IInv
  BY InitIInv, StepIInv, PTL DEF Spec
<1>2. IInv /\ [Next]_vars
        => [\A p \in ThreadPriority : KeepsOrder(queues[p], queues'[p])]_vars
  BY StepOrder
<1> QED BY <1>1, <1>2, PTL DEF Spec, FirstInFirstOut

-----------------------------------------------------------------------------
(* The pool implements the scheduler, up to the fairness of Scheduler.tla. *)

\* Every step of the pool is a step of the scheduler, or changes nothing that
\* the scheduler shows.
LEMMA StepImplements == IInv /\ [Next]_vars => [Fair!Next]_(Fair!vars)
<1> SUFFICES ASSUME IInv, [Next]_vars PROVE [Fair!Next]_(Fair!vars)
  OBVIOUS
<1>1. Distinct
  BY DEF Distinct, IInv, PoolConsistent
<1>2. ASSUME UNCHANGED <<queues, currentThread>>
      PROVE  UNCHANGED Fair!vars
  BY <1>2 DEF Fair!vars, Scheduled
<1>3. ASSUME NEW t \in Threads, t \notin Scheduled, Schedule(t)
      PROVE  Scheduled' = Scheduled \cup {t}
  <2>1. \A p \in ThreadPriority, u \in Threads :
          Contains(queues'[p], u) <=>
              Contains(queues[p], u) \/ (u = t /\ p = priority[t])
    BY <1>1, <1>3, ScheduleContents
  <2>2. priority[t] \in ThreadPriority
    BY DEF IInv, TypeOK
  <2> QED BY <2>1, <2>2 DEF Scheduled
<1>4. ASSUME NEW t \in Threads, PopNext(t)
      PROVE  t \in Scheduled /\ Scheduled' = Scheduled \ {t} /\ currentThread = NoThread
  <2>1. /\ t \in Scheduled
        /\ \A p \in ThreadPriority, u \in Threads :
             Contains(queues'[p], u) <=> Contains(queues[p], u) /\ u # t
    BY <1>1, <1>4, PopNextContents
  <2> QED BY <1>4, <2>1 DEF Scheduled, PopNext, AtLoopHead
<1>5. ASSUME NEW t \in Threads, NEW createSuspended \in BOOLEAN,
             Create(t, createSuspended)
      PROVE  [Fair!Next]_(Fair!vars)
  <2>1. t # currentThread /\ t \notin Scheduled
    BY <1>5, NoThreadAssumption
       DEF Create, Executing, IInv, TypeOK, PoolConsistent, QueuedAreRunnable
  <2>2. CASE createSuspended
    BY <1>2, <1>5, <2>2 DEF Create
  <2>3. CASE ~createSuspended
    <3>1. Fair!MakeReady(t)
      BY <1>3, <1>5, <2>1, <2>3 DEF Create, Fair!MakeReady
    <3> QED BY <3>1 DEF Fair!Next
  <2> QED BY <2>2, <2>3
<1>6. ASSUME NEW t \in Threads, Resume(t)
      PROVE  [Fair!Next]_(Fair!vars)
  <2>1. t # currentThread /\ t \notin Scheduled
    BY <1>6, NoThreadAssumption
       DEF Resume, Executing, IInv, PoolConsistent, QueuedAreRunnable
  <2>2. Fair!MakeReady(t)
    BY <1>3, <1>6, <2>1 DEF Resume, Fair!MakeReady
  <2> QED BY <2>2 DEF Fair!Next
<1>7. ASSUME NEW t \in Threads, NEW p \in ThreadPriority, SetPriority(t, p)
      PROVE  UNCHANGED Fair!vars
  <2>1. CASE t \in runnable /\ currentThread # t
    <3>1. /\ queues' = [Unscheduled(t) EXCEPT ![p] = Append(Unscheduled(t)[p], t)]
          /\ currentThread' = currentThread
      BY <1>7, <2>1 DEF SetPriority
    <3>2. /\ Unscheduled(t) \in [ThreadPriority -> Seq(Threads)]
          /\ \A r \in ThreadPriority, u \in Threads :
               Contains(Unscheduled(t)[r], u) <=> Contains(queues[r], u) /\ u # t
      BY <1>1, UnscheduledContents
    <3>3. \A r \in ThreadPriority :
            queues'[r] = IF r = p THEN Append(Unscheduled(t)[r], t) ELSE Unscheduled(t)[r]
      BY <3>1, <3>2
    <3>4. \A u \in Threads :
            Contains(Append(Unscheduled(t)[p], t), u) <=> Contains(Unscheduled(t)[p], u) \/ u = t
      BY <3>2, PushContents
    <3>5. \A r \in ThreadPriority, u \in Threads :
            Contains(queues'[r], u) <=> (Contains(queues[r], u) /\ u # t) \/ (r = p /\ u = t)
      BY <3>2, <3>3, <3>4
    <3>6. t \in Scheduled
      BY <2>1 DEF IInv, PoolConsistent, RunnableAreQueued
    <3>7. Scheduled' = Scheduled
      BY <3>5, <3>6 DEF Scheduled
    <3> QED BY <3>1, <3>7 DEF Fair!vars
  <2>2. CASE ~(t \in runnable /\ currentThread # t)
    BY <1>2, <1>7, <2>2 DEF SetPriority
  <2> QED BY <2>1, <2>2
<1>8. ASSUME NEW t \in Threads, Run(t)
      PROVE  [Fair!Next]_(Fair!vars)
  <2>1. Fair!Dispatch(t)
    BY <1>4, <1>8 DEF Run, Fair!Dispatch
  <2> QED BY <2>1 DEF Fair!Next
<1>9. ASSUME NEW t \in Threads, Kill(t)
      PROVE  [Fair!Next]_(Fair!vars)
  <2>1. Fair!Discard(t)
    BY <1>4, <1>9 DEF Kill, Fair!Discard
  <2> QED BY <2>1 DEF Fair!Next
<1>10. CASE Return
  <2>1. /\ currentThread \in Threads
        /\ currentThread # NoThread
        /\ currentThread' = NoThread
    BY <1>10 DEF Return, IInv, TypeOK
  <2>2. currentThread \notin Scheduled
    BY DEF IInv, PoolConsistent, QueuedAreRunnable
  <2>3. Scheduled' \in {Scheduled, Scheduled \cup {currentThread}}
    <3>1. CASE currentThread \in runnable
      BY <1>3, <1>10, <2>1, <2>2, <3>1 DEF Return
    <3>2. CASE currentThread \notin runnable
      BY <1>10, <3>2 DEF Return, Scheduled
    <3> QED BY <3>1, <3>2
  <2>4. Fair!GiveBack
    BY <2>1, <2>3 DEF Fair!GiveBack
  <2> QED BY <2>4 DEF Fair!Next
<1>11. CASE \/ Suspend \/ Terminate \/ BreakLoop \/ ExitLoop \/ InvokeAgain
            \/ RequestExitRun \/ UNCHANGED vars
  BY <1>2, <1>11
     DEF Suspend, Terminate, BreakLoop, ExitLoop, InvokeAgain, RequestExitRun, vars, poolVars
<1> QED BY <1>5, <1>6, <1>7, <1>8, <1>9, <1>10, <1>11 DEF Next

\* One thread has the machine at a time, none is dispatched or discarded that
\* was not made ready, and none leaves the pool in any other way.
THEOREM PoolIsAScheduler == Spec => Fair!Safety
<1>1. Spec => []IInv
  BY InitIInv, StepIInv, PTL DEF Spec
<1>2. Init => Fair!Init
  BY DEF Init, Fair!Init, Scheduled, Contains, ThreadPriority
<1> QED BY <1>1, <1>2, StepImplements, PTL DEF Spec, Fair!Safety
=============================================================================
