------------------------------ MODULE Scheduler ------------------------------
(***************************************************************************)
(* What the run queue of a virtual machine promises to the rest of it: a   *)
(* thread that is made ready is dispatched, or discarded with its failed   *)
(* space, sooner or later, whatever the other threads do; a thread is      *)
(* never dispatched unless it is ready; and one thread runs at a time.     *)
(* Nothing is said of the order.  ThreadPool implements this.              *)
(***************************************************************************)
CONSTANTS Threads, NoThread

VARIABLES
    ready,     \* threads waiting for the machine
    running    \* the thread that has it

vars == <<ready, running>>

Init == ready = {} /\ running = NoThread

MakeReady(t) ==
    /\ t \notin ready \cup {running}
    /\ ready' = ready \cup {t}
    /\ UNCHANGED running

Dispatch(t) ==
    /\ running = NoThread
    /\ t \in ready
    /\ ready' = ready \ {t}
    /\ running' = t

Discard(t) ==
    /\ running = NoThread
    /\ t \in ready
    /\ ready' = ready \ {t}
    /\ UNCHANGED running

GiveBack ==
    /\ running # NoThread
    /\ running' = NoThread
    /\ ready' \in {ready, ready \cup {running}}

Next ==
    \/ \E t \in Threads : MakeReady(t) \/ Dispatch(t) \/ Discard(t)
    \/ GiveBack

Safety == Init /\ [][Next]_vars

Spec ==
    /\ Safety
    /\ \A t \in Threads : SF_vars(Dispatch(t) \/ Discard(t))
    /\ WF_vars(GiveBack)
=============================================================================
