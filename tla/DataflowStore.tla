---------------------------- MODULE DataflowStore ----------------------------
(***************************************************************************)
(* What dataflow variables promise to the threads that share them, with no *)
(* suspension lists, references or control variables: constraints are only *)
(* ever added to the store, and a thread that waits for one of them goes   *)
(* on after it is there, and not before.  Dataflow implements this.        *)
(***************************************************************************)
CONSTANTS
    Threads,
    Nodes,      \* names of variables and values
    Requests,   \* what a thread can wait for: an operation and its operands
    None

VARIABLES
    entity,       \* the variable or value that a node stands for or views
    status,       \* of each node: "unknown", "value" or "failed"
    needed,       \* of each node: TRUE when somebody asked for its value
    waiting,      \* the request of each waiting thread
    interrupted,  \* threads to be raised out of their request
    circular      \* whether a variable was made a view of itself: nothing is
                  \* promised from then on

vars == <<entity, status, needed, waiting, interrupted, circular>>

Init ==
    /\ \A n \in Nodes : entity[n] = n /\ status[n] = "unknown"
    /\ waiting = [t \in Threads |-> None]
    /\ interrupted \subseteq Threads
    /\ ~circular

-----------------------------------------------------------------------------
(* The store *)

Determined(n) == status[n] # "unknown"

\* Knowledge only grows: equalities, values and needs are never taken back, an
\* entity that is determined does not become another one, and nodes that stand
\* for one entity are needed together.
Monotonic ==
    \A n \in Nodes :
        /\ entity'[n] = entity'[entity[n]]
        /\ Determined(n) => status'[n] = status[n] /\ entity'[n] = entity[n]
        /\ needed[n] => needed'[n]
        /\ needed'[n] = needed'[entity'[n]]

-----------------------------------------------------------------------------
(* The threads *)

\* What a request must be answered for, and what it may be answered for.  A
\* unification is over when it has made its operands equal; it then shows in the
\* store after the step.
BothDetermined(r) == Determined(r.on) /\ Determined(r.with)
MustGoOn(r) ==
    CASE r.op \in {"wait", "waitQuiet"} -> Determined(r.on)
      [] r.op = "waitNeeded" -> needed[r.on]
      [] r.op \in {"equals", "unify"} -> BothDetermined(r)
MayGoOn(r) ==
    \/ MustGoOn(r)
    \/ r.op = "equals" /\ (entity[r.on] = entity[r.with] \/ status[r.on] = "failed")
    \/ r.op = "unify" /\ entity'[r.on] = entity'[r.with]

\* Waiting for a value makes it needed, waiting quietly does not.
Ask(t) ==
    /\ waiting[t] = None
    /\ waiting'[t] \in Requests
    /\ waiting'[t].op \in {"wait", "equals"} => needed'[waiting'[t].on]
    /\ waiting'[t].op \in {"waitQuiet", "waitNeeded"} => needed' = needed
GoOn(t) ==
    /\ waiting[t] # None
    /\ waiting'[t] = None
    /\ MayGoOn(waiting[t]) \/ t \in interrupted

Grows ==
    /\ Monotonic
    /\ \A t \in Threads : waiting'[t] = waiting[t] \/ Ask(t) \/ GoOn(t)
Next == circular' \/ (~circular /\ Grows)

\* A thread whose request is satisfied does not wait for ever.
Answered ==
    \A t \in Threads :
        (waiting[t] # None /\ MustGoOn(waiting[t])) ~> (waiting[t] = None \/ circular)

Safety == Init /\ [][Next]_vars
Spec == Safety /\ Answered
=============================================================================
