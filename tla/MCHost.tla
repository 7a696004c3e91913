------------------------------- MODULE MCHost -------------------------------
(***************************************************************************)
(* The host of a virtual machine for TLC: either one machine and the       *)
(* threads that interrupt it, or several machines and their events.  The   *)
(* two specifications share no variable, and a behaviour is of one of them.*)
(***************************************************************************)
EXTENDS Preemption, Environment

VARIABLE part

Init ==
    /\ part \in {"preemption", "environment"}
    /\ PreemptionInit
    /\ EnvironmentInit

Next ==
    /\ UNCHANGED part
    /\ \/ part = "preemption" /\ PreemptionNext /\ UNCHANGED environmentVars
       \/ part = "environment" /\ EnvironmentNext /\ UNCHANGED preemptionVars

\* PreemptionFairness and EnvironmentFairness, of the part that is there.
Spec ==
    /\ Init
    /\ [][Next]_<<part, preemptionVars, environmentVars>>
    /\ WF_preemptionVars(part = "preemption" /\ MachineStep)
    /\ WF_preemptionVars(part = "preemption" /\ PosterStep)
    /\ WF_preemptionVars(part = "preemption" /\ IOStep)
    /\ WF_preemptionVars(part = "preemption" /\ TimerExpires)
    /\ WF_preemptionVars(part = "preemption" /\ AlarmTimerExpires)
    /\ WF_preemptionVars(part = "preemption" /\ AlarmTimeComes)
    /\ WF_preemptionVars(part = "preemption" /\ PostEvent("feedback"))
    /\ WF_environmentVars(part = "environment" /\ Notify)
    /\ \A m \in Machines :
          /\ WF_environmentVars(part = "environment" /\ HandleEvents(m))
          /\ WF_environmentVars(part = "environment" /\ SendPickled(m))
          /\ WF_environmentVars(part = "environment" /\ Ending(m))

=============================================================================
