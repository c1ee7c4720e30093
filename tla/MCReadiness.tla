---------------------------- MODULE MCReadiness ----------------------------
(***************************************************************************)
(* Small instances of Doorbell and of ReadinessHub, which takes a doorbell *)
(* for the level-triggered flag that Doorbell implements.  The subject is  *)
(* chosen at the start and the other system rests, so that their state     *)
(* spaces add up instead of multiplying.                                   *)
(***************************************************************************)
EXTENDS Doorbell, ReadinessHub, TLC

CONSTANTS v, w, a, b

\* Two VMs with a client each.
Created == a :> v @@ b :> w

VARIABLE subject

MCInit == Init /\ HubInit /\ subject \in {"doorbell", "hub"}

DoorbellRuns == subject = "doorbell" /\ Next /\ UNCHANGED <<subject, hubVars>>
HubRuns == subject = "hub" /\ HubNext /\ UNCHANGED <<subject, vars>>

\* The fairness of each module, for the system that is the subject.
DoorbellFairness ==
    /\ WF_vars(subject = "doorbell" /\ HostStep)
    /\ \A p \in Producers : WF_vars(subject = "doorbell" /\ RingStep(p))

FairHub ==
    /\ WF_hubVars(subject = "hub" /\ WorkerStep)
    /\ \A x \in Vms : /\ WF_hubVars(subject = "hub" /\ DetachStep(x))
                     /\ WF_hubVars(subject = "hub" /\ HostTurns(x))

MCSpec ==
    /\ MCInit /\ [][DoorbellRuns \/ HubRuns]_<<subject, vars, hubVars>>
    /\ DoorbellFairness /\ FairHub

\* Published work brings a host back to its check while the doorbell is reliable,
\* and published work, a failure and a detach bring a host parked on it back.
Served == WorkServed /\ Woken
=============================================================================
