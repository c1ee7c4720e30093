------------------------------ MODULE MCHosts ------------------------------
(***************************************************************************)
(* What keeps clients going, with its liveness: the coroutine of the       *)
(* cqueues adapter, or the managed calls that drive several clients.  The  *)
(* subject is chosen at the start and the other system rests, so that      *)
(* their state spaces add up instead of multiplying.                       *)
(***************************************************************************)
EXTENDS CqueuesAdapter, TLC

CONSTANTS p, q, NoClient

VARIABLES subject, m, stack, calls

\* Two clients: loops with one update at a time while clients are collected, or
\* waits of main code.
Loops == INSTANCE ManagedDriver WITH
    Clients <- {p, q}, Calls <- {"loop serial"}, Nested <- FALSE, Dispose <- TRUE,
    MaxIds <- 3, MaxCalls <- 1
Waits == INSTANCE ManagedDriver WITH
    Clients <- {p, q}, Calls <- {"wait"}, Nested <- FALSE, Dispose <- FALSE,
    MaxIds <- 3, MaxCalls <- 0

managedVars == <<m, stack, calls>>

MCInit ==
    /\ Init /\ Loops!ManagedInit
    /\ subject \in {"cqueues", "loops", "waits"} /\ (subject # "cqueues" => owns)

allVars == <<subject, vars, managedVars>>
Cqueues == subject = "cqueues" /\ UNCHANGED <<subject, managedVars>>
Managed == subject # "cqueues" /\ UNCHANGED <<subject, vars>>

CqueuesNext == Cqueues /\ Next
LoopsNext == Managed /\ subject = "loops" /\ Loops!ManagedNext
WaitsNext == Managed /\ subject = "waits" /\ Waits!ManagedNext

\* The fairness of each module, for the system that is the subject.  The subject
\* never changes, so that fairness of a step of the one system or of the other is
\* fairness of both.
MCFairness ==
    /\ WF_allVars((Cqueues /\ HostSteps) \/ (Managed /\ Loops!Coroutine))
    /\ WF_allVars((Cqueues /\ DrainReturns) \/ (Managed /\ Loops!Transport))
    /\ WF_allVars((Cqueues /\ RunReturns /\ co = "dead") \/ (Managed /\ Loops!Scheduling))
    /\ WF_allVars(Cqueues /\ (TurnEnds \/ Parks))
    /\ SF_allVars((Cqueues /\ Begins) \/ (Managed /\ Loops!PumpResponse(1)))
    /\ SF_allVars((Cqueues /\ Wakes) \/ (Managed /\ Loops!PumpResponse(2)))
    /\ SF_allVars((Cqueues /\ RetirementTurn) \/ (Managed /\ Loops!PumpResponse(3)))

MCSpec == MCInit /\ [][CqueuesNext \/ LoopsNext \/ WaitsNext]_allVars /\ MCFairness

-----------------------------------------------------------------------------
\* The clients that main code drives, and those their Tasks wait for, are served;
\* what that means does not depend on the calls an instance makes.
Served == Loops!Served
=============================================================================
