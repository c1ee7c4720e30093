-------------------------- MODULE MCEventLoopDriver --------------------------
(***************************************************************************)
(* A small instance of EventLoopDriver.  The world either sends updates,   *)
(* lets deadlines pass and closes clients, or brings work that no client   *)
(* here receives and takes the hub from the driver, chosen at the start,   *)
(* so that the state spaces add up instead of multiplying.  The clients    *)
(* are interchangeable until they are registered, so TLC may permute them. *)
(***************************************************************************)
EXTENDS EventLoopDriver

VARIABLE scenario

MCInit == Init /\ scenario \in {"updates", "work"}

MCNext ==
    /\ Next
    /\ IF scenario = "updates" THEN UNCHANGED <<foreign, owner>>
       ELSE UNCHANGED <<backlog, closed, expired>>
    /\ UNCHANGED scenario

MCSpec == MCInit /\ [][MCNext]_<<vars, scenario>>

Symmetry == Permutations(Clients)
=============================================================================
