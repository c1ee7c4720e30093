------------------------- MODULE MCClientLifecycle -------------------------
(***************************************************************************)
(* A client from its first request to its end, or two clients that main    *)
(* code and callbacks drive through each other.  The subject is chosen at  *)
(* the start and the other system rests, so that their state spaces add up *)
(* instead of multiplying.  The shutdown requests of the application are   *)
(* symmetric, and so are the clients.                                      *)
(***************************************************************************)
EXTENDS ClientLifecycle, ManagedDriver, TLC

VARIABLE subject

MCInit == Init /\ ManagedInit /\ subject \in {"life", "drives"}

LifeNext == subject = "life" /\ Next /\ UNCHANGED <<subject, managed>>
DrivesNext == subject = "drives" /\ ManagedNext /\ UNCHANGED <<subject, vars>>

MCSpec == MCInit /\ [][LifeNext \/ DrivesNext]_<<subject, vars, managed>>

Symmetry == Permutations(Shutdowns) \cup Permutations(Clients)

=============================================================================
