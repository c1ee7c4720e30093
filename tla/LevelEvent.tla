----------------------------- MODULE LevelEvent -----------------------------
(***************************************************************************)
(* What the doorbell of include/tdlua/common/wake.h promises its host: a   *)
(* level-triggered event.  The host falls asleep only when there is no     *)
(* work, and work that appears wakes it at once; it may also be woken for  *)
(* nothing.                                                                *)
(***************************************************************************)
EXTENDS Naturals

VARIABLES
    work,   \* items in the owner's mailboxes
    asleep  \* the host waits and nothing is about to wake it

Init == work = 0 /\ asleep = FALSE

Produce == work' = work + 1 /\ asleep' = FALSE

Consume == ~asleep /\ work > 0 /\ work' = work - 1 /\ UNCHANGED asleep

Sleep == work = 0 /\ asleep' = TRUE /\ UNCHANGED work

Wake == asleep' = FALSE /\ UNCHANGED work

Next == Produce \/ Consume \/ Sleep \/ Wake

Spec == Init /\ [][Next]_<<work, asleep>>
=============================================================================
