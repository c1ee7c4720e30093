------------------------------ MODULE Doorbell ------------------------------
(***************************************************************************)
(* WakeTarget of include/tdlua/common/wake.h: the doorbell between threads *)
(* that publish into the mailboxes of one owner and the host loop that     *)
(* parks on its descriptor.  Every atomic access and every system call is  *)
(* a step, so that a ring may fall anywhere inside a clear, and the        *)
(* transport may fail under either.                                        *)
(*                                                                         *)
(* The host follows the contract of the class: clear, check the level,     *)
(* park; one whose transport became unreliable polls instead.              *)
(***************************************************************************)
EXTENDS Naturals

CONSTANTS
    Producers,  \* threads that publish and ring
    Room,       \* what the kernel object can hold before a write would block
    MaxWork,    \* bound: items in the mailboxes
    MayFail     \* whether a read or a write of the kernel object may fail

ASSUME RoomAssumption == Room \in Nat \ {0}
ASSUME MaxWorkNat == MaxWork \in Nat
ASSUME MayFailBoolean == MayFail \in BOOLEAN

VARIABLES
    work,      \* depth of the owner's mailboxes, the level the host checks
    asserted,  \* asserted_
    reliable,  \* reliable_
    kernel,    \* the eventfd's counter, or the bytes in the socket or pipe
    ringer,    \* where each producer is in ring()
    host       \* where the host is in its loop

vars == <<work, asserted, reliable, kernel, ringer, host>>

TypeOK ==
    /\ work \in Nat
    /\ asserted \in BOOLEAN /\ reliable \in BOOLEAN
    /\ kernel \in 0..Room
    /\ ringer \in [Producers -> {"idle", "published", "write", "failing"}]
    /\ host \in {"drain", "store", "failing", "check", "checked", "park"}

Init ==
    /\ work = 0
    /\ asserted = FALSE /\ reliable = TRUE
    /\ kernel = 0
    /\ ringer = [p \in Producers |-> "idle"]
    /\ host = "check"

-----------------------------------------------------------------------------
(***************************************************************************)
(* Producers: state first, ring after.                                     *)
(***************************************************************************)
Publish(p) ==
    /\ ringer[p] = "idle" /\ work < MaxWork
    /\ work' = work + 1
    /\ ringer' = [ringer EXCEPT ![p] = "published"]
    /\ UNCHANGED <<asserted, reliable, kernel, host>>

\* ring(): only the first ring since the last clear touches the kernel object.
Ring(p) ==
    /\ ringer[p] = "published"
    /\ ringer' = [ringer EXCEPT ![p] = IF asserted THEN "idle" ELSE "write"]
    /\ asserted' = TRUE
    /\ UNCHANGED <<work, reliable, kernel, host>>

\* writeOne(); one that would block finds the object readable already.
Write(p) ==
    /\ ringer[p] = "write"
    /\ kernel' = IF kernel < Room THEN kernel + 1 ELSE kernel
    /\ ringer' = [ringer EXCEPT ![p] = "idle"]
    /\ UNCHANGED <<work, asserted, reliable, host>>

WriteFails_Silent(p) ==
    /\ MayFail
    /\ ringer[p] = "write"
    /\ ringer' = [ringer EXCEPT ![p] = "failing"]
    /\ UNCHANGED <<work, asserted, reliable, kernel, host>>

\* The write failed, or was interrupted eight times: fail(), in its two stores.
WriteFails(p) ==
    /\ MayFail
    /\ ringer[p] = "write"
    /\ reliable' = FALSE
    /\ ringer' = [ringer EXCEPT ![p] = "failing"]
    /\ UNCHANGED <<work, asserted, kernel, host>>

RingFailed(p) ==
    /\ ringer[p] = "failing"
    /\ asserted' = FALSE
    /\ ringer' = [ringer EXCEPT ![p] = "idle"]
    /\ UNCHANGED <<work, reliable, kernel, host>>

-----------------------------------------------------------------------------
(***************************************************************************)
(* The host: clear(), hasWork(), wait().                                   *)
(***************************************************************************)

\* readOne(): an eventfd is emptied, a pipe or a socket loses some bytes; the
\* read that would block ends the loop.
Drain ==
    /\ host = "drain"
    /\ \/ kernel > 0 /\ kernel' \in 0..(kernel - 1) /\ UNCHANGED host
       \/ kernel = 0 /\ host' = "store" /\ UNCHANGED kernel
    /\ UNCHANGED <<work, asserted, reliable, ringer>>

Store_Forgotten ==
    /\ host = "store"
    /\ host' = "check"
    /\ UNCHANGED <<work, asserted, reliable, kernel, ringer>>

\* The flag is lowered only after the object is empty.
Store ==
    /\ host = "store"
    /\ asserted' = FALSE
    /\ host' = "check"
    /\ UNCHANGED <<work, reliable, kernel, ringer>>

ReadFails ==
    /\ MayFail
    /\ host = "drain"
    /\ reliable' = FALSE
    /\ host' = "failing"
    /\ UNCHANGED <<work, asserted, kernel, ringer>>

ClearFailed ==
    /\ host = "failing"
    /\ asserted' = FALSE
    /\ host' = "check"
    /\ UNCHANGED <<work, reliable, kernel, ringer>>

\* hasWork() is true: the host receives one item.
Consume ==
    /\ host = "check" /\ work > 0
    /\ work' = work - 1
    /\ UNCHANGED <<asserted, reliable, kernel, ringer, host>>

See_Unchecked ==
    /\ host = "check"
    /\ host' = "checked"
    /\ UNCHANGED <<work, asserted, reliable, kernel, ringer>>

\* hasWork() is false; work may arrive before the host parks.
See ==
    /\ host = "check" /\ work = 0
    /\ host' = "checked"
    /\ UNCHANGED <<work, asserted, reliable, kernel, ringer>>

\* wait() on a reliable transport blocks in poll().
Park ==
    /\ host = "checked" /\ reliable
    /\ host' = "park"
    /\ UNCHANGED <<work, asserted, reliable, kernel, ringer>>

\* wait() refuses an unreliable transport: the host polls, clearing and
\* checking on a timer of its own.
Refused ==
    /\ host = "checked" /\ ~reliable
    /\ host' = "drain"
    /\ UNCHANGED <<work, asserted, reliable, kernel, ringer>>

\* poll() found the object readable.
WakeUp ==
    /\ host = "park" /\ kernel > 0
    /\ host' = "drain"
    /\ UNCHANGED <<work, asserted, reliable, kernel, ringer>>

\* poll() timed out or was interrupted.
Timeout ==
    /\ host = "park"
    /\ host' = "drain"
    /\ UNCHANGED <<work, asserted, reliable, kernel, ringer>>

RingStep(p) == Ring(p) \/ Write(p) \/ RingFailed(p)

HostStep ==
    Drain \/ Store \/ ClearFailed \/ Consume \/ See \/ Park \/ Refused \/ WakeUp

Next ==
    \/ \E p \in Producers : Publish(p) \/ RingStep(p) \/ WriteFails(p)
    \/ HostStep \/ ReadFails \/ Timeout

Spec == Init /\ [][Next]_vars

-----------------------------------------------------------------------------
(***************************************************************************)
(* Properties.                                                             *)
(***************************************************************************)

\* A wakeup is on its way: the object is readable, or a ring is not finished.
Signalled == kernel > 0 \/ \E p \in Producers : ringer[p] \in {"published", "write"}

\* No wakeup is lost: a host that parks on a reliable doorbell while there is
\* work is about to be woken, wherever the rings fell inside its clear().
NoLostWakeup == host = "park" /\ reliable /\ work > 0 => Signalled

Asleep == host = "park" /\ reliable /\ ~Signalled

Level == INSTANCE LevelEvent WITH work <- work, asleep <- Asleep

\* The doorbell is a level-triggered event, coalescing and failures included.
IsLevelEvent == Level!Spec

\* Rings in progress finish and the host keeps turning; a park has no timeout,
\* and nobody is obliged to publish.
FairSpec == Spec /\ WF_vars(HostStep) /\ \A p \in Producers : WF_vars(RingStep(p))

\* While the transport is reliable, published work brings the host back to its
\* check with the work still there, without any help from a timeout: it neither
\* sleeps through it nor drains for ever under a stream of rings.
WorkServed == work > 0 ~> (host = "check" /\ work > 0) \/ ~reliable

\* What keeps a wakeup from being lost: a raised flag stands for a byte in the
\* kernel object, a write under way, or a clear() that will lower the flag
\* before the level is checked again.
FlagCovered ==
    asserted /\ reliable =>
        \/ kernel > 0
        \/ \E p \in Producers : ringer[p] = "write"
        \/ host \in {"drain", "store"}

\* A host that found no work and is about to park, or parked, is covered too.
CheckedCovered == host \in {"checked", "park"} /\ reliable /\ work > 0 => Signalled

Inv == TypeOK /\ FlagCovered /\ CheckedCovered
=============================================================================
