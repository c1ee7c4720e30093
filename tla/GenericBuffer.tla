---------------------------- MODULE GenericBuffer ----------------------------
(***************************************************************************)
(* The bounded generic buffer of one client: the tickets that updates and  *)
(* raw responses carry (GenericTicket, addGenericLocked, pruneGenericLocked *)
(* and compactGenericLocked of include/tdlua/common/receiver.h), from the  *)
(* worker that issues and evicts them to the owner's thread that consumes  *)
(* the items (src/backend/json/client.cpp).                                *)
(*                                                                         *)
(* The worker runs under the registry lock, the owner under the mailbox    *)
(* lock at most: they meet in the mailbox, in each ticket's atomic flag    *)
(* and in the atomic count of pending tickets.  A ticket is retired by a   *)
(* compare-exchange of the flag, and the count follows in a second step.   *)
(***************************************************************************)
EXTENDS Naturals, Sequences, FiniteSets, SequencesExt

CONSTANTS
    Capacity,  \* generic_capacity_
    TTL,       \* generic_ttl_, in ticks of the clock
    MaxItems,  \* bound: items published
    MaxTime    \* bound: the clock

ASSUME CapacityAssumption == Capacity \in Nat \ {0}
ASSUME TTLAssumption == TTL \in Nat \ {0}
ASSUME BoundsNat == MaxItems \in Nat /\ MaxTime \in Nat

Items == 1..MaxItems

VARIABLES
    ticket,   \* the ticket of each item: its place, its flag and its time
    mailbox,  \* Mailbox::queue_
    updates,  \* the owner's deque of preserved items
    fifo,     \* generic_fifo, of weak pointers
    pending,  \* generic_pending
    worker,   \* addGenericLocked(): its step, its item, `now' and `oldest'
    owner,    \* the owner's step, the item in its hands, the fetch_sub it owes
    clock

vars == <<ticket, mailbox, updates, fifo, pending, worker, owner, clock>>

None == 0

Ticket == [place : {"none", "mailbox", "hand", "updates", "gone"}, active : BOOLEAN,
           acquired : 0..MaxTime]

TypeOK ==
    /\ ticket \in [Items -> Ticket]
    /\ {mailbox, updates, fifo} \subseteq Seq(Items)
    /\ pending \in 0..MaxItems
    /\ worker \in [pc : {"idle", "add", "prune", "check", "evict", "retire", "insert"},
                   item : 0..MaxItems, now : 0..MaxTime, oldest : 0..MaxItems]
    /\ owner \in [pc : {"idle", "dispatch", "recheck", "exposed"}, item : 0..MaxItems, owes : 0..1]
    /\ clock \in 0..MaxTime

Init ==
    /\ ticket = [i \in Items |-> [place |-> "none", active |-> FALSE, acquired |-> 0]]
    /\ mailbox = <<>> /\ updates = <<>> /\ fifo = <<>>
    /\ pending = 0
    /\ worker = [pc |-> "idle", item |-> 0, now |-> 0, oldest |-> None]
    /\ owner = [pc |-> "idle", item |-> None, owes |-> 0]
    /\ clock = 0

Expired(i, now) == now >= ticket[i].acquired + TTL

\* GenericTicket::active(now) would return true.
Active(i, now) == ticket[i].active /\ ~Expired(i, now)

\* weak_ptr::lock() finds the ticket: its item still exists, or the evicting
\* worker holds a reference.
Alive(i) == ticket[i].place # "gone" \/ worker.oldest = i

\* What is left of a queue once the items of `gone' are erased, in its order.
Without(s, gone) ==
    LET left == {k \in 1..Len(s) : s[k] \notin gone}
        Rank(k) == Cardinality({j \in left : j <= k})
    IN  [n \in 1..Cardinality(left) |-> s[CHOOSE k \in left : Rank(k) = n]]

-----------------------------------------------------------------------------
(***************************************************************************)
(* The worker: publish() of a ticketed item.                               *)
(***************************************************************************)

\* Source::receive returned an item and run() stamped it; time may pass before
\* publish() asks for the current time.
Acquire ==
    /\ worker.pc = "idle" /\ worker.item < MaxItems
    /\ ticket' = [ticket EXCEPT ![worker.item + 1].acquired = clock]
    /\ worker' = [worker EXCEPT !.pc = "add", !.item = @ + 1]
    /\ UNCHANGED <<mailbox, updates, fifo, pending, owner, clock>>

AddGeneric ==
    /\ worker.pc = "add"
    /\ worker' = [worker EXCEPT !.pc = "prune", !.now = clock]
    /\ UNCHANGED <<ticket, mailbox, updates, fifo, pending, owner, clock>>

\* Ticket i, found inactive at the worker's time, leaves the mailbox; an expired
\* one is retired by this very check.
Discard(i) ==
    /\ ticket' = [ticket EXCEPT ![i].active = FALSE,
                                ![i].place = IF @ = "mailbox" THEN "gone" ELSE @]
    /\ mailbox' = Without(mailbox, {i})
    /\ pending' = IF ticket[i].active THEN pending - 1 ELSE pending

\* pruneGenericLocked(): one turn of its loop, and its end.
Prune ==
    /\ worker.pc = "prune"
    /\ fifo # <<>> /\ ~(Alive(Head(fifo)) /\ Active(Head(fifo), worker.now))
    /\ Discard(Head(fifo))
    /\ fifo' = Tail(fifo)
    /\ UNCHANGED <<updates, worker, owner, clock>>

Threshold == Capacity * 2

\* compactGenericLocked(): the inactive tickets behind the first active one go.
Compact ==
    LET dead == {i \in ToSet(fifo) : ~(Alive(i) /\ Active(i, worker.now))} IN
    /\ worker.pc = "prune"
    /\ fifo # <<>> => Alive(Head(fifo)) /\ Active(Head(fifo), worker.now)
    /\ worker' = [worker EXCEPT !.pc = "check"]
    /\ IF Len(fifo) <= Threshold
       THEN UNCHANGED <<ticket, mailbox, fifo, pending>>
       ELSE /\ fifo' = Without(fifo, dead)
            /\ mailbox' = Without(mailbox, dead)
            /\ ticket' = [i \in Items |->
                            IF i \notin dead THEN ticket[i]
                            ELSE [ticket[i] EXCEPT
                                    !.active = FALSE,
                                    !.place = IF @ = "mailbox" THEN "gone" ELSE @]]
            /\ pending' = pending - Cardinality({i \in dead : ticket[i].active})
    /\ UNCHANGED <<updates, owner, clock>>

Full == pending >= Capacity

CheckCapacity ==
    /\ worker.pc = "check"
    /\ worker' = [worker EXCEPT !.pc = IF Full THEN "evict" ELSE "insert"]
    /\ UNCHANGED <<ticket, mailbox, updates, fifo, pending, owner, clock>>

\* The eviction loop: pass over inactive tickets, stop at the oldest active one.
EvictPick ==
    /\ worker.pc = "evict"
    /\ \/ /\ fifo = <<>>
          /\ worker' = [worker EXCEPT !.pc = "insert"]
          /\ UNCHANGED <<ticket, mailbox, fifo, pending>>
       \/ /\ fifo # <<>>
          /\ fifo' = Tail(fifo)
          /\ IF Alive(Head(fifo)) /\ Active(Head(fifo), worker.now)
             THEN /\ worker' = [worker EXCEPT !.pc = "retire", !.oldest = Head(fifo)]
                  /\ UNCHANGED <<ticket, mailbox, pending>>
             ELSE Discard(Head(fifo)) /\ UNCHANGED worker
    /\ UNCHANGED <<updates, owner, clock>>

\* retire(Overflow) and eraseGeneric(); the owner may have taken the item since.
EvictRetire ==
    /\ worker.pc = "retire"
    /\ Discard(worker.oldest)
    /\ worker' = [worker EXCEPT !.pc = "insert", !.oldest = None]
    /\ UNCHANGED <<updates, fifo, owner, clock>>

Insert_NotFirst ==
    /\ worker.pc = "insert"
    /\ ticket' = [ticket EXCEPT ![worker.item].active = TRUE,
                                ![worker.item].place = "mailbox"]
    /\ pending' = pending + 1
    /\ fifo' = <<worker.item>> \o fifo
    /\ mailbox' = Append(mailbox, worker.item)
    /\ worker' = [worker EXCEPT !.pc = "idle"]
    /\ UNCHANGED <<updates, owner, clock>>

\* The new ticket, and Mailbox::publish().
Insert ==
    /\ worker.pc = "insert"
    /\ ticket' = [ticket EXCEPT ![worker.item].active = TRUE,
                                ![worker.item].place = "mailbox"]
    /\ pending' = pending + 1
    /\ fifo' = Append(fifo, worker.item)
    /\ mailbox' = Append(mailbox, worker.item)
    /\ worker' = [worker EXCEPT !.pc = "idle"]
    /\ UNCHANGED <<updates, owner, clock>>

-----------------------------------------------------------------------------
(***************************************************************************)
(* The owner.                                                              *)
(***************************************************************************)

Destroy_NoExchange(i, next) ==
    /\ ticket' = [ticket EXCEPT ![i].place = "gone", ![i].active = FALSE]
    /\ owner' = [pc |-> next, item |-> None, owes |-> 1]

\* The last reference of the owner to item i goes: the ticket is retired,
\* unless the evicting worker holds it, and the owner owes a fetch_sub.
Destroy(i, next) ==
    LET retires == ticket[i].active /\ worker.oldest # i IN
    /\ ticket' = [ticket EXCEPT ![i].place = "gone", ![i].active = @ /\ ~retires]
    /\ owner' = [pc |-> next, item |-> None, owes |-> IF retires THEN 1 ELSE 0]

\* A check of active() that retires an expired ticket and drops its item.
DropExpired(i, next) ==
    /\ ticket' = [ticket EXCEPT ![i].active = FALSE, ![i].place = "gone"]
    /\ owner' = [pc |-> next, item |-> None, owes |-> IF ticket[i].active THEN 1 ELSE 0]

PayPending ==
    /\ owner.owes = 1
    /\ pending' = pending - 1
    /\ owner' = [owner EXCEPT !.owes = 0]
    /\ UNCHANGED <<ticket, mailbox, updates, fifo, worker, clock>>

\* popLocked(): skip an inactive head, or take an active one.
PopMailbox ==
    LET i == Head(mailbox) IN
    /\ owner.pc = "idle" /\ owner.owes = 0
    /\ mailbox # <<>>
    /\ mailbox' = Tail(mailbox)
    /\ IF Active(i, clock)
       THEN /\ ticket' = [ticket EXCEPT ![i].place = "hand"]
            /\ owner' = [owner EXCEPT !.pc = "dispatch", !.item = i]
       ELSE DropExpired(i, "idle")
    /\ UNCHANGED <<updates, fifo, pending, worker, clock>>

\* dispatchPumpItem(): a route other than Raw releases the ticket at once.
DispatchConsumes ==
    /\ owner.pc = "dispatch" /\ owner.owes = 0
    /\ Destroy(owner.item, "idle")
    /\ UNCHANGED <<mailbox, updates, fifo, pending, worker, clock>>

\* preservePumpItem(), after its pruneExpiredUpdates().
Preserve ==
    /\ owner.pc = "dispatch" /\ owner.owes = 0
    /\ \A k \in 1..Len(updates) : Active(updates[k], clock)
    /\ updates' = Append(updates, owner.item)
    /\ ticket' = [ticket EXCEPT ![owner.item].place = "updates"]
    /\ owner' = [owner EXCEPT !.pc = "idle", !.item = None]
    /\ UNCHANGED <<mailbox, fifo, pending, worker, clock>>

\* One erasure of pruneExpiredUpdates(), which precedes every use of the deque.
PruneUpdate ==
    /\ owner.pc \in {"idle", "dispatch"} /\ owner.owes = 0
    /\ \E k \in 1..Len(updates) :
         LET i == updates[k] IN
         /\ ~Active(i, clock)
         /\ updates' = Without(updates, {i})
         /\ ticket' = [ticket EXCEPT ![i].active = FALSE, ![i].place = "gone"]
         /\ owner' = [owner EXCEPT !.owes = IF ticket[i].active THEN 1 ELSE 0]
    /\ UNCHANGED <<mailbox, fifo, pending, worker, clock>>

\* tryPop(): the front is active when it is moved out of the deque.
TryPop ==
    /\ owner.pc = "idle" /\ owner.owes = 0
    /\ updates # <<>>
    /\ \A k \in 1..Len(updates) : Active(updates[k], clock)
    /\ updates' = Tail(updates)
    /\ ticket' = [ticket EXCEPT ![Head(updates)].place = "hand"]
    /\ owner' = [owner EXCEPT !.pc = "recheck", !.item = Head(updates)]
    /\ UNCHANGED <<mailbox, fifo, pending, worker, clock>>

\* active() after the move.
Recheck == Active(owner.item, clock)

\* The item reaches the caller, and its ticket goes with it.
Expose ==
    /\ owner.pc = "recheck"
    /\ Recheck
    /\ owner' = [owner EXCEPT !.pc = "exposed"]
    /\ UNCHANGED <<ticket, mailbox, updates, fifo, pending, worker, clock>>

Release ==
    /\ owner.pc = "exposed"
    /\ Destroy(owner.item, "idle")
    /\ UNCHANGED <<mailbox, updates, fifo, pending, worker, clock>>

Skip ==
    /\ owner.pc = "recheck"
    /\ ~Recheck
    /\ DropExpired(owner.item, "idle")
    /\ UNCHANGED <<mailbox, updates, fifo, pending, worker, clock>>

Tick ==
    /\ clock < MaxTime
    /\ clock' = clock + 1
    /\ UNCHANGED <<ticket, mailbox, updates, fifo, pending, worker, owner>>

WorkerStep ==
    \/ Acquire \/ AddGeneric \/ Prune \/ Compact \/ CheckCapacity \/ EvictPick
    \/ EvictRetire \/ Insert

OwnerStep ==
    \/ PayPending \/ PopMailbox \/ DispatchConsumes \/ Preserve \/ PruneUpdate \/ TryPop
    \/ Expose \/ Release \/ Skip

Next == WorkerStep \/ OwnerStep \/ Tick

Spec == Init /\ [][Next]_vars

-----------------------------------------------------------------------------
(***************************************************************************)
(* Properties.                                                             *)
(***************************************************************************)
ActiveTickets == {i \in Items : ticket[i].active}

\* The count of pending tickets is never below the tickets still active, and is
\* above it only while a retirement is between its two steps: no race loses or
\* repeats a decrement.
PendingExact == pending = Cardinality(ActiveTickets) + owner.owes

\* The buffer never holds more active tickets than its capacity, wherever the
\* owner has put the items.
CapacityHolds == Cardinality(ActiveTickets) <= Capacity

\* The queue of ticket metadata is bounded too, even when consumed tickets pile
\* up behind an old one nobody consumes.
MetadataBounded == Len(fifo) <= Capacity * 2 + 1

\* Overflow drops the oldest: no older ticket is active when one is evicted.
DropsOldest ==
    [][worker.pc = "retire" /\ worker'.pc = "insert"
         => \A i \in ActiveTickets : i >= worker.oldest]_vars
=============================================================================
