---------------------------- MODULE ReadinessHub ----------------------------
(***************************************************************************)
(* ReadinessHub of include/tdlua/common/readiness.h and its use by the     *)
(* receiver runtime: which doorbell a publication rings.  The receiver's   *)
(* thread publishes into mailboxes, or fails the runtime, and rings after  *)
(* it has left its lock; each VM attaches, creates its doorbell when it    *)
(* first wants one, binds and forgets clients and detaches, while a thread *)
(* of its host may be parked on the doorbell.                              *)
(*                                                                         *)
(* A doorbell is a level-triggered flag here, which Doorbell refines.      *)
(* Every lock region of the hub is a step, and so is the load of any_wake_ *)
(* that spares publications the lock.                                      *)
(***************************************************************************)
EXTENDS Naturals

CONSTANTS
    Vms,       \* owner tokens, which are never used twice
    Clients,   \* client identities: one that was forgotten, and that nobody still
               \* names, stands for the next
    VmOf,      \* the VM that creates each client
    MaxBacklog \* bound: items in one mailbox

ASSUME HubAssumption == MaxBacklog \in Nat /\ VmOf \in [Clients -> Vms]

VARIABLES
    stage,     \* of each VM: "new", "attached", and the steps of its detach
    wake,      \* its doorbell: "none", "invalid" or "valid"
    rung,      \* the doorbells that are readable
    any_wake,  \* any_wake_
    entries,   \* clients the runtime knows and would publish to
    bound,     \* clients bound in the hub
    depth,     \* depth of each mailbox
    failed,    \* the runtime has failed
    worker,    \* the receiver's thread: idle, or whom it is to ring and how far
    hosts,     \* the host of each VM: running, reading mailboxes, about to
               \* wait, or parked
    unread     \* the mailboxes hasWork() has still to read

owners == <<stage, wake, entries, bound>>
hubVars == <<owners, rung, any_wake, depth, failed, worker, hosts, unread>>

Idle == [at |-> "idle", rings |-> {}]

HubTypeOK ==
    /\ stage \in [Vms -> {"new", "attached", "orphaned", "ringing", "rung", "detached"}]
    /\ wake \in [Vms -> {"none", "invalid", "valid"}]
    /\ rung \subseteq Vms /\ any_wake \in BOOLEAN
    /\ entries \subseteq Clients /\ bound \subseteq Clients
    /\ depth \in [Clients -> 0..MaxBacklog] /\ failed \in BOOLEAN
    /\ worker \in [at : {"idle", "load", "lock"}, rings : SUBSET Clients]
    /\ hosts \in [Vms -> {"run", "scan", "wait", "parked"}]
    /\ unread \in [Vms -> SUBSET Clients]

HubInit ==
    /\ stage = [v \in Vms |-> "new"] /\ wake = [v \in Vms |-> "none"]
    /\ rung = {} /\ any_wake = FALSE
    /\ entries = {} /\ bound = {}
    /\ depth = [c \in Clients |-> 0] /\ failed = FALSE
    /\ worker = Idle
    /\ hosts = [v \in Vms |-> "run"] /\ unread = [v \in Vms |-> {}]

Of(v) == {c \in bound : VmOf[c] = v}

\* An owner that the hub holds, and whose doorbell a ring reaches.
Held(v) == stage[v] \notin {"new", "detached"}
Rings(v) == Held(v) /\ wake[v] = "valid"

-----------------------------------------------------------------------------
(***************************************************************************)
(* The owner thread of a VM: one call at a time, so that it is neither     *)
(* reading mailboxes nor halfway through creating or forgetting a client.  *)
(***************************************************************************)
Halfway(c) == (c \in entries) # (c \in bound)
Calling(v) == stage[v] = "attached" /\ hosts[v] # "scan"
Free(v) == Calling(v) /\ \A c \in Clients : VmOf[c] = v => ~Halfway(c)

Attach(v) ==
    /\ stage[v] = "new" /\ ~failed
    /\ stage' = [stage EXCEPT ![v] = "attached"]
    /\ UNCHANGED <<wake, rung, any_wake, entries, bound, depth, failed, worker, hosts, unread>>

\* enableWake(): the flag tells publishers that there is a doorbell.
EnableWake_Quiet(v) ==
    /\ Free(v) /\ wake[v] = "none"
    /\ \E made \in {"invalid", "valid"} : wake' = [wake EXCEPT ![v] = made]
    /\ UNCHANGED <<stage, rung, any_wake, entries, bound, depth, failed, worker, hosts, unread>>

EnableWake(v) ==
    /\ Free(v) /\ wake[v] = "none"
    /\ \E made \in {"invalid", "valid"} :
         /\ wake' = [wake EXCEPT ![v] = made]
         /\ any_wake' = (any_wake \/ made = "valid")
    /\ UNCHANGED <<stage, rung, entries, bound, depth, failed, worker, hosts, unread>>

\* createClient() registers the client with the runtime, then binds it.
Create(c) ==
    /\ Free(VmOf[c]) /\ ~failed /\ c \notin entries /\ c \notin bound
    /\ depth[c] = 0 /\ c \notin worker.rings
    /\ entries' = entries \cup {c}
    /\ UNCHANGED <<stage, wake, rung, any_wake, bound, depth, failed, worker, hosts, unread>>

BindClient(c) ==
    /\ Calling(VmOf[c]) /\ c \in entries /\ c \notin bound
    /\ bound' = bound \cup {c}
    /\ UNCHANGED <<stage, wake, rung, any_wake, entries, depth, failed, worker, hosts, unread>>

\* An allocation failed: the registration is taken back.
BindFails(c) ==
    /\ Calling(VmOf[c]) /\ c \in entries /\ c \notin bound
    /\ entries' = entries \ {c}
    /\ UNCHANGED <<stage, wake, rung, any_wake, bound, depth, failed, worker, hosts, unread>>

\* forget() abandons the mailbox, then unbinds the client.
Forget(c) ==
    /\ Free(VmOf[c]) /\ c \in entries /\ c \in bound
    /\ entries' = entries \ {c}
    /\ UNCHANGED <<stage, wake, rung, any_wake, bound, depth, failed, worker, hosts, unread>>

UnbindClient(c) ==
    /\ Calling(VmOf[c]) /\ c \in bound /\ c \notin entries
    /\ bound' = bound \ {c}
    /\ UNCHANGED <<stage, wake, rung, any_wake, entries, depth, failed, worker, hosts, unread>>

Receive(c) ==
    /\ Free(VmOf[c]) /\ c \in bound /\ depth[c] > 0
    /\ depth' = [depth EXCEPT ![c] = @ - 1]
    /\ UNCHANGED <<owners, rung, any_wake, failed, worker, hosts, unread>>

\* detachOwner() of the runtime: nothing is published for the VM any more.  It
\* then rings the doorbell, past the same flag, and has the hub drop the owner.
Orphan(v) ==
    /\ Free(v)
    /\ stage' = [stage EXCEPT ![v] = "orphaned"]
    /\ entries' = {c \in entries : VmOf[c] # v}
    /\ UNCHANGED <<wake, rung, any_wake, bound, depth, failed, worker, hosts, unread>>

LoadAnyWake(v) ==
    /\ stage[v] = "orphaned"
    /\ stage' = [stage EXCEPT ![v] = IF any_wake THEN "ringing" ELSE "rung"]
    /\ UNCHANGED <<wake, rung, any_wake, entries, bound, depth, failed, worker, hosts, unread>>

RingOwner(v) ==
    /\ stage[v] = "ringing"
    /\ stage' = [stage EXCEPT ![v] = "rung"]
    /\ rung' = IF wake[v] = "valid" THEN rung \cup {v} ELSE rung
    /\ UNCHANGED <<wake, any_wake, entries, bound, depth, failed, worker, hosts, unread>>

\* detachOwner() of the hub, with refreshAnyWakeLocked().
UnbindOwner(v) ==
    /\ stage[v] = "rung"
    /\ stage' = [stage EXCEPT ![v] = "detached"]
    /\ bound' = bound \ Of(v)
    /\ any_wake' = \E o \in Vms \ {v} : Held(o) /\ wake[o] # "none"
    /\ UNCHANGED <<wake, rung, entries, depth, failed, worker, hosts, unread>>

-----------------------------------------------------------------------------
(***************************************************************************)
(* The host of a VM: clearWake(), hasWork(), waitOwner().  The thread that *)
(* waits may be another than the owner's.                                  *)
(***************************************************************************)
At(v, place) == hosts' = [hosts EXCEPT ![v] = place]

\* The doorbell is cleared and the handles of the mailboxes are copied.
Clear(v) ==
    /\ hosts[v] = "run" /\ Free(v) /\ wake[v] = "valid"
    /\ rung' = rung \ {v}
    /\ At(v, "scan") /\ unread' = [unread EXCEPT ![v] = Of(v)]
    /\ UNCHANGED <<owners, any_wake, depth, failed, worker>>

\* Each mailbox is read outside the hub's lock.
ReadMailbox(v) ==
    /\ hosts[v] = "scan"
    /\ \E c \in unread[v] :
         IF depth[c] > 0 \/ failed
         THEN At(v, "run") /\ unread' = [unread EXCEPT ![v] = {}]
         ELSE unread' = [unread EXCEPT ![v] = @ \ {c}] /\ UNCHANGED hosts
    /\ UNCHANGED <<owners, rung, any_wake, depth, failed, worker>>

NothingSeen(v) ==
    /\ hosts[v] = "scan" /\ unread[v] = {}
    /\ At(v, "wait")
    /\ UNCHANGED <<owners, rung, any_wake, depth, failed, worker, unread>>

\* waitOwner() takes a reference under the lock, if there is an owner.
WaitOwner(v) ==
    /\ hosts[v] = "wait"
    /\ At(v, IF Held(v) THEN "parked" ELSE "run")
    /\ UNCHANGED <<owners, rung, any_wake, depth, failed, worker, unread>>

WakeHost(v) ==
    /\ hosts[v] = "parked" /\ v \in rung
    /\ At(v, "run")
    /\ UNCHANGED <<owners, rung, any_wake, depth, failed, worker, unread>>

-----------------------------------------------------------------------------
(***************************************************************************)
(* The receiver's thread.                                                  *)
(***************************************************************************)

\* TDLib has nothing for a client that is not bound yet, as it sent no request.
PublishTo(c) ==
    /\ worker = Idle /\ ~failed /\ c \in entries \cap bound /\ depth[c] < MaxBacklog
    /\ depth' = [depth EXCEPT ![c] = @ + 1]
    /\ worker' = [at |-> "load", rings |-> {c}]
    /\ UNCHANGED <<owners, rung, any_wake, failed, hosts, unread>>

Fail ==
    /\ worker = Idle /\ ~failed
    /\ failed' = TRUE
    /\ worker' = [at |-> "load", rings |-> Clients]
    /\ UNCHANGED <<owners, rung, any_wake, depth, hosts, unread>>

Load ==
    /\ worker.at = "load"
    /\ worker' = IF any_wake THEN [worker EXCEPT !.at = "lock"] ELSE Idle
    /\ UNCHANGED <<owners, rung, any_wake, depth, failed, hosts, unread>>

\* ringClient(), through the binding, or broadcast().
RingClient ==
    /\ worker.at = "lock"
    /\ rung' = rung \cup
         {v \in Vms : Rings(v) /\ (failed \/ \E c \in worker.rings \cap bound : VmOf[c] = v)}
    /\ worker' = Idle
    /\ UNCHANGED <<owners, any_wake, depth, failed, hosts, unread>>

OwnerStep ==
    \/ \E v \in Vms : Attach(v) \/ EnableWake(v) \/ Orphan(v)
    \/ \E c \in Clients :
         \/ Create(c) \/ BindClient(c) \/ BindFails(c)
         \/ Forget(c) \/ UnbindClient(c) \/ Receive(c)

DetachStep(v) == LoadAnyWake(v) \/ RingOwner(v) \/ UnbindOwner(v)
HostTurns(v) == Clear(v) \/ ReadMailbox(v) \/ NothingSeen(v) \/ WaitOwner(v) \/ WakeHost(v)
WorkerStep == Load \/ RingClient

HubNext ==
    \/ OwnerStep \/ WorkerStep \/ Fail
    \/ \E v \in Vms : DetachStep(v) \/ HostTurns(v)
    \/ \E c \in Clients : PublishTo(c)

HubSpec == HubInit /\ [][HubNext]_hubVars

\* A publication and a detach that began go on, and so does the host's loop.
HubFairness ==
    /\ WF_hubVars(WorkerStep)
    /\ \A v \in Vms : WF_hubVars(DetachStep(v)) /\ WF_hubVars(HostTurns(v))

FairHubSpec == HubSpec /\ HubFairness

-----------------------------------------------------------------------------
(***************************************************************************)
(* Properties.                                                             *)
(***************************************************************************)
HasWork(v) == \E c \in Of(v) : depth[c] > 0 \/ failed

\* The worker still has to ring for the VM, and will not be turned away.
Coming(v) ==
    /\ worker # Idle /\ (worker.at = "load" => any_wake)
    /\ failed \/ \E c \in worker.rings \cap bound : VmOf[c] = v

\* No wakeup is lost between the lock-free test of any_wake_, the creation of a
\* doorbell, other VMs that detach and clients that are bound and forgotten: a
\* host parked while a mailbox of its VM has work has been rung or is about to.
HostsReached ==
    \A v \in Vms : hosts[v] = "parked" /\ stage[v] = "attached" /\ HasWork(v)
        => v \in rung \/ Coming(v)

\* A host still parked when its VM is dropped from the hub was rung before, as
\* nothing can ring it afterwards.
DetachWakes ==
    \A v \in Vms : hosts[v] = "parked" /\ stage[v] \in {"rung", "detached"} => v \in rung

\* The hub's state is well-formed, no wakeup is lost on the way to the doorbell
\* of the right VM, and a host still parked when its VM leaves the hub was rung.
HubWakes == HubTypeOK /\ HostsReached /\ DetachWakes

\* Published work, a failure and a detach bring the parked host back.
Woken ==
    \A v \in Vms :
        hosts[v] = "parked" /\ (HasWork(v) \/ stage[v] # "attached")
          ~> hosts[v] # "parked" \/ (stage[v] = "attached" /\ ~HasWork(v))
=============================================================================
