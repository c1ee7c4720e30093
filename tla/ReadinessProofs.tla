-------------------------- MODULE ReadinessProofs --------------------------
(***************************************************************************)
(* Proofs about the wakeups of the hosts.  The doorbell loses none and     *)
(* implements a level-triggered event, whatever the number of producers,   *)
(* the capacity of the kernel object and the failures of the transport.    *)
(* The hub, which takes its doorbells for such events, loses none either,  *)
(* whatever the number of VMs, of their clients and of waiting updates.    *)
(***************************************************************************)
EXTENDS Doorbell, ReadinessHub, TLAPS

-----------------------------------------------------------------------------
(***************************************************************************)
(* The doorbell.                                                           *)
(***************************************************************************)

\* The fresh WakeTarget satisfies the inductive invariant: no flag, no work.
LEMMA InitInv == Init => Inv
<1> SUFFICES ASSUME Init PROVE Inv
  OBVIOUS
<1>1. asserted \in BOOLEAN /\ reliable \in BOOLEAN
  BY Zenon DEF Init
<1>2. TypeOK
  BY <1>1, RoomAssumption DEF Init, TypeOK
<1>3. ~asserted /\ work = 0
  BY DEF Init
<1> QED
  BY <1>2, <1>3 DEF Inv, FlagCovered, CheckedCovered

\* Publishing and the steps of ring(), its failure included, preserve the
\* inductive invariant.
LEMMA RingInv ==
    ASSUME Inv, NEW p \in Producers,
           Publish(p) \/ RingStep(p) \/ WriteFails(p)
    PROVE  Inv'
<1> USE RoomAssumption, MaxWorkNat DEF Inv, TypeOK, Signalled
<1>1. CASE Publish(p)
  <2>1. TypeOK'
    BY <1>1 DEF Publish
  <2>2. FlagCovered'
    BY <1>1 DEF Publish, FlagCovered
  <2>3. CheckedCovered'
    BY <1>1 DEF Publish, CheckedCovered
  <2> QED
    BY <2>1, <2>2, <2>3
\* A ring that finds the flag raised leaves: what covers the flag covers it.
<1>2. CASE Ring(p)
  <2>1. TypeOK'
    BY <1>2 DEF Ring
  <2>2. CASE asserted
    <3>1. \A q \in Producers : ringer[q] = "write" => ringer'[q] = "write"
      BY <1>2, <2>2 DEF Ring
    <3>2. FlagCovered'
      BY <1>2, <2>2, <3>1 DEF Ring, FlagCovered
    <3>3. CheckedCovered'
      BY <1>2, <2>2, <3>1 DEF Ring, FlagCovered, CheckedCovered
    <3> QED
      BY <2>1, <3>2, <3>3
  <2>3. CASE ~asserted
    <3>1. ringer'[p] = "write"
      BY <1>2, <2>3 DEF Ring
    <3> QED
      BY <1>2, <2>1, <3>1 DEF FlagCovered, CheckedCovered
  <2> QED
    BY <2>2, <2>3
<1>3. CASE Write(p)
  <2>1. kernel' > 0 /\ TypeOK'
    BY <1>3 DEF Write
  <2> QED
    BY <2>1 DEF FlagCovered, CheckedCovered
<1>4. CASE RingFailed(p)
  <2>1. TypeOK' /\ FlagCovered'
    BY <1>4 DEF RingFailed, FlagCovered
  <2>2. CheckedCovered'
    BY <1>4 DEF RingFailed, CheckedCovered
  <2> QED
    BY <2>1, <2>2
<1>5. CASE WriteFails(p)
  <2>1. TypeOK' /\ ~reliable'
    BY <1>5 DEF WriteFails
  <2> QED
    BY <2>1 DEF FlagCovered, CheckedCovered
<1> QED
  BY <1>1, <1>2, <1>3, <1>4, <1>5 DEF RingStep

\* The steps of the host, its clear() and the failures of it included,
\* preserve the inductive invariant.
LEMMA HostInv ==
    ASSUME Inv, HostStep \/ ReadFails \/ Timeout
    PROVE  Inv'
<1> USE RoomAssumption DEF Inv, TypeOK, FlagCovered, CheckedCovered, Signalled
<1>1. CASE Drain
  BY <1>1 DEF Drain
<1>2. CASE Store
  BY <1>2 DEF Store
<1>3. CASE ClearFailed
  BY <1>3 DEF ClearFailed
<1>4. CASE Consume
  BY <1>4 DEF Consume
<1>5. CASE See
  BY <1>5 DEF See
<1>6. CASE Park
  BY <1>6 DEF Park
<1>7. CASE Refused
  BY <1>7 DEF Refused
<1>8. CASE WakeUp
  BY <1>8 DEF WakeUp
<1>9. CASE ReadFails
  BY <1>9 DEF ReadFails
<1>10. CASE Timeout
  BY <1>10 DEF Timeout
<1> QED
  BY <1>1, <1>2, <1>3, <1>4, <1>5, <1>6, <1>7, <1>8, <1>9, <1>10 DEF HostStep

\* Every step of the doorbell, or none, preserves the inductive invariant.
LEMMA NextInv == Inv /\ [Next]_vars => Inv'
<1> SUFFICES ASSUME Inv, [Next]_vars PROVE Inv'
  OBVIOUS
<1>1. CASE UNCHANGED vars
  BY <1>1 DEF vars, Inv, TypeOK, FlagCovered, CheckedCovered, Signalled
<1>2. CASE Next
  BY <1>2, RingInv, HostInv DEF Next
<1> QED
  BY <1>1, <1>2

\* The inductive invariant holds in every reachable state of the doorbell.
THEOREM Invariance == Spec => []Inv
  BY InitInv, NextInv, PTL DEF Spec

\* The kernel object never holds more than it has room for, and ring() and
\* clear() stay within their program points.
THEOREM TypeCorrect == Spec => []TypeOK
<1>1. Inv => TypeOK
  BY DEF Inv
<1> QED
  BY <1>1, Invariance, PTL

\* A raised asserted_ always stands for a wakeup that will come or a clear()
\* that will lower it.
THEOREM FlagAlwaysCovered == Spec => []FlagCovered
<1>1. Inv => FlagCovered
  BY DEF Inv
<1> QED
  BY <1>1, Invariance, PTL

\* No host parks over work on a reliable doorbell without a wakeup coming.
THEOREM NoWakeupLost == Spec => []NoLostWakeup
<1>1. Inv => NoLostWakeup
  BY DEF Inv, CheckedCovered, NoLostWakeup
<1> QED
  BY <1>1, Invariance, PTL

\* Every step of the doorbell is a step of the level event, or a stutter.
LEMMA NextRefines ==
    Inv /\ Inv' /\ [Next]_vars => [Level!Next]_<<work, Asleep>>
<1> SUFFICES ASSUME Inv, Inv', [Next]_vars
             PROVE  [Level!Next]_<<work, Asleep>>
  OBVIOUS
<1> USE DEF Level!Next, Level!Produce, Level!Consume, Level!Sleep, Level!Wake
<1>0. Asleep \in BOOLEAN /\ Asleep' \in BOOLEAN
  BY DEF Asleep
\* A host asleep in the new state saw no work: the invariant's second part.
<1>1. ASSUME work' = work PROVE [Level!Next]_<<work, Asleep>>
  <2>1. Asleep' => work' = 0
    BY DEF Inv, TypeOK, CheckedCovered, Asleep
  <2> QED
    BY <1>0, <1>1, <2>1
<1>2. ASSUME NEW p \in Producers, Publish(p) PROVE Level!Produce
  <2>1. ringer'[p] = "published" /\ work' = work + 1
    BY <1>2 DEF Publish, Inv, TypeOK
  <2> QED
    BY <2>1 DEF Asleep, Signalled
<1>3. ASSUME Consume PROVE Level!Consume
  BY <1>3 DEF Consume, Asleep, Inv, TypeOK
<1>4. ASSUME NEW p \in Producers, RingStep(p) \/ WriteFails(p) PROVE work' = work
  BY <1>4 DEF RingStep, Ring, Write, RingFailed, WriteFails
<1>5. ASSUME (HostStep /\ ~Consume) \/ ReadFails \/ Timeout PROVE work' = work
  BY <1>5 DEF HostStep, Drain, Store, ClearFailed, See, Park, Refused, WakeUp,
              ReadFails, Timeout
<1>6. CASE UNCHANGED vars
  BY <1>1, <1>6 DEF vars
<1>7. CASE Next
  BY <1>1, <1>2, <1>3, <1>4, <1>5, <1>7 DEF Next, HostStep
<1> QED
  BY <1>6, <1>7

\* The doorbell is a level-triggered event: coalesced rings, spurious wakeups
\* and transport failures never let the host sleep over work.
THEOREM Refinement == Spec => IsLevelEvent
<1>1. Init => Level!Init
  BY DEF Init, Level!Init, Asleep
<1> QED
  BY <1>1, Invariance, NextRefines, PTL DEF Spec, IsLevelEvent, Level!Spec

-----------------------------------------------------------------------------
(***************************************************************************)
(* The hub.                                                                *)
(***************************************************************************)

\* The host of the VM is somewhere between its clearWake() and its wakeup.
HubAsleep(v) == hosts[v] \in {"scan", "wait", "parked"}

\* Publishers that load any_wake_ see each doorbell that they could ring, and a
\* VM has no doorbell before it attaches.
FlagCovers ==
    /\ \A v \in Vms : Rings(v) => any_wake
    /\ \A v \in Vms : stage[v] = "new" => wake[v] = "none"

\* Only a host with a doorbell clears it and sleeps on it, the mailboxes are read
\* while the owner is attached, and nothing clears the ring of a detach.
HostsPlaced ==
    \A v \in Vms :
        /\ HubAsleep(v) => wake[v] = "valid" /\ stage[v] # "new"
        /\ hosts[v] = "scan" => stage[v] = "attached"
        /\ hosts[v] # "scan" => unread[v] = {}
        /\ HubAsleep(v) /\ stage[v] \in {"rung", "detached"} => v \in rung

\* The runtime knows the clients of attached VMs only, and TDLib has sent nothing
\* to one that is not bound yet.
EntriesPlaced ==
    /\ \A c \in entries : stage[VmOf[c]] = "attached"
    /\ \A c \in entries \ bound : depth[c] = 0

\* The worker still has to ring the doorbell on behalf of the client.
ComingFor(c) ==
    /\ worker # Idle /\ (worker.at = "load" => any_wake)
    /\ failed \/ c \in worker.rings \cap bound

\* What HostsReached promises for the VM holds for each of its clients, as a ring
\* for one of them is lost when that one is unbound; and it holds from the moment
\* the host has read the client's mailbox.
Attended ==
    \A c \in entries \cup bound :
        LET v == VmOf[c]
        IN HubAsleep(v) /\ stage[v] = "attached" /\ c \notin unread[v]
             => v \in rung \/ ComingFor(c) \/ (depth[c] = 0 /\ ~failed)

HubInv == HubTypeOK /\ FlagCovers /\ HostsPlaced /\ EntriesPlaced /\ Attended

\* The empty hub satisfies the inductive invariant.
LEMMA HubInitInv == ASSUME HubInit PROVE HubInv
<1>1. HubTypeOK
  <2>1. worker \in [at : {"idle", "load", "lock"}, rings : SUBSET Clients]
    BY DEF HubInit, Idle
  <2>2. depth \in [Clients -> 0..MaxBacklog] /\ unread \in [Vms -> SUBSET Clients]
    BY HubAssumption DEF HubInit
  <2>3. /\ stage \in [Vms -> {"new", "attached", "orphaned", "ringing", "rung", "detached"}]
        /\ wake \in [Vms -> {"none", "invalid", "valid"}]
        /\ hosts \in [Vms -> {"run", "scan", "wait", "parked"}]
    BY DEF HubInit
  <2>4. /\ rung \subseteq Vms /\ any_wake \in BOOLEAN /\ failed \in BOOLEAN
        /\ entries \subseteq Clients /\ bound \subseteq Clients
    BY DEF HubInit
  <2> QED
    BY <2>1, <2>2, <2>3, <2>4 DEF HubTypeOK
<1>2. FlagCovers /\ HostsPlaced
  BY DEF HubInit, FlagCovers, HostsPlaced, HubAsleep, Rings, Held
<1>3. EntriesPlaced /\ Attended
  BY DEF HubInit, EntriesPlaced, Attended
<1> QED
  BY <1>1, <1>2, <1>3 DEF HubInv

\* The calls of the owner about its VM preserve the inductive invariant.
LEMMA OwnerInv ==
    ASSUME HubInv, NEW v \in Vms,
           Attach(v) \/ EnableWake(v) \/ Orphan(v)
    PROVE  HubInv'
<1> USE HubAssumption DEF HubInv, HubTypeOK
<1>1. CASE Attach(v)
  <2>1. HubTypeOK'
    BY <1>1 DEF Attach, Free, Calling, owners, At, Idle, Of
  <2>2. FlagCovers'
    BY <1>1 DEF Attach, FlagCovers, Rings, Held, Free, Calling, owners
  <2>3. HostsPlaced'
    BY <1>1
    DEF Attach, FlagCovers, HostsPlaced, HubAsleep, Rings, Held, Free, Calling, owners,
        At
  <2>4. EntriesPlaced'
    BY <1>1 DEF Attach, EntriesPlaced, Free, Calling, Halfway, owners, Of
  <2>5. Attended'
    BY <1>1
    DEF Attach, EntriesPlaced, HostsPlaced, FlagCovers, Rings, Held, Attended,
        ComingFor, HubAsleep, Free, Calling, Halfway, owners, At, Of, Idle
  <2> QED
    BY <2>1, <2>2, <2>3, <2>4, <2>5
<1>2. CASE EnableWake(v)
  <2>1. HubTypeOK'
    BY <1>2 DEF EnableWake, Free, Calling, owners, At, Idle, Of
  <2>2. FlagCovers'
    BY <1>2 DEF EnableWake, FlagCovers, Rings, Held, Free, Calling, owners
  <2>3. HostsPlaced'
    BY <1>2
    DEF EnableWake, FlagCovers, HostsPlaced, HubAsleep, Rings, Held, Free, Calling,
        owners, At
  <2>4. EntriesPlaced'
    BY <1>2 DEF EnableWake, EntriesPlaced, Free, Calling, Halfway, owners, Of
  <2>5. Attended'
    BY <1>2
    DEF EnableWake, EntriesPlaced, HostsPlaced, FlagCovers, Rings, Held, Attended,
        ComingFor, HubAsleep, Free, Calling, Halfway, owners, At, Of, Idle
  <2> QED
    BY <2>1, <2>2, <2>3, <2>4, <2>5
<1>3. CASE Orphan(v)
  <2>1. HubTypeOK'
    BY <1>3 DEF Orphan, Free, Calling, owners, At, Idle, Of
  <2>2. FlagCovers'
    BY <1>3 DEF Orphan, FlagCovers, Rings, Held, Free, Calling, owners
  <2>3. HostsPlaced'
    BY <1>3
    DEF Orphan, FlagCovers, HostsPlaced, HubAsleep, Rings, Held, Free, Calling, owners,
        At
  <2>4. EntriesPlaced'
    BY <1>3 DEF Orphan, EntriesPlaced, Free, Calling, Halfway, owners, Of
  <2>5. Attended'
    BY <1>3
    DEF Orphan, EntriesPlaced, HostsPlaced, FlagCovers, Rings, Held, Attended,
        ComingFor, HubAsleep, Free, Calling, Halfway, owners, At, Of, Idle
  <2> QED
    BY <2>1, <2>2, <2>3, <2>4, <2>5
<1> QED
  BY <1>1, <1>2, <1>3

\* So do its calls about one client.
LEMMA ClientInv ==
    ASSUME HubInv, NEW c \in Clients,
           \/ Create(c) \/ BindClient(c) \/ BindFails(c)
           \/ Forget(c) \/ UnbindClient(c) \/ Receive(c)
    PROVE  HubInv'
<1> USE HubAssumption DEF HubInv, HubTypeOK
<1>1. CASE Create(c)
  <2>1. HubTypeOK'
    BY <1>1 DEF Create, Free, Calling, owners, At, Idle, Of
  <2>2. FlagCovers'
    BY <1>1 DEF Create, FlagCovers, Rings, Held, Free, Calling, owners
  <2>3. HostsPlaced'
    BY <1>1
    DEF Create, FlagCovers, HostsPlaced, HubAsleep, Rings, Held, Free, Calling, owners,
        At
  <2>4. EntriesPlaced'
    BY <1>1 DEF Create, EntriesPlaced, Free, Calling, Halfway, owners, Of
  <2>5. Attended'
    BY <1>1
    DEF Create, EntriesPlaced, HostsPlaced, FlagCovers, Rings, Held, Attended,
        ComingFor, HubAsleep, Free, Calling, Halfway, owners, At, Of, Idle
  <2> QED
    BY <2>1, <2>2, <2>3, <2>4, <2>5
<1>2. CASE BindClient(c)
  <2>1. HubTypeOK'
    BY <1>2 DEF BindClient, Free, Calling, owners, At, Idle, Of
  <2>2. FlagCovers'
    BY <1>2 DEF BindClient, FlagCovers, Rings, Held, Free, Calling, owners
  <2>3. HostsPlaced'
    BY <1>2
    DEF BindClient, FlagCovers, HostsPlaced, HubAsleep, Rings, Held, Free, Calling,
        owners, At
  <2>4. EntriesPlaced'
    BY <1>2 DEF BindClient, EntriesPlaced, Free, Calling, Halfway, owners, Of
  <2>5. Attended'
    BY <1>2
    DEF BindClient, EntriesPlaced, HostsPlaced, FlagCovers, Rings, Held, Attended,
        ComingFor, HubAsleep, Free, Calling, Halfway, owners, At, Of, Idle
  <2> QED
    BY <2>1, <2>2, <2>3, <2>4, <2>5
<1>3. CASE BindFails(c)
  <2>1. HubTypeOK'
    BY <1>3 DEF BindFails, Free, Calling, owners, At, Idle, Of
  <2>2. FlagCovers'
    BY <1>3 DEF BindFails, FlagCovers, Rings, Held, Free, Calling, owners
  <2>3. HostsPlaced'
    BY <1>3
    DEF BindFails, FlagCovers, HostsPlaced, HubAsleep, Rings, Held, Free, Calling,
        owners, At
  <2>4. EntriesPlaced'
    BY <1>3 DEF BindFails, EntriesPlaced, Free, Calling, Halfway, owners, Of
  <2>5. Attended'
    BY <1>3
    DEF BindFails, EntriesPlaced, HostsPlaced, FlagCovers, Rings, Held, Attended,
        ComingFor, HubAsleep, Free, Calling, Halfway, owners, At, Of, Idle
  <2> QED
    BY <2>1, <2>2, <2>3, <2>4, <2>5
<1>4. CASE Forget(c)
  <2>1. HubTypeOK'
    BY <1>4 DEF Forget, Free, Calling, owners, At, Idle, Of
  <2>2. FlagCovers'
    BY <1>4 DEF Forget, FlagCovers, Rings, Held, Free, Calling, owners
  <2>3. HostsPlaced'
    BY <1>4
    DEF Forget, FlagCovers, HostsPlaced, HubAsleep, Rings, Held, Free, Calling, owners,
        At
  <2>4. EntriesPlaced'
    BY <1>4 DEF Forget, EntriesPlaced, Free, Calling, Halfway, owners, Of
  <2>5. Attended'
    BY <1>4
    DEF Forget, EntriesPlaced, HostsPlaced, FlagCovers, Rings, Held, Attended,
        ComingFor, HubAsleep, Free, Calling, Halfway, owners, At, Of, Idle
  <2> QED
    BY <2>1, <2>2, <2>3, <2>4, <2>5
<1>5. CASE UnbindClient(c)
  <2>1. HubTypeOK'
    BY <1>5 DEF UnbindClient, Free, Calling, owners, At, Idle, Of
  <2>2. FlagCovers'
    BY <1>5 DEF UnbindClient, FlagCovers, Rings, Held, Free, Calling, owners
  <2>3. HostsPlaced'
    BY <1>5
    DEF UnbindClient, FlagCovers, HostsPlaced, HubAsleep, Rings, Held, Free, Calling,
        owners, At
  <2>4. EntriesPlaced'
    BY <1>5 DEF UnbindClient, EntriesPlaced, Free, Calling, Halfway, owners, Of
  <2>5. Attended'
    BY <1>5
    DEF UnbindClient, EntriesPlaced, HostsPlaced, FlagCovers, Rings, Held, Attended,
        ComingFor, HubAsleep, Free, Calling, Halfway, owners, At, Of, Idle
  <2> QED
    BY <2>1, <2>2, <2>3, <2>4, <2>5
<1>6. CASE Receive(c)
  <2>1. HubTypeOK'
    BY <1>6 DEF Receive, Free, Calling, owners, At, Idle, Of
  <2>2. FlagCovers'
    BY <1>6 DEF Receive, FlagCovers, Rings, Held, Free, Calling, owners
  <2>3. HostsPlaced'
    BY <1>6
    DEF Receive, FlagCovers, HostsPlaced, HubAsleep, Rings, Held, Free, Calling, owners,
        At
  <2>4. EntriesPlaced'
    BY <1>6 DEF Receive, EntriesPlaced, Free, Calling, Halfway, owners, Of
  <2>5. Attended'
    BY <1>6
    DEF Receive, EntriesPlaced, HostsPlaced, FlagCovers, Rings, Held, Attended,
        ComingFor, HubAsleep, Free, Calling, Halfway, owners, At, Of, Idle
  <2> QED
    BY <2>1, <2>2, <2>3, <2>4, <2>5
<1> QED
  BY <1>1, <1>2, <1>3, <1>4, <1>5, <1>6

\* So do the steps of a detach.
LEMMA DetachInv ==
    ASSUME HubInv, NEW v \in Vms,
           LoadAnyWake(v) \/ RingOwner(v) \/ UnbindOwner(v)
    PROVE  HubInv'
<1> USE HubAssumption DEF HubInv, HubTypeOK
<1>1. CASE LoadAnyWake(v)
  <2>1. HubTypeOK'
    BY <1>1 DEF LoadAnyWake, Free, Calling, owners, At, Idle, Of
  <2>2. FlagCovers'
    BY <1>1 DEF LoadAnyWake, FlagCovers, Rings, Held, Free, Calling, owners
  <2>3. HostsPlaced'
    BY <1>1
    DEF LoadAnyWake, FlagCovers, HostsPlaced, HubAsleep, Rings, Held, Free, Calling,
        owners, At
  <2>4. EntriesPlaced'
    BY <1>1 DEF LoadAnyWake, EntriesPlaced, Free, Calling, Halfway, owners, Of
  <2>5. Attended'
    BY <1>1
    DEF LoadAnyWake, EntriesPlaced, HostsPlaced, FlagCovers, Rings, Held, Attended,
        ComingFor, HubAsleep, Free, Calling, Halfway, owners, At, Of, Idle
  <2> QED
    BY <2>1, <2>2, <2>3, <2>4, <2>5
<1>2. CASE RingOwner(v)
  <2>1. HubTypeOK'
    BY <1>2 DEF RingOwner, Free, Calling, owners, At, Idle, Of
  <2>2. FlagCovers'
    BY <1>2 DEF RingOwner, FlagCovers, Rings, Held, Free, Calling, owners
  <2>3. HostsPlaced'
    BY <1>2
    DEF RingOwner, FlagCovers, HostsPlaced, HubAsleep, Rings, Held, Free, Calling,
        owners, At
  <2>4. EntriesPlaced'
    BY <1>2 DEF RingOwner, EntriesPlaced, Free, Calling, Halfway, owners, Of
  <2>5. Attended'
    BY <1>2
    DEF RingOwner, EntriesPlaced, HostsPlaced, FlagCovers, Rings, Held, Attended,
        ComingFor, HubAsleep, Free, Calling, Halfway, owners, At, Of, Idle
  <2> QED
    BY <2>1, <2>2, <2>3, <2>4, <2>5
<1>3. CASE UnbindOwner(v)
  <2>1. HubTypeOK'
    BY <1>3 DEF UnbindOwner, Free, Calling, owners, At, Idle, Of
  <2>2. FlagCovers'
    BY <1>3 DEF UnbindOwner, FlagCovers, Rings, Held, Free, Calling, owners
  <2>3. HostsPlaced'
    BY <1>3
    DEF UnbindOwner, FlagCovers, HostsPlaced, HubAsleep, Rings, Held, Free, Calling,
        owners, At
  <2>4. EntriesPlaced'
    BY <1>3 DEF UnbindOwner, EntriesPlaced, Free, Calling, Halfway, owners, Of
  <2>5. Attended'
    BY <1>3
    DEF UnbindOwner, EntriesPlaced, HostsPlaced, FlagCovers, Rings, Held, Attended,
        ComingFor, HubAsleep, Free, Calling, Halfway, owners, At, Of, Idle
  <2> QED
    BY <2>1, <2>2, <2>3, <2>4, <2>5
<1> QED
  BY <1>1, <1>2, <1>3

\* So do the steps of the host.
LEMMA HostTurnsInv ==
    ASSUME HubInv, NEW v \in Vms,
           Clear(v) \/ ReadMailbox(v) \/ NothingSeen(v) \/ WaitOwner(v) \/ WakeHost(v)
    PROVE  HubInv'
<1> USE HubAssumption DEF HubInv, HubTypeOK
<1>1. CASE Clear(v)
  <2>1. HubTypeOK'
    BY <1>1 DEF Clear, Free, Calling, owners, At, Idle, Of
  <2>2. FlagCovers'
    BY <1>1 DEF Clear, FlagCovers, Rings, Held, Free, Calling, owners
  <2>3. HostsPlaced'
    BY <1>1
    DEF Clear, FlagCovers, HostsPlaced, HubAsleep, Rings, Held, Free, Calling, owners, At
  <2>4. EntriesPlaced'
    BY <1>1 DEF Clear, EntriesPlaced, Free, Calling, Halfway, owners, Of
  <2>5. Attended'
    BY <1>1
    DEF Clear, EntriesPlaced, HostsPlaced, FlagCovers, Rings, Held, Attended,
        ComingFor, HubAsleep, Free, Calling, Halfway, owners, At, Of, Idle
  <2> QED
    BY <2>1, <2>2, <2>3, <2>4, <2>5
<1>2. CASE ReadMailbox(v)
  <2>1. HubTypeOK'
    BY <1>2 DEF ReadMailbox, Free, Calling, owners, At, Idle, Of
  <2>2. FlagCovers'
    BY <1>2 DEF ReadMailbox, FlagCovers, Rings, Held, Free, Calling, owners
  <2>3. HostsPlaced'
    BY <1>2
    DEF ReadMailbox, FlagCovers, HostsPlaced, HubAsleep, Rings, Held, Free, Calling,
        owners, At
  <2>4. EntriesPlaced'
    BY <1>2 DEF ReadMailbox, EntriesPlaced, Free, Calling, Halfway, owners, Of
  <2>5. Attended'
    BY <1>2
    DEF ReadMailbox, EntriesPlaced, HostsPlaced, FlagCovers, Rings, Held, Attended,
        ComingFor, HubAsleep, Free, Calling, Halfway, owners, At, Of, Idle
  <2> QED
    BY <2>1, <2>2, <2>3, <2>4, <2>5
<1>3. CASE NothingSeen(v)
  <2>1. HubTypeOK'
    BY <1>3 DEF NothingSeen, Free, Calling, owners, At, Idle, Of
  <2>2. FlagCovers'
    BY <1>3 DEF NothingSeen, FlagCovers, Rings, Held, Free, Calling, owners
  <2>3. HostsPlaced'
    BY <1>3
    DEF NothingSeen, FlagCovers, HostsPlaced, HubAsleep, Rings, Held, Free, Calling,
        owners, At
  <2>4. EntriesPlaced'
    BY <1>3 DEF NothingSeen, EntriesPlaced, Free, Calling, Halfway, owners, Of
  <2>5. Attended'
    BY <1>3
    DEF NothingSeen, EntriesPlaced, HostsPlaced, FlagCovers, Rings, Held, Attended,
        ComingFor, HubAsleep, Free, Calling, Halfway, owners, At, Of, Idle
  <2> QED
    BY <2>1, <2>2, <2>3, <2>4, <2>5
<1>4. CASE WaitOwner(v)
  <2>1. HubTypeOK'
    BY <1>4 DEF WaitOwner, Free, Calling, owners, At, Idle, Of
  <2>2. FlagCovers'
    BY <1>4 DEF WaitOwner, FlagCovers, Rings, Held, Free, Calling, owners
  <2>3. HostsPlaced'
    BY <1>4
    DEF WaitOwner, FlagCovers, HostsPlaced, HubAsleep, Rings, Held, Free, Calling,
        owners, At
  <2>4. EntriesPlaced'
    BY <1>4 DEF WaitOwner, EntriesPlaced, Free, Calling, Halfway, owners, Of
  <2>5. Attended'
    BY <1>4
    DEF WaitOwner, EntriesPlaced, HostsPlaced, FlagCovers, Rings, Held, Attended,
        ComingFor, HubAsleep, Free, Calling, Halfway, owners, At, Of, Idle
  <2> QED
    BY <2>1, <2>2, <2>3, <2>4, <2>5
<1>5. CASE WakeHost(v)
  <2>1. HubTypeOK'
    BY <1>5 DEF WakeHost, Free, Calling, owners, At, Idle, Of
  <2>2. FlagCovers'
    BY <1>5 DEF WakeHost, FlagCovers, Rings, Held, Free, Calling, owners
  <2>3. HostsPlaced'
    BY <1>5
    DEF WakeHost, FlagCovers, HostsPlaced, HubAsleep, Rings, Held, Free, Calling, owners,
        At
  <2>4. EntriesPlaced'
    BY <1>5 DEF WakeHost, EntriesPlaced, Free, Calling, Halfway, owners, Of
  <2>5. Attended'
    BY <1>5
    DEF WakeHost, EntriesPlaced, HostsPlaced, FlagCovers, Rings, Held, Attended,
        ComingFor, HubAsleep, Free, Calling, Halfway, owners, At, Of, Idle
  <2> QED
    BY <2>1, <2>2, <2>3, <2>4, <2>5
<1> QED
  BY <1>1, <1>2, <1>3, <1>4, <1>5

\* So does a publication.
LEMMA PublishInv ==
    ASSUME HubInv, NEW c \in Clients, PublishTo(c)
    PROVE  HubInv'
<1> USE HubAssumption DEF HubInv, HubTypeOK
<1>1. CASE PublishTo(c)
  <2>1. HubTypeOK'
    <3>1. MaxBacklog \in Nat
      BY HubAssumption
    <3>2. depth' \in [Clients -> 0..MaxBacklog]
      BY <1>1, <3>1 DEF PublishTo
    <3>3. worker' \in [at : {"idle", "load", "lock"}, rings : SUBSET Clients]
      BY <1>1 DEF PublishTo
    <3>4. UNCHANGED <<owners, rung, any_wake, failed, hosts, unread>>
      BY <1>1 DEF PublishTo
    <3> QED
      BY <3>2, <3>3, <3>4 DEF owners
  <2>2. FlagCovers'
    BY <1>1 DEF PublishTo, FlagCovers, Rings, Held, Free, Calling, owners
  <2>3. HostsPlaced'
    BY <1>1
    DEF PublishTo, FlagCovers, HostsPlaced, HubAsleep, Rings, Held, Free, Calling, owners,
        At
  <2>4. EntriesPlaced'
    BY <1>1 DEF PublishTo, EntriesPlaced, Free, Calling, Halfway, owners, Of
  <2>5. Attended'
    <3>1. /\ worker = Idle /\ c \in entries \cap bound
          /\ worker' = [at |-> "load", rings |-> {c}]
          /\ UNCHANGED <<stage, wake, entries, bound, rung, any_wake, failed, hosts, unread>>
      BY <1>1 DEF PublishTo, owners
    <3>2. \A e \in Clients \ {c} : depth'[e] = depth[e]
      BY <1>1 DEF PublishTo
    <3>3. ~ComingFor(c) /\ \A e \in Clients : ~ComingFor(e)
      BY <3>1 DEF ComingFor
    <3>4. worker' # Idle /\ worker'.at = "load" /\ c \in worker'.rings \cap bound'
      BY <3>1 DEF Idle
    <3>5. ASSUME NEW e \in entries' \cup bound', HubAsleep(VmOf[e])',
                 stage'[VmOf[e]] = "attached", e \notin unread'[VmOf[e]]
          PROVE  VmOf[e] \in rung' \/ ComingFor(e)' \/ (depth'[e] = 0 /\ ~failed')
      <4>1. VmOf[e] \in Vms /\ HubAsleep(VmOf[e])
        BY <3>1, <3>5 DEF HubAsleep
      <4>2. any_wake
        BY <3>1, <3>5, <4>1 DEF FlagCovers, HostsPlaced, Rings, Held
      <4>3. CASE e = c
        BY <3>1, <3>4, <4>2, <4>3 DEF ComingFor
      <4>4. CASE e # c
        BY <3>1, <3>2, <3>3, <3>5, <4>1, <4>4 DEF Attended
      <4> QED
        BY <4>3, <4>4
    <3> QED
      BY <3>5 DEF Attended
  <2> QED
    BY <2>1, <2>2, <2>3, <2>4, <2>5
<1> QED
  BY <1>1

\* So do the other steps of the worker.
LEMMA WorkerInv ==
    ASSUME HubInv, 
           Fail \/ Load \/ RingClient
    PROVE  HubInv'
<1> USE HubAssumption DEF HubInv, HubTypeOK
<1>1. CASE Fail
  <2>1. HubTypeOK'
    BY <1>1 DEF Fail, Free, Calling, owners, At, Idle, Of
  <2>2. FlagCovers'
    BY <1>1 DEF Fail, FlagCovers, Rings, Held, Free, Calling, owners
  <2>3. HostsPlaced'
    BY <1>1
    DEF Fail, FlagCovers, HostsPlaced, HubAsleep, Rings, Held, Free, Calling, owners, At
  <2>4. EntriesPlaced'
    BY <1>1 DEF Fail, EntriesPlaced, Free, Calling, Halfway, owners, Of
  <2>5. Attended'
    BY <1>1
    DEF Fail, EntriesPlaced, HostsPlaced, FlagCovers, Rings, Held, Attended,
        ComingFor, HubAsleep, Free, Calling, Halfway, owners, At, Of, Idle
  <2> QED
    BY <2>1, <2>2, <2>3, <2>4, <2>5
<1>2. CASE Load
  <2>1. HubTypeOK'
    BY <1>2 DEF Load, Free, Calling, owners, At, Idle, Of
  <2>2. FlagCovers'
    BY <1>2 DEF Load, FlagCovers, Rings, Held, Free, Calling, owners
  <2>3. HostsPlaced'
    BY <1>2
    DEF Load, FlagCovers, HostsPlaced, HubAsleep, Rings, Held, Free, Calling, owners, At
  <2>4. EntriesPlaced'
    BY <1>2 DEF Load, EntriesPlaced, Free, Calling, Halfway, owners, Of
  <2>5. Attended'
    BY <1>2
    DEF Load, EntriesPlaced, HostsPlaced, FlagCovers, Rings, Held, Attended,
        ComingFor, HubAsleep, Free, Calling, Halfway, owners, At, Of, Idle
  <2> QED
    BY <2>1, <2>2, <2>3, <2>4, <2>5
<1>3. CASE RingClient
  <2>1. HubTypeOK'
    BY <1>3 DEF RingClient, Free, Calling, owners, At, Idle, Of
  <2>2. FlagCovers'
    BY <1>3 DEF RingClient, FlagCovers, Rings, Held, Free, Calling, owners
  <2>3. HostsPlaced'
    BY <1>3
    DEF RingClient, FlagCovers, HostsPlaced, HubAsleep, Rings, Held, Free, Calling, owners, At
  <2>4. EntriesPlaced'
    BY <1>3 DEF RingClient, EntriesPlaced, Free, Calling, Halfway, owners, Of
  <2>5. Attended'
    BY <1>3
    DEF RingClient, EntriesPlaced, HostsPlaced, FlagCovers, Rings, Held, Attended,
        ComingFor, HubAsleep, Free, Calling, Halfway, owners, At, Of, Idle
  <2> QED
    BY <2>1, <2>2, <2>3, <2>4, <2>5
<1> QED
  BY <1>1, <1>2, <1>3

\* Every step of the hub, or none, preserves the inductive invariant.
LEMMA HubNextInv == ASSUME HubInv, [HubNext]_hubVars PROVE HubInv'
<1>1. CASE UNCHANGED hubVars
  BY <1>1
  DEF hubVars, owners, HubInv, HubTypeOK, FlagCovers, HostsPlaced, EntriesPlaced, Attended,
      Rings, Held, HubAsleep, ComingFor
<1>2. CASE HubNext
  BY <1>2, OwnerInv, ClientInv, DetachInv, HostTurnsInv, PublishInv, WorkerInv
  DEF HubNext, OwnerStep, DetachStep, HostTurns, WorkerStep
<1> QED
  BY <1>1, <1>2

\* The inductive invariant says what the hub promises.
LEMMA HubInvImplies == ASSUME HubInv PROVE HubWakes
<1> USE HubAssumption DEF HubInv
<1>1. HubTypeOK
  OBVIOUS
<1>2. HostsReached
  BY DEF HubTypeOK, HostsReached, HostsPlaced, Attended, ComingFor, Coming, HasWork, Of,
         HubAsleep
<1>3. DetachWakes
  BY DEF DetachWakes, HostsPlaced, HubAsleep
<1> QED
  BY <1>1, <1>2, <1>3 DEF HubWakes

\* The inductive invariant holds in every reachable state of the hub.
THEOREM HubInvariance == HubSpec => []HubInv
<1>1. HubInit => HubInv
  BY HubInitInv
<1>2. HubInv /\ [HubNext]_hubVars => HubInv'
  BY HubNextInv
<1> QED
  BY <1>1, <1>2, PTL DEF HubSpec

\* A host that is parked while a mailbox of its VM has work has been rung, or the
\* worker is about to ring it; and so has one whose VM leaves the hub.
THEOREM WakesReachHosts == HubSpec => []HubWakes
<1>1. HubInv => HubWakes
  BY HubInvImplies
<1> QED
  BY <1>1, HubInvariance, PTL
=============================================================================
