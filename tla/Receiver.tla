------------------------------ MODULE Receiver ------------------------------
(***************************************************************************)
(* The receiver runtime of include/tdlua/common/receiver.h: the registry   *)
(* of clients, the demand that keeps the single TDLib reader working, the  *)
(* generations of its worker thread, and the mailboxes, shared by          *)
(*   - one thread per Lua VM (an owner), which creates clients, sends,     *)
(*     receives, watches, forgets and detaches;                            *)
(*   - the worker thread of the current generation.                        *)
(*                                                                         *)
(* A step is one critical section of the runtime's mutex or of a mailbox,  *)
(* or one call made without a lock (td_send, Source::receive, join).  Both *)
(* condition variables are explicit: a waiter that found its predicate     *)
(* false is parked and moves again only after a notify_all (or, where the  *)
(* code passes a deadline, a timeout), so a missing notification shows.    *)
(*                                                                         *)
(* Which unsolicited updates are kept beyond those a driver or a close     *)
(* demands is the subject of module Retention, and the capacity of the     *)
(* generic buffer that of GenericBuffer: here either may happen.           *)
(***************************************************************************)
EXTENDS Integers, Sequences, FiniteSets

CONSTANTS
    Owners,      \* Lua VMs, each with one thread
    Clients,     \* TDLib identities the allocator can hand out, the order of entries_
    None,        \* neither an owner nor a client
    Sends,       \* bound: the requests sent to each client, one of each kind
    MaxGen,      \* bound: worker generations
    MaxUpdates,  \* bound: unsolicited updates TDLib sends per client
    MayFail,     \* whether the source or the routing of an item may throw
    MayThrow     \* whether td_send may throw

ASSUME ClientsAssumption == Clients \subseteq Nat
ASSUME NoneAssumption == None \notin Owners \cup Clients
ASSUME WorkerAssumption == "worker" \notin Owners  \* its name among the parked
ASSUME SendsAssumption == Sends \subseteq {"raw", "managed", "close"}
ASSUME MaxGenNat == MaxGen \in Nat
ASSUME MaxUpdatesNat == MaxUpdates \in Nat
ASSUME FlagsBoolean == {MayFail, MayThrow} \subseteq BOOLEAN

VARIABLES
    entry,    \* entries_ and known_ids_: one record per identity
    box,      \* each client's Mailbox
    owners,   \* owners_
    state,    \* state_
    stop,     \* stop_
    joining,  \* joining_
    gen,      \* stats_.generation
    joinable, \* worker_.joinable()
    worker,   \* the thread of each generation
    parked,   \* threads waiting on changed_: owners, and "worker"
    thread,   \* where each owner's thread is, and the driver lease it holds
    watch,    \* each client's WatchLease: the object, and its token
    td        \* external: TDLib, and the terminal bit of the ledger

vars == <<entry, box, owners, state, stop, joining, gen, joinable, worker,
          parked, thread, watch, td>>

-----------------------------------------------------------------------------
(***************************************************************************)
(* The registry.                                                           *)
(***************************************************************************)
Entry == [st : {"unknown", "live", "erased"}, owner : Owners \cup {None},
          orphan : BOOLEAN, terminal : BOOLEAN, active_drivers : Nat,
          lifecycle_demands : Nat, watch_demands : Nat,
          one_shot_pending : BOOLEAN, one_shot_in_flight : BOOLEAN,
          pending_requests : SUBSET {"managed", "close"}]

Fresh(st, o) ==
    [st |-> st, owner |-> o, orphan |-> FALSE, terminal |-> FALSE,
     active_drivers |-> 0, lifecycle_demands |-> 0, watch_demands |-> 0,
     one_shot_pending |-> FALSE, one_shot_in_flight |-> FALSE,
     pending_requests |-> {}]

Live(c) == entry[c].st = "live"

\* demandCountLocked() # 0 for one entry.
Demanded(e) ==
    \/ e.active_drivers # 0 \/ e.lifecycle_demands # 0 \/ e.watch_demands # 0
    \/ e.one_shot_pending \/ e.one_shot_in_flight \/ e.pending_requests # {}

Demand == \E c \in Clients : Live(c) /\ Demanded(entry[c])

\* A counter is decremented only when it is not zero.
Dec(n) == IF n # 0 THEN n - 1 ELSE n

\* clearDriverDemandLocked() and clearDemandLocked(): their part of the entry.
ClearDriver(e) ==
    [e EXCEPT !.active_drivers = 0, !.watch_demands = 0,
              !.one_shot_pending = FALSE, !.one_shot_in_flight = FALSE]

ClearDemand_KeepsLifecycle(e) == [ClearDriver(e) EXCEPT !.pending_requests = {}]

ClearDemand(e) ==
    [ClearDriver(e) EXCEPT !.lifecycle_demands = 0, !.pending_requests = {}]

\* An orphan is dropped from the registry as soon as it is terminal.
Settled(e) == IF e.orphan /\ e.terminal THEN Fresh("erased", e.owner) ELSE e

\* Their part of driver_tokens_ and watch_tokens_: the tokens of the clients in
\* cs are erased, so the leases that still hold them become inert.
DropWatch(cs) ==
    watch' = [c \in Clients |-> IF c \in cs THEN [watch[c] EXCEPT !.token = FALSE]
                                ELSE watch[c]]

DropLease(t, cs) == IF t.client \in cs THEN [t EXCEPT !.token = FALSE] ELSE t

-----------------------------------------------------------------------------
(***************************************************************************)
(* Mailboxes.  Every change of one notifies its condition variable.        *)
(***************************************************************************)
Kinds == {"update", "response", "terminal"}

Box == [queue : Seq(Kinds), failed : BOOLEAN, terminal : BOOLEAN, orphan : BOOLEAN]

NewBox == [queue |-> <<>>, failed |-> FALSE, terminal |-> FALSE, orphan |-> FALSE]

Publish(b, kind) == IF b.orphan THEN b ELSE [b EXCEPT !.queue = Append(@, kind)]

Abandon(b) == [b EXCEPT !.orphan = TRUE, !.queue = <<>>]

\* popLocked() would return something other than Timeout.
Readable(b) == b.queue # <<>> \/ b.failed \/ b.terminal \/ b.orphan

Woken_Never(t, cs) == t

\* The thread asleep in popUntil() on a box of cs is woken.
Woken(t, cs) == IF t.pc = "sleep" /\ t.client \in cs THEN [t EXCEPT !.pc = "receive"] ELSE t

-----------------------------------------------------------------------------
OwnerPc == {"new", "idle", "gone", "reap", "join", "poll", "receive", "sleep",
            "release", "send", "forget"}

WorkerPc == {"none", "loop", "receiving", "publish", "commit", "published",
             "after", "failing", "cleanup", "exited"}

NoItem == [client |-> None, kind |-> "update", request |-> "none"]

Item == [client : Clients \cup {None}, kind : Kinds,
         request : {"none", "raw", "managed", "close"}]

Generation == [pc : WorkerPc, shot : Clients \cup {None}, item : Item]

Thread == [pc : OwnerPc, client : Clients \cup {None}, token : BOOLEAN, sent : BOOLEAN,
           call : {"none", "attach", "detach", "raw", "managed", "close"}]

Watch == [lease : BOOLEAN, token : BOOLEAN]

Tdlib == [used : SUBSET {"raw", "managed", "close"}, open : SUBSET {"raw", "managed", "close"},
          updates : 0..MaxUpdates, materialized : BOOLEAN, ended : BOOLEAN]

TypeOK ==
    /\ entry \in [Clients -> Entry] /\ box \in [Clients -> Box]
    /\ owners \subseteq Owners
    /\ state \in {"Stopped", "Running", "Stopping", "Failed"}
    /\ stop \in BOOLEAN /\ joining \in BOOLEAN /\ joinable \in BOOLEAN
    /\ gen \in 0..MaxGen
    /\ worker \in [1..MaxGen -> Generation]
    /\ parked \subseteq Owners \cup {"worker"}
    /\ thread \in [Owners -> Thread]
    /\ watch \in [Clients -> Watch]
    /\ td \in [Clients -> Tdlib]

Ready(pc) == [pc |-> pc, client |-> None, token |-> FALSE, call |-> "none",
              sent |-> FALSE]

Init ==
    /\ entry = [c \in Clients |-> Fresh("unknown", None)]
    /\ box = [c \in Clients |-> NewBox]
    /\ owners = {}
    /\ state = "Stopped"
    /\ stop = FALSE /\ joining = FALSE /\ joinable = FALSE
    /\ gen = 0
    /\ worker = [g \in 1..MaxGen |-> [pc |-> "none", shot |-> None, item |-> NoItem]]
    /\ parked = {}
    /\ thread = [o \in Owners |-> Ready("new")]
    /\ watch = [c \in Clients |-> [lease |-> FALSE, token |-> FALSE]]
    /\ td = [c \in Clients |-> [used |-> {}, open |-> {}, updates |-> MaxUpdates,
                                materialized |-> FALSE, ended |-> FALSE]]

\* The state of the worker's generations, but for the threads themselves.
life == <<state, stop, gen, joinable>>

Failed == state = "Failed"

Idle(o) == thread[o].pc = "idle"

\* The thread of o is free and c is a client it still holds.
Holds(o, c) == Idle(o) /\ Live(c) /\ entry[c].owner = o /\ ~entry[c].orphan

Notify == parked' = {}

-----------------------------------------------------------------------------
(***************************************************************************)
(* reapLocked(), entered with state_ = s.  It waits while another thread   *)
(* joins, joins the finished generation itself, or returns at once; `rest' *)
(* are the threads parked on changed_ by now.                              *)
(***************************************************************************)
ReapWaits(o, call, rest) ==
    /\ joining
    /\ parked' = rest \cup {o}
    /\ thread' = [thread EXCEPT ![o].pc = "reap", ![o].call = call]
    /\ UNCHANGED joining

ReapJoins(o, s, call, rest) ==
    /\ ~joining /\ s \in {"Stopping", "Failed"} /\ joinable
    /\ joining' = TRUE
    /\ parked' = rest
    /\ thread' = [thread EXCEPT ![o].pc = "join", ![o].call = call]

ReapPasses(s) == ~joining /\ ~(s \in {"Stopping", "Failed"} /\ joinable)

\* What attachOwner() or detachOwner() does, still under the lock, once
\* reapLocked() has returned and left state_ = s.
Return(o, s) ==
    LET attached == thread[o].call = "attach" /\ s # "Failed" IN
    /\ owners' = IF attached THEN owners \cup {o} ELSE owners
    /\ thread' = [thread EXCEPT ![o] = Ready(IF attached THEN "idle"
                                             ELSE IF thread[o].call = "attach" THEN "new"
                                             ELSE "gone")]

\* A parked coordinator was notified: it evaluates its predicate again.
ReapResume(o) ==
    /\ thread[o].pc = "reap" /\ o \notin parked
    /\ \/ /\ \/ ReapWaits(o, thread[o].call, parked)
             \/ ReapJoins(o, state, thread[o].call, parked)
          /\ UNCHANGED owners
       \/ ReapPasses(state) /\ Return(o, state) /\ UNCHANGED <<parked, joining>>
    /\ UNCHANGED <<entry, box, life, worker, watch, td>>

ReapJoined_Detaches(o) ==
    /\ thread[o].pc = "join"
    /\ joining' = FALSE /\ joinable' = FALSE
    /\ state' = IF Failed THEN "Failed" ELSE "Stopped"
    /\ Notify
    /\ Return(o, state')
    /\ UNCHANGED <<entry, box, stop, gen, worker, watch, td>>

ReapJoined_Silent(o) ==
    /\ thread[o].pc = "join"
    /\ worker[gen].pc = "exited"
    /\ joining' = FALSE /\ joinable' = FALSE
    /\ state' = IF Failed THEN "Failed" ELSE "Stopped"
    /\ Return(o, state')
    /\ UNCHANGED <<entry, box, stop, gen, worker, parked, watch, td>>

\* worker_.join() returned.
ReapJoined(o) ==
    LET s == IF Failed THEN "Failed" ELSE "Stopped" IN
    /\ thread[o].pc = "join"
    /\ worker[gen].pc = "exited"
    /\ joining' = FALSE /\ joinable' = FALSE
    /\ state' = s
    /\ Notify
    /\ Return(o, s)
    /\ UNCHANGED <<entry, box, stop, gen, worker, watch, td>>

-----------------------------------------------------------------------------
(***************************************************************************)
(* Owners: attachOwner, createClient, forget, detachOwner.                 *)
(***************************************************************************)
AttachOwner_NoReap(o) ==
    /\ thread[o].pc = "new" /\ ~Failed
    /\ owners' = owners \cup {o}
    /\ thread' = [thread EXCEPT ![o] = Ready("idle")]
    /\ UNCHANGED <<entry, box, life, joining, worker, parked, watch, td>>

AttachOwner(o) ==
    /\ thread[o].pc = "new" /\ ~Failed
    /\ \/ ReapWaits(o, "attach", parked) /\ UNCHANGED owners
       \/ ReapJoins(o, state, "attach", parked) /\ UNCHANGED owners
       \/ /\ ReapPasses(state)
          /\ owners' = owners \cup {o}
          /\ thread' = [thread EXCEPT ![o] = Ready("idle")]
          /\ UNCHANGED <<parked, joining>>
    /\ UNCHANGED <<entry, box, life, worker, watch, td>>

CreateClient_Unchecked(o, c) ==
    /\ Idle(o) /\ entry[c].st = "unknown"
    /\ ReapPasses(state) /\ o \in owners
    /\ entry' = [entry EXCEPT ![c] = Fresh("live", o)]
    /\ UNCHANGED <<box, owners, life, joining, worker, parked, thread, watch, td>>

\* While an owner is attached no generation waits to be joined
\* (JoinOnlyUnowned), so reapLocked() returns at once here and in forget().
CreateClient(o, c) ==
    /\ Idle(o) /\ ~Failed /\ entry[c].st = "unknown"
    /\ ReapPasses(state) /\ o \in owners
    /\ entry' = [entry EXCEPT ![c] = Fresh("live", o)]
    /\ UNCHANGED <<box, owners, life, joining, worker, parked, thread, watch, td>>

Forgotten(c) ==
    LET cleared == IF entry[c].terminal THEN ClearDemand(entry[c])
                   ELSE ClearDriver(entry[c])
    IN
    /\ (Failed /\ owners # {}) \/ ReapPasses(state)
    /\ entry' = [entry EXCEPT ![c] = Settled([cleared EXCEPT !.orphan = TRUE])]
    /\ box' = [box EXCEPT ![c] = Abandon(@)]
    /\ DropWatch({c})
    /\ Notify
    /\ UNCHANGED <<owners, life, joining, worker, td>>

Forget(o, c) ==
    /\ Holds(o, c)
    /\ Forgotten(c)
    /\ UNCHANGED thread

\* detachOwner(): what becomes of an entry of the detached owner.
Detached(e, keep) ==
    LET gone == [e EXCEPT !.orphan = TRUE] IN
    Settled(IF keep THEN [ClearDriver(gone) EXCEPT !.pending_requests = {}]
            ELSE ClearDemand(gone))

LastOwner(o) == owners = {o}

DetachOwner(o) ==
    LET mine == {c \in Clients : Live(c) /\ entry[c].owner = o /\ ~entry[c].orphan}
        last == LastOwner(o)
        s == IF last /\ state = "Running" THEN "Stopping" ELSE state
        rest == IF last \/ mine # {} THEN {} ELSE parked
    IN
    /\ Idle(o) /\ o \in owners
    /\ owners' = owners \ {o}
    /\ entry' = [c \in Clients |->
                   LET e == IF c \in mine THEN Detached(entry[c], ~last /\ ~Failed)
                            ELSE entry[c]
                   IN  IF last THEN [e EXCEPT !.watch_demands = 0] ELSE e]
    /\ box' = [c \in Clients |-> IF c \in mine THEN Abandon(box[c]) ELSE box[c]]
    /\ DropWatch(IF last THEN Clients ELSE mine)
    /\ stop' = (stop \/ last)
    /\ state' = s
    /\ \/ ReapWaits(o, "detach", rest)
       \/ ReapJoins(o, s, "detach", rest)
       \/ /\ ReapPasses(s)
          /\ parked' = rest
          /\ thread' = [thread EXCEPT ![o] = Ready("gone")]
          /\ UNCHANGED joining
    /\ UNCHANGED <<gen, joinable, worker, td>>

-----------------------------------------------------------------------------
(***************************************************************************)
(* Demand.  startLocked() throws in the Failed state and while an earlier  *)
(* generation is not joined; the call then changes nothing.                *)
(***************************************************************************)
StartLocked ==
    /\ ~Failed
    /\ IF state = "Running" THEN UNCHANGED <<life, worker>>
       ELSE /\ ~joinable /\ ~joining
            /\ gen < MaxGen
            /\ gen' = gen + 1
            /\ joinable' = TRUE
            /\ worker' = [worker EXCEPT ![gen + 1].pc = "loop"]
            /\ state' = "Running"
            /\ stop' = FALSE

\* The demand of a managed request or a close; a raw send is not a demand.
Admitted(e, kind) ==
    [e EXCEPT !.pending_requests = IF kind = "raw" THEN @ ELSE @ \cup {kind},
              !.lifecycle_demands = IF kind = "close" THEN @ + 1 ELSE @]

Unsent(e, kind) ==
    [e EXCEPT !.pending_requests = @ \ {kind},
              !.lifecycle_demands = IF kind = "close" THEN Dec(@) ELSE @]

\* Runtime::admitSend, after the ledger accepted the send: it refuses one to a
\* client whose terminal update was observed.
AdmitSend(o, c, kind) ==
    /\ Holds(o, c) /\ ~Failed
    /\ ~td[c].ended /\ kind \notin td[c].used
    /\ IF kind = "raw" THEN UNCHANGED <<life, worker>> ELSE StartLocked
    /\ entry' = [entry EXCEPT ![c] = Admitted(@, kind)]
    /\ Notify
    /\ thread' = [thread EXCEPT ![o] = [Ready("send") EXCEPT !.client = c, !.call = kind]]
    /\ td' = [td EXCEPT ![c].used = @ \cup {kind}]
    /\ UNCHANGED <<box, owners, joining, watch>>

\* External: td_send takes effect.
TdSend(o) ==
    LET c == thread[o].client IN
    /\ thread[o].pc = "send" /\ ~thread[o].sent
    /\ thread' = [thread EXCEPT ![o].sent = TRUE]
    /\ td' = [td EXCEPT ![c] = [td[c] EXCEPT
                !.materialized = TRUE,
                !.open = IF td[c].ended THEN td[c].open ELSE td[c].open \cup {thread[o].call}]]
    /\ UNCHANGED <<entry, box, owners, life, joining, worker, parked, watch>>

EndSend(o, sent) ==
    LET c == thread[o].client
        undo == ~sent /\ Live(c)
    IN
    /\ thread[o].pc = "send"
    /\ sent => thread[o].sent
    /\ sent \/ MayThrow
    /\ entry' = IF ~undo THEN entry
                ELSE [entry EXCEPT ![c] = Unsent(@, thread[o].call)]
    /\ parked' = IF undo THEN {} ELSE parked
    /\ thread' = [thread EXCEPT ![o] = Ready("idle")]
    /\ UNCHANGED <<box, owners, life, joining, worker, watch, td>>

\* receive(0): tryPop(), then requestOneShot() when there was nothing to take.
TryPop(o, c) ==
    /\ Holds(o, c)
    /\ IF Readable(box[c])
       THEN /\ box[c].queue # <<>>
            /\ box' = [box EXCEPT ![c].queue = Tail(@)]
            /\ UNCHANGED thread
       ELSE /\ thread' = [thread EXCEPT ![o] = [Ready("poll") EXCEPT !.client = c]]
            /\ UNCHANGED box
    /\ UNCHANGED <<entry, owners, life, joining, worker, parked, watch, td>>

RequestOneShot_Silent(o) ==
    LET c == thread[o].client IN
    /\ thread[o].pc = "poll"
    /\ ~entry[c].terminal /\ StartLocked
    /\ entry' = [entry EXCEPT ![c].one_shot_pending = TRUE]
    /\ thread' = [thread EXCEPT ![o] = Ready("idle")]
    /\ UNCHANGED <<box, owners, joining, parked, watch, td>>

RequestOneShot(o) ==
    LET c == thread[o].client IN
    /\ thread[o].pc = "poll"
    /\ IF entry[c].terminal \/ Failed
       THEN UNCHANGED <<entry, life, worker, parked>>
       ELSE /\ StartLocked
            /\ entry' = [entry EXCEPT ![c].one_shot_pending = TRUE]
            /\ Notify
    /\ thread' = [thread EXCEPT ![o] = Ready("idle")]
    /\ UNCHANGED <<box, owners, joining, watch, td>>

\* receive(timeout): a driver lease around popUntil().
AcquireDriver(o, c) ==
    /\ Holds(o, c)
    /\ IF entry[c].terminal
       THEN UNCHANGED <<entry, life, worker, parked>>
       ELSE /\ StartLocked
            /\ entry' = [entry EXCEPT ![c].active_drivers = @ + 1]
            /\ Notify
    /\ thread' = [thread EXCEPT ![o] = [Ready("receive") EXCEPT
                                          !.client = c, !.token = ~entry[c].terminal]]
    /\ UNCHANGED <<box, owners, joining, watch, td>>

\* One evaluation of popUntil()'s loop: take an item, report the state of the
\* mailbox, or sleep on its condition variable.
PopUntil(o) ==
    LET c == thread[o].client IN
    /\ thread[o].pc = "receive"
    /\ thread' = [thread EXCEPT ![o].pc = IF Readable(box[c]) THEN "release" ELSE "sleep"]
    /\ box' = [box EXCEPT ![c].queue = IF @ = <<>> THEN @ ELSE Tail(@)]
    /\ UNCHANGED <<entry, owners, life, joining, worker, parked, watch, td>>

PopTimeout(o) ==
    /\ thread[o].pc = "sleep"
    /\ thread' = [thread EXCEPT ![o].pc = "release"]
    /\ UNCHANGED <<entry, box, owners, life, joining, worker, parked, watch, td>>

ReleaseDriver(o) ==
    LET t == thread[o] IN
    /\ t.pc = "release"
    /\ IF t.token
       THEN /\ entry' = [entry EXCEPT ![t.client].active_drivers = Dec(@)]
            /\ Notify
       ELSE UNCHANGED <<entry, parked>>
    /\ thread' = [thread EXCEPT ![o] = Ready("idle")]
    /\ UNCHANGED <<box, owners, life, joining, worker, watch, td>>

AcquireWatch(o, c) ==
    /\ Holds(o, c) /\ ~watch[c].lease
    /\ state # "Stopping" /\ ~entry[c].terminal
    /\ StartLocked
    /\ entry' = [entry EXCEPT ![c].watch_demands = @ + 1]
    /\ watch' = [watch EXCEPT ![c] = [lease |-> TRUE, token |-> TRUE]]
    /\ Notify
    /\ UNCHANGED <<box, owners, joining, thread, td>>

ReleaseWatch(o, c) ==
    /\ Idle(o) /\ watch[c].lease /\ entry[c].owner = o
    /\ IF watch[c].token
       THEN /\ entry' = [entry EXCEPT ![c].watch_demands = Dec(@)]
            /\ Notify
       ELSE UNCHANGED <<entry, parked>>
    /\ watch' = [watch EXCEPT ![c] = [lease |-> FALSE, token |-> FALSE]]
    /\ UNCHANGED <<box, owners, life, joining, worker, thread, td>>

\* cleanupTerminal(), but for the threads that sleep on the mailbox or hold a
\* lease of the client.
Terminated(c) ==
    /\ entry' = [entry EXCEPT ![c] = Settled([ClearDemand(@) EXCEPT !.terminal = TRUE])]
    /\ box' = [box EXCEPT ![c].terminal = TRUE]
    /\ DropWatch({c})
    /\ Notify

\* retireReserved(): the ledger retires the record of an identity TDLib never
\* heard of and refuses its sends from then on; then cleanupTerminal(), forget().
RetireReserved(o, c) ==
    /\ Holds(o, c) /\ ~entry[c].terminal
    /\ td[c].used = {}
    /\ td' = [td EXCEPT ![c].ended = TRUE]
    /\ Terminated(c)
    /\ thread' = [thread EXCEPT ![o] = [@ EXCEPT !.pc = "forget", !.client = c]]
    /\ UNCHANGED <<owners, life, joining, worker>>

ForgetReserved(o) ==
    /\ thread[o].pc = "forget"
    /\ Forgotten(thread[o].client)
    /\ thread' = [thread EXCEPT ![o] = Ready("idle")]

-----------------------------------------------------------------------------
(***************************************************************************)
(* The worker of generation g: run(), publish() and fail().                *)
(***************************************************************************)
WorkerGoto(g, pc) == worker' = [worker EXCEPT ![g].pc = pc]

\* The loop's wait: stop, park, or claim at most one one-shot and receive.
WorkerStops(g) ==
    /\ worker[g].pc = "loop" /\ "worker" \notin parked
    /\ stop
    /\ WorkerGoto(g, "exited")
    /\ Notify
    /\ UNCHANGED <<entry, box, owners, life, joining, thread, watch, td>>

WorkerParks(g) ==
    /\ worker[g].pc = "loop" /\ "worker" \notin parked
    /\ ~stop /\ ~Demand
    /\ parked' = parked \cup {"worker"}
    /\ UNCHANGED <<entry, box, owners, life, joining, worker, thread, watch, td>>

Polled(c) == entry[c].one_shot_pending

\* The loop over entries_ ends at the first one-shot it finds.
FirstPolled == {c \in Clients : Polled(c) /\ \A d \in Clients : Polled(d) => c <= d}

WorkerClaims(g) ==
    /\ worker[g].pc = "loop" /\ "worker" \notin parked
    /\ ~stop /\ Demand
    /\ \E shot \in IF FirstPolled = {} THEN {None} ELSE FirstPolled :
         /\ worker' = [worker EXCEPT ![g] = [@ EXCEPT !.pc = "receiving", !.shot = shot]]
         /\ entry' = IF shot = None THEN entry
                     ELSE [entry EXCEPT ![shot] = [@ EXCEPT !.one_shot_pending = FALSE,
                                                            !.one_shot_in_flight = TRUE]]
    /\ UNCHANGED <<box, owners, life, joining, parked, thread, watch, td>>

\* completeOneShotLocked(), and back to the loop.
Completed(g) ==
    LET shot == worker[g].shot IN
    /\ entry' = IF shot = None THEN entry
                ELSE [entry EXCEPT ![shot].one_shot_in_flight = FALSE]
    /\ worker' = [worker EXCEPT ![g] = [pc |-> "loop", shot |-> None, item |-> NoItem]]
    /\ Notify

\* Source::receive timed out.  The pause that follows ends with a timeout or a
\* change of demand, and decides nothing.
ReceiveEmpty(g) ==
    /\ worker[g].pc = "receiving"
    /\ Completed(g)
    /\ UNCHANGED <<box, owners, life, joining, thread, watch, td>>

\* Source::receive returned an item of c: an update, the response to a request,
\* or the terminal update, which the ledger observes before it is published.
ReceiveItem(g, c, kind, request) ==
    /\ worker[g].pc = "receiving"
    /\ td[c].materialized
    /\ CASE kind = "update" -> /\ request = "none" /\ td[c].updates > 0
                               /\ td' = [td EXCEPT ![c].updates = @ - 1]
         [] kind = "response" -> /\ request \in td[c].open
                                 /\ td' = [td EXCEPT ![c].open = @ \ {request}]
         [] kind = "terminal" -> /\ request = "none" /\ ~td[c].ended
                                 /\ td' = [td EXCEPT ![c].ended = TRUE]
    /\ worker' = [worker EXCEPT ![g] = [@ EXCEPT
                    !.pc = "publish",
                    !.item = [client |-> c, kind |-> kind, request |-> request]]]
    /\ UNCHANGED <<entry, box, owners, life, joining, parked, thread, watch>>

\* publish()'s first critical section: is the item still routable?
PublishLookup(g) ==
    LET c == worker[g].item.client IN
    /\ worker[g].pc = "publish"
    /\ WorkerGoto(g, IF Live(c) /\ ~entry[c].terminal THEN "commit" ELSE "published")
    /\ UNCHANGED <<entry, box, owners, life, joining, parked, thread, watch, td>>

\* publish()'s second critical section.  Responses and terminal updates are
\* always kept, updates always while a close is under way.
PublishCommit(g) ==
    LET item == worker[g].item
        c == item.client
        terminal == item.kind = "terminal"
        published == Publish(box[c], item.kind)
        answered == [entry[c] EXCEPT !.pending_requests = @ \ {item.request}]
    IN
    /\ worker[g].pc = "commit"
    /\ WorkerGoto(g, "published")
    /\ Notify
    /\ \/ /\ Live(c) /\ ~entry[c].terminal
          /\ box' = [box EXCEPT ![c] = [published EXCEPT !.terminal = box[c].terminal \/ terminal]]
          /\ IF terminal
             THEN /\ entry' = [entry EXCEPT ![c] =
                                 Settled([ClearDemand(@) EXCEPT !.terminal = TRUE])]
                  /\ DropWatch({c})
                  /\ thread' = [o \in Owners |-> DropLease(Woken(thread[o], {c}), {c})]
             ELSE /\ entry' = [entry EXCEPT ![c] = answered]
                  /\ thread' = [o \in Owners |-> Woken(thread[o], {c})]
                  /\ UNCHANGED watch
       \/ /\ \/ ~Live(c) \/ entry[c].terminal
             \/ item.kind = "update" /\ entry[c].lifecycle_demands = 0
          /\ UNCHANGED <<entry, box, thread, watch>>
    /\ UNCHANGED <<owners, life, joining, td>>

PublishDone(g) ==
    /\ worker[g].pc = "published"
    /\ Completed(g)
    /\ UNCHANGED <<box, owners, life, joining, thread, watch, td>>

WorkerThrows(g) ==
    /\ MayFail
    /\ worker[g].pc \in {"receiving", "publish", "commit", "published"}
    /\ WorkerGoto(g, "failing")
    /\ UNCHANGED <<entry, box, owners, life, joining, parked, thread, watch, td>>

Fail(g) ==
    /\ worker[g].pc = "failing"
    /\ WorkerGoto(g, "cleanup")
    /\ state' = "Failed"
    /\ stop' = TRUE
    /\ entry' = [c \in Clients |-> [entry[c] EXCEPT !.watch_demands = 0]]
    /\ box' = [c \in Clients |-> IF Live(c) THEN [box[c] EXCEPT !.failed = TRUE] ELSE box[c]]
    /\ DropWatch(Clients)
    /\ thread' = [o \in Owners |-> Woken(thread[o], {c \in Clients : Live(c)})]
    /\ Notify
    /\ UNCHANGED <<owners, joining, gen, joinable, td>>

\* cleanupAfterFailure(): the drain of module FailureCleanup.
CleanupStep(g, c) ==
    /\ worker[g].pc = "cleanup"
    /\ Live(c) /\ ~entry[c].terminal
    /\ Terminated(c)
    /\ thread' = [o \in Owners |-> DropLease(Woken(thread[o], {c}), {c})]
    /\ UNCHANGED <<owners, life, joining, worker, td>>

CleanupDone(g) ==
    /\ worker[g].pc = "cleanup"
    /\ WorkerGoto(g, "exited")
    /\ Notify
    /\ UNCHANGED <<entry, box, owners, life, joining, thread, watch, td>>

-----------------------------------------------------------------------------
\* Steps an owner's thread chooses to begin, and steps of a call under way.
OwnerCalls(o) ==
    \/ AttachOwner(o) \/ DetachOwner(o)
    \/ \E c \in Clients :
         \/ CreateClient(o, c) \/ Forget(o, c) \/ TryPop(o, c) \/ AcquireDriver(o, c)
         \/ AcquireWatch(o, c) \/ ReleaseWatch(o, c) \/ RetireReserved(o, c)
         \/ \E kind \in Sends : AdmitSend(o, c, kind)

OwnerContinues(o) ==
    \/ ReapResume(o) \/ ReapJoined(o) \/ TdSend(o) \/ RequestOneShot(o)
    \/ ForgetReserved(o)
    \/ PopUntil(o) \/ ReleaseDriver(o)
    \/ \E sent \in BOOLEAN : EndSend(o, sent)

ReceiveStep(g) ==
    \/ ReceiveEmpty(g)
    \/ \E c \in Clients, kind \in Kinds, request \in Sends \cup {"none"} :
         ReceiveItem(g, c, kind, request)

WorkerStep(g) ==
    \/ WorkerStops(g) \/ WorkerParks(g) \/ WorkerClaims(g) \/ ReceiveStep(g)
    \/ PublishLookup(g) \/ PublishCommit(g) \/ PublishDone(g) \/ Fail(g)
    \/ CleanupDone(g)

Next ==
    \/ \E o \in Owners : OwnerCalls(o) \/ OwnerContinues(o) \/ PopTimeout(o)
    \/ \E g \in 1..MaxGen : \/ WorkerStep(g) \/ WorkerThrows(g)
                            \/ \E c \in Clients : CleanupStep(g, c)

Spec == Init /\ [][Next]_vars

-----------------------------------------------------------------------------
(***************************************************************************)
(* Properties.                                                             *)
(***************************************************************************)

\* Source::receive has one caller at a time: two generations of the worker are
\* never alive together, through every stop, failure and restart.
SingleReceiver ==
    Cardinality({g \in 1..MaxGen : worker[g].pc \notin {"none", "exited"}}) <= 1

\* A terminal client holds no demand: nothing can keep the worker reading for a
\* client that will never produce another item.
TerminalHasNoDemand ==
    \A c \in Clients : entry[c].terminal \/ entry[c].st # "live" => ~Demanded(entry[c])

\* The state is well-formed, and each demand counter equals the number of leases
\* whose token is still registered, none of a terminal client: a lease released
\* after forget, terminal, stop or failure neither underflows a counter nor
\* leaves demand behind.
LeasesCounted ==
    TypeOK /\ TerminalHasNoDemand /\ \A c \in Clients :
      /\ entry[c].active_drivers =
           Cardinality({o \in Owners : thread[o].token /\ thread[o].client = c})
      /\ entry[c].watch_demands = IF watch[c].token THEN 1 ELSE 0
      /\ watch[c].token => watch[c].lease

\* Demand of a client some VM still holds is served: the receiver runs, or has
\* failed and said so in every mailbox of the registry, those of clients created
\* around the failure included.
DemandServed ==
    \A c \in Clients : Live(c) =>
      /\ ~entry[c].orphan /\ Demanded(entry[c]) => Failed \/ (state = "Running" /\ ~stop)
      /\ Failed => box[c].failed

\* A stopping generation is joined only while no VM is attached: attachOwner()
\* waits for the join under way, so no attached VM meets a half-stopped receiver.
JoinOnlyUnowned == joining /\ ~Failed => owners = {}

\* Whoever sleeps on a condition variable is right to: the predicate it waits
\* for is still false, so no wakeup was lost.
SleepersJustified ==
    /\ "worker" \in parked => ~stop /\ ~Demand
    /\ \A o \in Owners \cap parked : joining
    /\ \A o \in Owners : thread[o].pc = "sleep" => ~Readable(box[thread[o].client])

-----------------------------------------------------------------------------
(***************************************************************************)
(* Liveness.  A started thread is scheduled, Source::receive and td_send   *)
(* return and the drain ends within its budget; nothing obliges a          *)
(* VM to begin a call, TDLib to send anything, or a receive to time out.   *)
(***************************************************************************)
Fairness ==
    /\ \A o \in Owners : WF_vars(OwnerContinues(o))
    /\ \A g \in 1..MaxGen : WF_vars(WorkerStep(g))

\* A VM that attaches or detaches is never stuck behind a join: whoever waits in
\* reapLocked(), or joins, gets through, whatever the worker was doing.
ReapEnds == \A o \in Owners : thread[o].pc \in {"reap", "join"} ~> thread[o].pc \in {"new", "idle", "gone"}

\* The receive that a poll of an empty mailbox asked for is made, or the client or the
\* receiver is gone, once no client of a lower identity is polled any more: the worker
\* takes the lowest, so that polling one again and again can hold back the others.
OneShotServed ==
    \A c \in Clients :
        (\A d \in Clients : d < c => <>[]~Polled(d)) => (Polled(c) ~> ~Polled(c) \/ Failed)
=============================================================================
