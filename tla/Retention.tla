------------------------------ MODULE Retention ------------------------------
(***************************************************************************)
(* Which items the receiver keeps: the retention policy of publish() in    *)
(* include/tdlua/common/receiver.h, for one client that is not terminal,   *)
(* racing with the calls that change the interests it reads.               *)
(*                                                                         *)
(* The worker reads the interests three times, under the lock but at three *)
(* different moments: when the receive starts (a snapshot of the generic   *)
(* consumers), when the backend classifies the item (needsHandlerType) and *)
(* when publish() decides.  Between two of them any owner may open or      *)
(* close a consumer, a subscription or a handler.                          *)
(***************************************************************************)
EXTENDS Naturals, FiniteSets

CONSTANTS
    Types,        \* event types a handler can be registered for
    NoType,       \* the empty event_type
    MaxInterest,  \* bound: interests of one kind held at the same time
    Lazy          \* native backend: the type is set by classifyForRetention()
                  \* FALSE for the JSON backend, which always sets it

ASSUME MaxInterestAssumption == MaxInterest \in Nat
ASSUME LazyAssumption == Lazy \in BOOLEAN
ASSUME NoTypeAssumption == NoType \notin Types

VARIABLES
    entry,   \* the client's interests and demand
    call,    \* the receive under way: its step, its snapshot and its item
    held,    \* ghost: handler interest held without a break since the receive began
    fate     \* what publish() did with the last item

retentionVars == <<entry, call, held, fate>>

-----------------------------------------------------------------------------
\* The interests a caller opens and closes, and the demand that counts as one.
Interests == {"driver", "consumer", "handler_only", "sub_generic", "sub_handlers"}

Entry == [count : [Interests -> 0..MaxInterest], types : [Types -> 0..MaxInterest],
          lifecycle : BOOLEAN, orphan : BOOLEAN,
          protected : SUBSET {"managed", "close"}]

\* An unsolicited update, the response to a request, or the terminal update;
\* event_type is what publish() sees, type what TDLib sent.
Item == [request : {"none", "raw", "managed", "close"}, terminal : BOOLEAN,
         type : Types \cup {NoType}, event_type : Types \cup {NoType}]

Has(e, i) == e.count[i] # 0

\* Releasing an interest that was already cleared does nothing.
Dec(n) == IF n # 0 THEN n - 1 ELSE n

-----------------------------------------------------------------------------
(***************************************************************************)
(* publish()'s decision.                                                   *)
(***************************************************************************)
Unsolicited(item) == item.request = "none" /\ ~item.terminal

Lifecycle(e, item) == item.terminal \/ (item.request = "close" /\ "close" \in e.protected)

GenericRaw(e, item) ==
    item.request # "none" /\ ~Lifecycle(e, item) /\ item.request \notin e.protected

GenericConsumer_NoSnapshot(e, snapshot) == Has(e, "consumer")

GenericConsumer(e, snapshot) == Has(e, "consumer") \/ (~e.orphan /\ snapshot)

SelectedHandlerUpdate(e, item) ==
    /\ Has(e, "handler_only") \/ Has(e, "sub_handlers")
    /\ item.event_type \in Types
    /\ e.types[item.event_type] # 0

Traditional(e, snapshot) ==
    \/ Has(e, "driver") \/ GenericConsumer(e, snapshot) \/ Has(e, "handler_only")
    \/ e.lifecycle

SubscriptionOnly(e, snapshot) ==
    ~Traditional(e, snapshot) /\ (Has(e, "sub_generic") \/ Has(e, "sub_handlers"))

HandlerFilter(e, snapshot, item) ==
    /\ \/ Has(e, "handler_only")
       \/ SubscriptionOnly(e, snapshot) /\ Has(e, "sub_handlers") /\ ~Has(e, "sub_generic")
    /\ ~GenericConsumer(e, snapshot) /\ ~Has(e, "sub_generic")
    /\ item.event_type # NoType /\ ~SelectedHandlerUpdate(e, item)
    /\ Unsolicited(item)
    /\ ~e.lifecycle

Preserved(e, snapshot, item) ==
    \/ ~Unsolicited(item) \/ e.lifecycle \/ Has(e, "driver")
    \/ GenericConsumer(e, snapshot) \/ SelectedHandlerUpdate(e, item)
    \/ SubscriptionOnly(e, snapshot) /\ Has(e, "sub_generic")

\* The item takes a ticket of the bounded generic buffer.
Ticketed(e, snapshot, item) ==
    \/ /\ Unsolicited(item) /\ ~e.lifecycle /\ ~SelectedHandlerUpdate(e, item)
       /\ GenericConsumer(e, snapshot) \/ (Has(e, "driver") /\ ~Has(e, "handler_only"))
    \/ /\ Unsolicited(item) /\ SubscriptionOnly(e, snapshot)
       /\ Has(e, "sub_generic") \/ SelectedHandlerUpdate(e, item)
    \/ GenericRaw(e, item)

Fate(e, snapshot, item) ==
    IF HandlerFilter(e, snapshot, item) THEN "filtered"
    ELSE IF ~Preserved(e, snapshot, item) THEN "dropped"
    ELSE IF Ticketed(e, snapshot, item) THEN "ticketed"
    ELSE "kept"

Keeps == {"ticketed", "kept"}

-----------------------------------------------------------------------------
NoItem == [request |-> "none", terminal |-> FALSE, type |-> NoType, event_type |-> NoType]

RetentionTypeOK ==
    /\ entry \in Entry
    /\ call \in [pc : {"idle", "receiving", "classify", "publish", "ended"}, snapshot : BOOLEAN,
                 item : Item]
    /\ held \in BOOLEAN
    /\ fate \in Keeps \cup {"none", "filtered", "dropped"}

RetentionInit ==
    /\ entry = [count |-> [i \in Interests |-> 0], types |-> [t \in Types |-> 0],
                lifecycle |-> FALSE, orphan |-> FALSE, protected |-> {}]
    /\ call = [pc |-> "idle", snapshot |-> FALSE, item |-> NoItem]
    /\ held = FALSE
    /\ fate = "none"

HandlerInterest(e) == Has(e, "handler_only") \/ Has(e, "sub_handlers")

\* Every change of the entry, with the ghost that follows it.
Change(e) ==
    /\ call.pc # "ended"
    /\ entry' = e
    /\ held' = (held /\ HandlerInterest(e))
    /\ UNCHANGED <<call, fate>>

-----------------------------------------------------------------------------
(***************************************************************************)
(* The callers.                                                            *)
(***************************************************************************)

\* acquireDriver, setConsumerInterest, setSubscriptionInterest with active.  A
\* forgotten client has no caller left.
Open(i) ==
    /\ ~entry.orphan
    /\ entry.count[i] < MaxInterest
    /\ Change([entry EXCEPT !.count[i] = @ + 1])

\* Their release.  It may come after forget() cleared the counter; a driver's
\* and a subscription's is then refused.
Close(i) ==
    /\ i \in {"consumer", "handler_only"} \/ (~entry.orphan /\ entry.count[i] # 0)
    /\ Change([entry EXCEPT !.count[i] = Dec(@)])

SetHandlerRegistered(t, active) ==
    /\ active => ~entry.orphan /\ entry.types[t] < MaxInterest
    /\ Change([entry EXCEPT !.types[t] = IF active THEN @ + 1 ELSE Dec(@)])

\* admitSend() of a managed request or of a close, and endSend() when td_send threw.
AdmitSend(r) ==
    /\ ~entry.orphan /\ r \notin entry.protected
    /\ r = "close" => ~entry.lifecycle
    /\ Change([entry EXCEPT !.protected = @ \cup {r}, !.lifecycle = @ \/ r = "close"])

EndSendFailed(r) ==
    /\ r \in entry.protected \/ (r = "close" /\ entry.lifecycle)
    /\ Change([entry EXCEPT !.protected = @ \ {r}, !.lifecycle = @ /\ r # "close"])

Cleared(e) == [e EXCEPT !.orphan = TRUE, !.count = [i \in Interests |-> 0],
                        !.types = [t \in Types |-> 0]]

Forget == ~entry.orphan /\ Change(Cleared(entry))

\* detachOwner() while another owner can finish the lifecycle work.
DetachOwner ==
    /\ ~entry.orphan
    /\ Change([Cleared(entry) EXCEPT !.protected = @ \cap {"close"}])

-----------------------------------------------------------------------------
(***************************************************************************)
(* The worker.                                                             *)
(***************************************************************************)
StartReceive ==
    /\ call.pc = "idle"
    /\ call' = [pc |-> "receiving", snapshot |-> Has(entry, "consumer"), item |-> NoItem]
    /\ held' = HandlerInterest(entry)
    /\ fate' = "none"
    /\ UNCHANGED entry

\* Source::receive returned an item.
Receive(request, terminal, t) ==
    /\ call.pc = "receiving"
    /\ terminal => request = "none"
    /\ call' = [call EXCEPT !.pc = "classify",
                  !.item = [request |-> request, terminal |-> terminal, type |-> t,
                            event_type |-> IF Lazy THEN NoType ELSE t]]
    /\ UNCHANGED <<entry, held, fate>>

NeedsHandlerType(e) == Has(e, "handler_only") \/ Has(e, "sub_handlers")

ClassifyForRetention ==
    /\ call.pc = "classify"
    /\ call' = [call EXCEPT !.pc = "publish",
                  !.item.event_type = IF Unsolicited(call.item) /\ NeedsHandlerType(entry)
                                      THEN call.item.type ELSE @]
    /\ UNCHANGED <<entry, held, fate>>

\* A terminal item ends the client, whose interests no call changes any more.
Publish ==
    /\ call.pc = "publish"
    /\ fate' = Fate(entry, call.snapshot, call.item)
    /\ entry' = [entry EXCEPT !.protected = @ \ {call.item.request}]
    /\ call' = [call EXCEPT !.pc = IF call.item.terminal THEN "ended" ELSE "idle"]
    /\ UNCHANGED held

RetentionNext ==
    \/ \E i \in Interests : Open(i) \/ Close(i)
    \/ \E t \in Types, active \in BOOLEAN : SetHandlerRegistered(t, active)
    \/ \E r \in {"managed", "close"} : AdmitSend(r) \/ EndSendFailed(r)
    \/ Forget \/ DetachOwner
    \/ StartReceive
    \/ \E request \in {"none", "raw", "managed", "close"}, terminal \in BOOLEAN, t \in Types :
         Receive(request, terminal, t)
    \/ ClassifyForRetention
    \/ Publish

RetentionSpec == RetentionInit /\ [][RetentionNext]_retentionVars

-----------------------------------------------------------------------------
(***************************************************************************)
(* Properties.                                                             *)
(***************************************************************************)
\* A generic consumer present when the receive began gets what that receive
\* returned, even if it closed before the item was published: closing a poll
\* loop between two items loses nothing.
SnapshotKept ==
    [][fate' \in {"filtered", "dropped"} /\ fate = "none"
         => entry.orphan \/ ~call.snapshot]_retentionVars

\* A handler interest held since the receive began, by a consumer or by a
\* subscription, gets every update of a type registered at publication,
\* whatever generic interests came and went since the item was classified.
SelectedKept ==
    [][fate' \in {"filtered", "dropped"} /\ fate = "none" /\ held
         => entry.types[call.item.type] = 0]_retentionVars

\* A forgotten client keeps unsolicited updates only for a close under way: a
\* receive that began before forget() does not fill an abandoned mailbox.
OrphanKeepsNothing ==
    [][fate' \in Keeps /\ fate = "none" /\ entry.orphan /\ Unsolicited(call.item)
         => entry.lifecycle]_retentionVars
=============================================================================
