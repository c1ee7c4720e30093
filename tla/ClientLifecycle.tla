--------------------------- MODULE ClientLifecycle ---------------------------
(***************************************************************************)
(* The life of one client as its facade sees it (TDLua of the JSON backend *)
(* in src/backend/json/client.cpp; NativeTDLua is its twin, with the flags *)
(* closing_ and closed_ for state): shutdown requests and their fate, the  *)
(* terminal update met at any depth of nested drains, and the disposal by  *)
(* Lua's collector, which waits for TDLib to close.  The facade belongs to *)
(* one thread, but Lua code runs inside every drain and calls it again.    *)
(*                                                                         *)
(* The receiver and the ledger appear with the members the facade depends  *)
(* on (Receiver and FailureCleanup model them whole); TDLib is external.   *)
(***************************************************************************)
EXTENDS Naturals, Sequences, FiniteSets

CONSTANTS
  Shutdowns,   \* close and destroy requests of the application
  Fallback,    \* the close sent by closeInternal(), which has no request id
  MaxDepth     \* bound: scheduler ticks nested in one another

ASSUME LifecycleAssumption == Fallback \notin Shutdowns /\ MaxDepth \in Nat

Closes == Shutdowns \cup {Fallback}

VARIABLES
  facade,   \* the members of TDLua, and the locals of closeInternal()
  core,     \* its scheduler: SchedulerCore as far as a detach matters
  frames,   \* tick() calls in progress, innermost last; Lua runs above them
  ledger,   \* the client's record in FailureCleanup
  entry,    \* the client's entry in the receiver, and its mailbox
  td,       \* TDLib's client
  fate,     \* history: what became of each close, as far as its owner was told
  escaped   \* history: an exception left the last call of the client

vars == <<facade, core, frames, ledger, entry, td, fate, escaped>>

Fates == {"unused", "unsent", "uncertain", "pending", "accepted", "rejected"}

Frame == [kind : {"drain", "failed", "tick"}, loop : BOOLEAN]

Response == [kind : {"response"}, id : Closes, ok : BOOLEAN]
Update == [kind : {"answer", "closing", "closed"}]

Facade ==
  [pc : {"lua", "wait", "gone"},
   state : {"Running", "Closing", "Terminal", "Cleaned"},
   shutdown_request_sent : BOOLEAN, shutdown_accepted : BOOLEAN,
   shutdown_requests : SUBSET Shutdowns, cleanup_complete : BOOLEAN,
   drain_depth : Nat, fallback_sent : BOOLEAN,
   outcome : {"none", "done", "timed_out", "threw"}]

Core == [pending : BOOLEAN, detach_after_drain : BOOLEAN, draining : BOOLEAN]

Ledger ==
  [record : BOOLEAN, materialized : BOOLEAN, uncertain : BOOLEAN,
   close_sent : BOOLEAN, close_uncertain : BOOLEAN]

Entry ==
  [failed : BOOLEAN, terminal : BOOLEAN, orphan : BOOLEAN,
   lifecycle_demands : Nat, mailbox : Seq(Response \cup Update)]

Td ==
  [phase : {"none", "open", "closed"}, asked : SUBSET Closes,
   closing : BOOLEAN, owes : BOOLEAN]

TypeOK ==
  /\ facade \in Facade /\ core \in Core /\ frames \in Seq(Frame)
  /\ ledger \in Ledger /\ entry \in Entry /\ td \in Td
  /\ fate \in [Closes -> Fates] /\ escaped \in BOOLEAN

Init ==
  /\ facade = [pc |-> "lua", state |-> "Running", shutdown_request_sent |-> FALSE,
               shutdown_accepted |-> FALSE, shutdown_requests |-> {},
               cleanup_complete |-> FALSE, drain_depth |-> 0,
               fallback_sent |-> FALSE, outcome |-> "none"]
  /\ core = [pending |-> FALSE, detach_after_drain |-> FALSE, draining |-> FALSE]
  /\ frames = <<>>
  /\ ledger = [record |-> TRUE, materialized |-> FALSE, uncertain |-> FALSE,
               close_sent |-> FALSE, close_uncertain |-> FALSE]
  /\ entry = [failed |-> FALSE, terminal |-> FALSE, orphan |-> FALSE,
              lifecycle_demands |-> 0, mailbox |-> <<>>]
  /\ td = [phase |-> "none", asked |-> {}, closing |-> FALSE, owes |-> FALSE]
  /\ fate = [c \in Closes |-> "unused"]
  /\ escaped = FALSE

Closed(f) == f.state \in {"Terminal", "Cleaned"}

-----------------------------------------------------------------------------
(***************************************************************************)
(* Sending.  JsonRuntime::send() ends in one of four ways; the ledger and  *)
(* the receiver's demand remember which.                                   *)
(***************************************************************************)
SendOutcomes == {"nothing", "throws", "uncertain", "sent"}

\* "nothing": a close is dropped silently when the receiver has failed or the
\* identity is retired.  "throws": before admission, e.g. request.dump().
\* "uncertain": td_send() threw, or the receiver could not start.
Possible(outcome, c) ==
  \/ outcome = "nothing" /\ (entry.failed \/ ~ledger.record)
  \/ outcome = "throws" /\ ~entry.failed
  \/ outcome \in {"uncertain", "sent"} /\ ~entry.failed /\ ledger.record

LedgerAfter(l, outcome, close) ==
  CASE outcome = "sent" ->
         [l EXCEPT !.materialized = TRUE, !.close_sent = @ \/ close,
                   !.close_uncertain = @ /\ ~close]
    [] outcome = "uncertain" ->
         [l EXCEPT !.uncertain = TRUE, !.close_uncertain = @ \/ close]
    [] OTHER -> l

\* A close that was sent is demand until the client's terminal update; the
\* demand of one that threw is taken back.
EntryAfter(outcome) ==
  IF outcome = "sent" THEN [entry EXCEPT !.lifecycle_demands = @ + 1] ELSE entry

\* What reaches TDLib.
TdAfter(outcome, c) ==
  LET reached == [td EXCEPT !.phase = IF @ = "none" THEN "open" ELSE @,
                            !.asked = IF td.phase = "closed" THEN @ ELSE @ \cup {c}]
  IN CASE outcome = "sent" -> {reached}
       [] outcome = "uncertain" -> {td, reached}
       [] OTHER -> {td}

SendClose(c, outcome) ==
  /\ Possible(outcome, c)
  /\ ledger' = LedgerAfter(ledger, outcome, TRUE)
  /\ entry' = EntryAfter(outcome)
  /\ td' \in TdAfter(outcome, c)
  /\ fate' = [fate EXCEPT ![c] =
        CASE outcome = "sent" -> "pending" [] outcome = "uncertain" -> "uncertain"
          [] OTHER -> "unsent"]

shutdownPending(l) == l.record /\ (l.close_sent \/ l.close_uncertain)

LuaRuns == facade.pc = "lua"

\* send(): the request is a shutdown as soon as the ledger has one pending,
\* whether it is this one or not.
Shutdown(c) ==
  /\ LuaRuns /\ ~Closed(facade) /\ fate[c] = "unused"
  /\ \E outcome \in SendOutcomes : SendClose(c, outcome)
  /\ facade' = IF shutdownPending(ledger')
               THEN [facade EXCEPT !.state = "Closing", !.shutdown_request_sent = TRUE,
                                   !.shutdown_requests = @ \cup {c}]
               ELSE facade
  /\ UNCHANGED <<core, frames, escaped>>

\* Any other request; one that throws is cancelled.
Request ==
  /\ LuaRuns /\ ~Closed(facade) /\ ~core.pending /\ ~td.owes
  /\ ~entry.failed /\ ledger.record
  /\ \/ /\ ledger' = LedgerAfter(ledger, "sent", FALSE)
        /\ core' = [core EXCEPT !.pending = TRUE]
        /\ td' = [td EXCEPT !.phase = IF @ = "none" THEN "open" ELSE @,
                            !.owes = td.phase # "closed"]
     \/ /\ ledger' = LedgerAfter(ledger, "uncertain", FALSE)
        /\ td' \in {td, [td EXCEPT !.phase = IF @ = "none" THEN "open" ELSE @]}
        /\ UNCHANGED core
  /\ UNCHANGED <<facade, frames, entry, fate, escaped>>

-----------------------------------------------------------------------------
(***************************************************************************)
(* What an item of the mailbox does to the facade.                         *)
(***************************************************************************)

Observed_AnyRejection(f, item) ==
  IF item.kind # "response" \/ item.id \notin f.shutdown_requests THEN f
  ELSE LET accepted == f.shutdown_accepted \/ item.ok
       IN [f EXCEPT !.shutdown_requests = @ \ {item.id}, !.shutdown_accepted = accepted,
                    !.shutdown_request_sent = @ /\ accepted]

Observed_NeverRejected(f, item) ==
  IF item.kind # "response" THEN f
  ELSE [f EXCEPT !.shutdown_requests = @ \ {item.id},
                 !.shutdown_accepted = @ \/ item.ok]

\* observeShutdownResponse(): when the last shutdown was rejected another one
\* may be sent.
Observed(f, item) ==
  IF item.kind # "response" \/ item.id \notin f.shutdown_requests THEN f
  ELSE LET left == f.shutdown_requests \ {item.id}
           accepted == f.shutdown_accepted \/ item.ok
       IN [f EXCEPT !.shutdown_requests = left, !.shutdown_accepted = accepted,
                    !.shutdown_request_sent = @ /\ (left # {} \/ accepted)]

\* checkAuthState(), but for _ready, which is only reported.
AuthState(f, item) ==
  CASE item.kind = "closing" -> [f EXCEPT !.state = IF @ = "Running" THEN "Closing" ELSE @]
    [] item.kind = "closed" -> [f EXCEPT !.state = "Terminal"]
    [] OTHER -> f

\* rejectShutdown() of the ledger goes with the flag that Observed() clears.
LedgerObserved(f, item) ==
  IF Observed(f, item).shutdown_request_sent = f.shutdown_request_sent
     \/ entry.failed \/ ~ledger.record
  THEN ledger
  ELSE [ledger EXCEPT !.close_sent = FALSE, !.close_uncertain = FALSE]

\* An uncertain close stays one that the receiver does not count.
FateTold(item) ==
  IF item.kind # "response" THEN fate
  ELSE [fate EXCEPT ![item.id] = IF ~item.ok THEN "rejected"
                                 ELSE IF @ = "uncertain" THEN @ ELSE "accepted"]

\* detachTransport(): every pending request fails.
Detached(c) == [c EXCEPT !.pending = FALSE, !.detach_after_drain = FALSE]

-----------------------------------------------------------------------------
(***************************************************************************)
(* Receiving, and the frames of tick().                                    *)
(***************************************************************************)
Head1 == Head(entry.mailbox)
Received == entry' = [entry EXCEPT !.mailbox = Tail(@)]
MayEnter == Len(frames) < MaxDepth
Enter(kind) == frames' = Append(frames, [kind |-> kind, loop |-> FALSE])
EnterDrain(f) == Enter("drain") /\ facade' = [f EXCEPT !.drain_depth = @ + 1]

Dispatch_NoDetach ==
  /\ LuaRuns /\ ~Closed(facade) /\ entry.mailbox # <<>> /\ MayEnter
  /\ Received
  /\ EnterDrain(AuthState(Observed(facade, Head1), Head1))
  /\ core' = [core EXCEPT !.pending = @ /\ Head1.kind # "answer"]
  /\ ledger' = LedgerObserved(facade, Head1) /\ fate' = FateTold(Head1)
  /\ escaped' = FALSE
  /\ UNCHANGED td

\* receive() or pump(): an item is dispatched, then drainPump().
Dispatch ==
  /\ LuaRuns /\ ~Closed(facade) /\ entry.mailbox # <<>> /\ MayEnter
  /\ Received
  /\ LET f == AuthState(Observed(facade, Head1), Head1)
     IN /\ EnterDrain(f)
        /\ core' = [core EXCEPT !.pending = @ /\ Head1.kind # "answer",
                                !.detach_after_drain = @ \/ f.state = "Terminal"]
  /\ ledger' = LedgerObserved(facade, Head1) /\ fate' = FateTold(Head1)
  /\ escaped' = FALSE
  /\ UNCHANGED td

\* The dispatcher threw: no drain follows.
DispatchThrows ==
  /\ LuaRuns /\ ~Closed(facade) /\ entry.mailbox # <<>>
  /\ Received
  /\ facade' = AuthState(Observed(facade, Head1), Head1)
  /\ core' = IF facade'.state = "Terminal" THEN Detached(core)
             ELSE [core EXCEPT !.pending = @ /\ Head1.kind # "answer"]
  /\ ledger' = LedgerObserved(facade, Head1) /\ fate' = FateTold(Head1)
  /\ escaped' = TRUE
  /\ UNCHANGED <<frames, td>>

\* Nothing arrived in time; or receive() of a closed client, which only drains.
ReceiveNothing ==
  /\ LuaRuns /\ MayEnter
  /\ Closed(facade) \/ (entry.mailbox = <<>> /\ ~entry.failed)
  /\ EnterDrain(facade)
  /\ escaped' = FALSE
  /\ UNCHANGED <<core, ledger, entry, td, fate>>

\* receiveBackend() met the receiver's failure: tick(), then the exception.
ReceiveFails ==
  /\ LuaRuns /\ MayEnter /\ ~Closed(facade) /\ entry.mailbox = <<>> /\ entry.failed
  /\ core' = Detached(core)
  /\ Enter("failed")
  /\ UNCHANGED <<facade, ledger, entry, td, fate, escaped>>

\* await() and its like run tick() themselves.
Await ==
  /\ LuaRuns /\ MayEnter
  /\ Enter("tick")
  /\ UNCHANGED <<facade, core, ledger, entry, td, fate, escaped>>

Top == frames[Len(frames)]
Popped == SubSeq(frames, 1, Len(frames) - 1)

\* Notifications and expired waiters were resumed; a tick() inside another one
\* ends here.
TickStarts ==
  /\ LuaRuns /\ frames # <<>> /\ ~Top.loop /\ ~core.draining
  /\ frames' = [frames EXCEPT ![Len(frames)].loop = TRUE]
  /\ core' = [core EXCEPT !.draining = TRUE]
  /\ UNCHANGED <<facade, ledger, entry, td, fate, escaped>>

\* The loop of tick() has run what was ready and found a detach to do.
TickDetaches ==
  /\ LuaRuns /\ frames # <<>> /\ Top.loop /\ core.detach_after_drain
  /\ core' = Detached(core)
  /\ UNCHANGED <<facade, frames, ledger, entry, td, fate, escaped>>

Forgotten_Demand(e) == [e EXCEPT !.orphan = TRUE, !.lifecycle_demands = 0]

Forgotten(e) ==
  [e EXCEPT !.orphan = TRUE,
            !.lifecycle_demands = IF e.terminal THEN 0 ELSE @]

TickCanEnd == IF Top.loop THEN ~core.detach_after_drain ELSE core.draining

\* tick() ends, and after the outermost drain of a closed client its cleanup.
TickEnds ==
  /\ LuaRuns /\ frames # <<>> /\ TickCanEnd /\ Top.kind # "failed"
  /\ frames' = Popped
  /\ core' = [core EXCEPT !.draining = @ /\ ~Top.loop]
  /\ LET f == IF Top.kind = "drain" THEN [facade EXCEPT !.drain_depth = @ - 1] ELSE facade
         cleans == Top.kind = "drain" /\ f.drain_depth = 0 /\ f.state = "Terminal"
     IN /\ facade' = IF cleans THEN [f EXCEPT !.state = "Cleaned", !.cleanup_complete = TRUE]
                     ELSE f
        /\ entry' = IF cleans THEN Forgotten(entry) ELSE entry
  /\ escaped' = (escaped /\ ~(Top.kind = "drain" /\ Popped = <<>>))
  /\ UNCHANGED <<ledger, td, fate>>

\* An error leaves tick(): from a resumed coroutine, from the loop, which still
\* detaches, or as the scheduler error that a public call reports.  Lua may
\* catch it in the frame below.
TickThrows ==
  /\ LuaRuns /\ frames # <<>>
  /\ frames' = Popped
  /\ core' = IF ~Top.loop THEN core
             ELSE [(IF core.detach_after_drain THEN Detached(core) ELSE core)
                     EXCEPT !.draining = FALSE]
  /\ facade' = IF Top.kind = "drain" THEN [facade EXCEPT !.drain_depth = @ - 1] ELSE facade
  /\ escaped' = TRUE
  /\ UNCHANGED <<ledger, entry, td, fate>>

-----------------------------------------------------------------------------
(***************************************************************************)
(* Disposal: closeInternal(), called by Lua's collector or at lua_close()  *)
(* and therefore from no callback of this client.                          *)
(***************************************************************************)
Gone(f, outcome) ==
  [f EXCEPT !.pc = "gone", !.outcome = outcome, !.cleanup_complete = TRUE,
            !.state = IF @ = "Terminal" THEN "Cleaned" ELSE @]

UnloadStarts == LuaRuns /\ frames = <<>> /\ core' = Detached(core)

retireReserved ==
  ~ledger.record \/ ~(ledger.materialized \/ ledger.uncertain)

\* Cleaned already, or TDLib never had, or no longer has, the client.
UnloadAtOnce ==
  /\ UnloadStarts
  /\ facade.cleanup_complete \/ retireReserved
  /\ facade' = [Gone(facade, "done") EXCEPT !.state = "Cleaned"]
  /\ IF facade.cleanup_complete THEN UNCHANGED <<ledger, entry>>
     ELSE /\ ledger' = [ledger EXCEPT !.record = FALSE]
          /\ entry' = Forgotten([entry EXCEPT !.terminal = TRUE])
  /\ UNCHANGED <<frames, td, fate, escaped>>

\* The wait for TDLib begins, with a close unless a shutdown is under way.
NeedsFallback(f) ==
  ~Closed(f) /\ ~f.shutdown_request_sent /\ ~f.fallback_sent

WithFallback(f) ==
  [f EXCEPT !.fallback_sent = TRUE, !.shutdown_request_sent = TRUE, !.state = "Closing"]

UnloadWaits ==
  /\ UnloadStarts /\ ~facade.cleanup_complete /\ ~retireReserved
  /\ ~NeedsFallback(facade)
  /\ facade' = [facade EXCEPT !.pc = "wait"]
  /\ UNCHANGED <<frames, ledger, entry, td, fate, escaped>>

UnloadCloses ==
  /\ UnloadStarts /\ ~facade.cleanup_complete /\ ~retireReserved
  /\ NeedsFallback(facade)
  /\ \E outcome \in {"nothing", "sent"} : SendClose(Fallback, outcome)
  /\ facade' = [WithFallback(facade) EXCEPT !.pc = "wait"]
  /\ UNCHANGED <<frames, escaped>>

UnloadCloseThrows ==
  /\ UnloadStarts /\ ~facade.cleanup_complete /\ ~retireReserved
  /\ NeedsFallback(facade)
  /\ \E outcome \in {"throws", "uncertain"} :
        /\ Possible(outcome, Fallback)
        /\ ledger' = LedgerAfter(ledger, outcome, TRUE)
        /\ td' \in TdAfter(outcome, Fallback)
        /\ fate' = [fate EXCEPT ![Fallback] =
                      IF outcome = "throws" THEN "unsent" ELSE "uncertain"]
  /\ facade' = Gone(WithFallback(facade), "threw")
  /\ entry' = Forgotten(entry)
  /\ UNCHANGED <<frames, escaped>>

Waits == facade.pc = "wait" /\ ~Closed(facade)

\* One item of the wait; the second chance of the fallback close comes here.
WaitReceives ==
  /\ Waits /\ entry.mailbox # <<>>
  /\ Received
  /\ facade' = AuthState(Observed(facade, Head1), Head1)
  /\ ~NeedsFallback(facade')
  /\ ledger' = LedgerObserved(facade, Head1) /\ fate' = FateTold(Head1)
  /\ UNCHANGED <<core, frames, td, escaped>>

SecondChance(outcome) ==
  /\ Waits /\ entry.mailbox # <<>>
  /\ LET f == AuthState(Observed(facade, Head1), Head1)
         rejected == LedgerObserved(facade, Head1)
     IN /\ NeedsFallback(f)
        /\ Possible(outcome, Fallback)
        /\ ledger' = LedgerAfter(rejected, outcome, TRUE)
        /\ facade' = IF outcome \in {"sent", "nothing"} THEN WithFallback(f)
                     ELSE Gone(WithFallback(f), "threw")
  /\ entry' = LET e == [EntryAfter(outcome) EXCEPT !.mailbox = Tail(@)]
              IN IF outcome \in {"sent", "nothing"} THEN e ELSE Forgotten(e)
  /\ td' \in TdAfter(outcome, Fallback)
  /\ fate' = [FateTold(Head1) EXCEPT ![Fallback] =
                CASE outcome = "sent" -> "pending" [] outcome = "uncertain" -> "uncertain"
                  [] OTHER -> "unsent"]
  /\ UNCHANGED <<core, frames, escaped>>

WaitCloses == \E outcome \in SendOutcomes : SecondChance(outcome)

WaitFails ==
  /\ Waits /\ entry.mailbox = <<>> /\ entry.failed
  /\ facade' = Gone(facade, "threw")
  /\ entry' = Forgotten(entry)
  /\ UNCHANGED <<core, frames, ledger, td, fate, escaped>>

\* The terminal update arrived, or five seconds have passed.
WaitEnds ==
  /\ facade.pc = "wait"
  /\ facade' = Gone(facade, IF Closed(facade) THEN "done" ELSE "timed_out")
  /\ entry' = Forgotten(entry)
  /\ UNCHANGED <<core, frames, ledger, td, fate, escaped>>

-----------------------------------------------------------------------------
(***************************************************************************)
(* The worker and TDLib.  A failed receiver publishes nothing more; its    *)
(* cleanup may still see the terminal update and retire the record.        *)
(***************************************************************************)
Published(e, item) ==
  IF e.failed \/ e.orphan THEN e ELSE [e EXCEPT !.mailbox = Append(@, item)]

Observes ==
  ledger' = [ledger EXCEPT !.materialized = TRUE, !.uncertain = @ /\ ledger.close_uncertain]

Answers ==
  /\ td.owes /\ td.phase = "open"
  /\ td' = [td EXCEPT !.owes = FALSE]
  /\ entry' = Published(entry, [kind |-> "answer"])
  /\ Observes
  /\ UNCHANGED <<facade, core, frames, fate, escaped>>

Responds(c, ok) ==
  /\ td.phase = "open" /\ c \in td.asked
  /\ td' = [td EXCEPT !.asked = @ \ {c}, !.closing = @ \/ ok]
  /\ entry' = Published(entry, [kind |-> "response", id |-> c, ok |-> ok])
  /\ Observes
  /\ UNCHANGED <<facade, core, frames, fate, escaped>>

\* TDLib announces that it closes, because it was asked to or by itself.
Announces ==
  /\ td.phase = "open" /\ ~td.closing
  /\ td' = [td EXCEPT !.closing = TRUE]
  /\ entry' = Published(entry, [kind |-> "closing"])
  /\ Observes
  /\ UNCHANGED <<facade, core, frames, fate, escaped>>

Closes_Td ==
  /\ td.phase = "open" /\ td.closing
  /\ td' = [phase |-> "closed", asked |-> {}, closing |-> TRUE, owes |-> FALSE]
  /\ entry' = IF entry.failed
              THEN [entry EXCEPT !.terminal = TRUE, !.lifecycle_demands = 0]
              ELSE [Published(entry, [kind |-> "closed"])
                      EXCEPT !.terminal = TRUE, !.lifecycle_demands = 0]
  /\ ledger' = [ledger EXCEPT !.record = FALSE, !.uncertain = FALSE]
  /\ UNCHANGED <<facade, core, frames, fate, escaped>>

ReceiverFails ==
  /\ ~entry.failed
  /\ entry' = [entry EXCEPT !.failed = TRUE]
  /\ UNCHANGED <<facade, core, frames, ledger, td, fate, escaped>>

Application == (\E c \in Shutdowns : Shutdown(c)) \/ Request

Receiving == Dispatch \/ DispatchThrows \/ ReceiveNothing \/ ReceiveFails \/ Await

Ticking == TickStarts \/ TickDetaches \/ TickEnds \/ TickThrows

Unload == UnloadAtOnce \/ UnloadWaits \/ UnloadCloses \/ UnloadCloseThrows

Waiting == WaitReceives \/ WaitCloses \/ WaitFails \/ WaitEnds

World ==
  \/ Answers \/ Announces \/ Closes_Td \/ ReceiverFails
  \/ \E c \in Closes, ok \in BOOLEAN : Responds(c, ok)

Next == Application \/ Receiving \/ Ticking \/ Unload \/ Waiting \/ World

Spec == Init /\ [][Next]_vars

-----------------------------------------------------------------------------
(***************************************************************************)
(* Properties.                                                             *)
(***************************************************************************)
Undecided == {"pending", "uncertain", "accepted"}

\* Once TDLib has rejected every shutdown, disposal sends a close of its own
\* instead of waiting for nothing, unless another shutdown threw before it was
\* sent while one of them was pending.
RetryPossible ==
  facade.shutdown_request_sent =>
    \/ \E c \in Closes : fate[c] \in Undecided
    \/ facade.fallback_sent
    \/ \E c \in facade.shutdown_requests : fate[c] = "unsent"

FallbackSent == fate[Fallback] \in {"unused", "unsent"} /\ fate'[Fallback] = "pending"

\* Disposal never closes TDLib a second time: not while a shutdown of the
\* application is pending or uncertain, nor after one was accepted.
NoDuplicateClose ==
  [][FallbackSent => \A c \in Shutdowns : fate'[c] \notin Undecided]_vars

\* When Lua code is back at the bottom after a call that ended normally, a
\* closed client is cleaned up and no request of it waits for an answer, at
\* whatever depth of callbacks the terminal update was met.
ClosedAtRest ==
  LuaRuns /\ frames = <<>> /\ Closed(facade) /\ ~escaped =>
    facade.state = "Cleaned" /\ entry.orphan /\ ~core.pending

\* Disposal that ended without timeout or exception leaves no client in TDLib.
UnloadLeavesNothing ==
  facade.outcome = "done" => td.phase \in {"none", "closed"}

\* Both ways a client ends, while the state is well-formed.
EndsClean == TypeOK /\ ClosedAtRest /\ UnloadLeavesNothing

\* While TDLib owes the terminal update of a client that a close was sent to, the
\* receiver has demand to read it, though the client was disposed of meanwhile.
ReadUntilClosed ==
  (\E c \in Closes : fate[c] \in {"pending", "accepted"})
     /\ ~entry.terminal /\ ~entry.failed => entry.lifecycle_demands > 0
=============================================================================
