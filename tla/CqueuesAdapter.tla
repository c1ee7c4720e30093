--------------------------- MODULE CqueuesAdapter ---------------------------
(***************************************************************************)
(* The cqueues adapter of tdlua_eventloop/cqueues.lua: one coroutine on a  *)
(* controller turns the driver and sleeps on two descriptors, the owner's  *)
(* readiness and one end of a socketpair that kicks it.  The controller is *)
(* the application's, which loops over it itself, or the adapter's own,    *)
(* stepped by run() and drain(); either way the adapter may be told to     *)
(* stop from a callback inside the turn, from another coroutine while its  *)
(* own is parked, or from outside any loop, and has then to retire: exit   *)
(* the coroutine, release the socketpair and call on_stop, in that order.  *)
(*                                                                         *)
(* The driver (EventLoopDriver) appears as the results of its turns.       *)
(***************************************************************************)
EXTENDS Naturals

CONSTANTS
  KickFails,        \* writing or reading the kick byte may fail
  ControllerFails,  \* the controller's loop may fail
  Nested            \* an own controller is used inside another one's coroutine

ASSUME AdapterAssumption == {KickFails, ControllerFails, Nested} \subseteq BOOLEAN

VARIABLES
  owns,     \* owns_controller
  a,        \* the other fields of the adapter
  co,       \* its coroutine: not created, attached, in tick(), in on_stall(),
            \* parked in poll(), or dead
  loop,     \* who is inside cq:loop(): nobody, the application's own loop,
            \* run() or drain(); "failed" after the controller failed
  ready,    \* the readiness descriptor is readable
  driver,   \* the driver: "live", or "stopped"
  owed,     \* history: a kick was signalled and no turn began since
  lost,     \* history: the byte of a stop could not be written
  misplaced \* history: an own controller was stopped from another coroutine

vars == <<owns, a, co, loop, ready, driver, owed, lost, misplaced>>

Adapter ==
  [stopped : BOOLEAN, started : BOOLEAN, drain_required : BOOLEAN,
   loop_running : BOOLEAN, released : BOOLEAN, pending_notify : BOOLEAN,
   retirement_scheduled : BOOLEAN, notified : BOOLEAN, hook : BOOLEAN,
   kick_pending : BOOLEAN, error : BOOLEAN, wake_at : BOOLEAN,
   registration_dead : {"nil", "true", "false"}]

TypeOK ==
  /\ owns \in BOOLEAN
  /\ a \in Adapter
  /\ co \in {"none", "attached", "turn", "notice", "parked", "dead"}
  /\ loop \in {"none", "host", "run", "drain", "failed"}
  /\ ready \in BOOLEAN /\ driver \in {"live", "stopped"}
  /\ owed \in BOOLEAN /\ lost \in BOOLEAN /\ misplaced \in BOOLEAN

\* new(): an adapter on the application's controller is attached at once.
Init ==
  /\ owns \in BOOLEAN
  /\ a = [stopped |-> FALSE, started |-> ~owns, drain_required |-> FALSE,
          loop_running |-> FALSE, released |-> FALSE, pending_notify |-> FALSE,
          retirement_scheduled |-> FALSE, notified |-> FALSE, hook |-> TRUE,
          kick_pending |-> FALSE, error |-> FALSE, wake_at |-> FALSE,
          registration_dead |-> "nil"]
  /\ co = IF owns THEN "none" ELSE "attached"
  /\ loop = "none" /\ ready = FALSE /\ driver = "live"
  /\ owed = FALSE /\ lost = FALSE /\ misplaced = FALSE

-----------------------------------------------------------------------------
(***************************************************************************)
(* The parts of retirement, as functions of the adapter's fields.          *)
(***************************************************************************)
Stepping == loop \in {"host", "run", "drain"}
InTurn == co \in {"turn", "notice"}

Released(x) ==
  [x EXCEPT !.loop_running = FALSE, !.released = TRUE, !.kick_pending = FALSE]

\* _signal_kick(): a byte that waits already stands for this one too.
Signalled(x) ==
  IF x.released \/ x.kick_pending THEN {x}
  ELSE {[x EXCEPT !.kick_pending = TRUE]} \cup (IF KickFails THEN {x} ELSE {})

Notified(x, c) ==
  [x EXCEPT !.notified = TRUE, !.pending_notify = FALSE,
            !.registration_dead = IF c \in {"none", "dead"} THEN "true" ELSE "false"]

\* The logical stop of _finish(), before it looks at who steps the controller.
Halted(x, reason) ==
  Signalled([x EXCEPT !.stopped = TRUE, !.hook = FALSE,
                      !.error = @ \/ reason = "error"])

Finished_ClosesAtOnce(x, reason, hard, running) ==
  IF x.stopped THEN {x}
  ELSE {[Released(s) EXCEPT !.pending_notify = owns] : s \in Halted(x, reason)}

\* _finish(), with the answer of cqueues.running(), which is true inside any
\* controller and not only the adapter's.
Finished(x, reason, hard, running) ==
  LET halted == Halted(x, reason)
  IN CASE x.stopped -> {x}
       [] ~x.stopped /\ ~x.started -> {Notified(Released(s), "none") : s \in halted}
       [] ~x.stopped /\ x.started /\ owns /\ ~running ->
            {[s EXCEPT !.drain_required = @ \/ ~hard, !.pending_notify = TRUE] : s \in halted}
       [] ~x.stopped /\ x.started /\ ~owns /\ ~x.loop_running ->
            {Released(s) : s \in halted}
       [] OTHER -> halted

\* _abort() outside the coroutine: the last possible turn.
Aborted(x) ==
  {LET r == Released(s) IN IF r.notified THEN r ELSE Notified(r, co)
     : s \in Finished([x EXCEPT !.error = TRUE], "error", TRUE, FALSE)}

DeliverPending(x) ==
  IF x.pending_notify /\ ~x.notified THEN Notified(x, co) ELSE x

ScheduleRetirement_OwnOnly(x) ==
  IF x.notified THEN x ELSE [x EXCEPT !.pending_notify = owns]

\* _schedule_retirement(), when the coroutine is on its way out.
ScheduleRetirement(x) ==
  CASE x.notified -> x
    [] ~x.notified /\ owns -> [x EXCEPT !.pending_notify = TRUE]
    [] OTHER -> [x EXCEPT !.retirement_scheduled = TRUE]

\* The adapter becomes x, and stops the driver when it has stopped.
Becomes(x) ==
  /\ a' = x
  /\ driver' = IF x.stopped THEN "stopped" ELSE driver
  /\ lost' = (lost \/ (x.stopped /\ ~a.stopped /\ ~x.released /\ ~x.kick_pending))

-----------------------------------------------------------------------------
(***************************************************************************)
(* Calls of the application: from a callback of the turn, from another     *)
(* coroutine while the adapter's is parked, or from outside the loop.      *)
(***************************************************************************)
MayCall == ~a.stopped /\ loop # "failed" /\ (Stepping => co \notin {"none", "dead"})

\* A call from outside the loop may still run in another controller's coroutine.
Elsewhere == IF loop = "none" /\ Nested THEN BOOLEAN ELSE {FALSE}

Ends(reason) ==
  \E elsewhere \in Elsewhere :
    /\ \E x \in Finished(a, reason, FALSE, Stepping \/ elsewhere) : Becomes(x)
    /\ misplaced' = (owns /\ a.started /\ ~InTurn /\ (Stepping \/ elsewhere))

Stop ==
  /\ MayCall
  /\ Ends("stopped")
  /\ UNCHANGED <<owns, co, loop, ready, owed>>

\* kick() of a driver that was stopped.
KickRefused ==
  /\ MayCall /\ driver = "stopped"
  /\ Ends("closed")
  /\ UNCHANGED <<owns, co, loop, ready, owed>>

\* The driver changed (kick(), add(), remove(), stop()): its hook signals.
Kick ==
  /\ MayCall /\ driver = "live"
  /\ driver' \in {"live", "stopped"}
  /\ a' = [a EXCEPT !.kick_pending = TRUE]
  /\ owed' = TRUE
  /\ UNCHANGED <<owns, co, loop, ready, lost, misplaced>>

\* ... and fails the adapter when it cannot.
KickUnwritable ==
  /\ MayCall /\ driver = "live" /\ KickFails /\ ~a.kick_pending
  /\ Ends("error")
  /\ UNCHANGED <<owns, co, loop, ready, owed>>

-----------------------------------------------------------------------------
(***************************************************************************)
(* The controller.                                                         *)
(***************************************************************************)

\* The application's own loop, which it may leave at any time.
HostLoops ==
  /\ ~owns /\ loop = "none" /\ (co # "dead" \/ a.retirement_scheduled)
  /\ loop' = "host"
  /\ UNCHANGED <<owns, a, co, ready, driver, owed, lost, misplaced>>

HostLeaves ==
  /\ loop = "host" /\ ~InTurn
  /\ loop' = "none"
  /\ UNCHANGED <<owns, a, co, ready, driver, owed, lost, misplaced>>

\* run() of an adapter that is not stopped.
Run ==
  /\ owns /\ loop = "none" /\ ~a.stopped
  /\ loop' = "run"
  /\ a' = [a EXCEPT !.started = TRUE]
  /\ co' = IF co = "none" THEN "attached" ELSE co
  /\ UNCHANGED <<owns, ready, driver, owed, lost, misplaced>>

\* drain(), or run() of a stopped adapter.
Drain ==
  /\ owns /\ loop = "none" /\ a.stopped
  /\ IF a.drain_required
     THEN /\ loop' = "drain" /\ a' = [a EXCEPT !.drain_required = FALSE]
          /\ UNCHANGED <<driver, lost>>
     ELSE Becomes(DeliverPending(a)) /\ UNCHANGED loop
  /\ UNCHANGED <<owns, co, ready, owed, misplaced>>

\* cq:loop() returned, as nothing is left to run or its time is over.
RunReturns ==
  /\ loop = "run" /\ co \in {"parked", "dead"}
  /\ Becomes(DeliverPending(a))
  /\ loop' = "none"
  /\ UNCHANGED <<owns, co, ready, owed, misplaced>>

\* The loop of drain() has stepped at least once, which runs a coroutine that
\* was woken.  One that is still parked is given up.
DrainReturns ==
  /\ loop = "drain" /\ (co = "dead" \/ (co = "parked" /\ ~a.kick_pending))
  /\ LET x == DeliverPending(a)
     IN IF ~x.error /\ ~x.released THEN \E y \in Aborted(x) : Becomes(y) ELSE Becomes(x)
  /\ loop' = "none"
  /\ UNCHANGED <<owns, co, ready, owed, misplaced>>

\* The loop failed: run() and drain() abort, and the application calls
\* controller_error().
LoopFails ==
  /\ ControllerFails /\ Stepping /\ ~InTurn
  /\ loop' = "failed"
  /\ \E x \in Aborted(a) : Becomes(x)
  /\ UNCHANGED <<owns, co, ready, owed, misplaced>>

-----------------------------------------------------------------------------
(***************************************************************************)
(* The adapter's coroutine.                                                *)
(***************************************************************************)

\* _loop() ends: release, then the retirement turn.
Exits(x) ==
  /\ Becomes(ScheduleRetirement(Released(x)))
  /\ co' = "dead"

TurnBegins(x) ==
  /\ a' = x
  /\ co' = "turn" /\ owed' = FALSE
  /\ UNCHANGED <<driver, lost>>

\* The controller resumes the coroutine for the first time.
Begins ==
  /\ Stepping /\ co = "attached"
  /\ \/ a.stopped /\ Exits(a) /\ UNCHANGED owed
     \/ ~a.stopped /\ TurnBegins([a EXCEPT !.loop_running = TRUE])
  /\ UNCHANGED <<owns, loop, ready, misplaced>>

\* poll() returned: a descriptor is readable or the time is over.  The byte is
\* read only if its descriptor is what poll() returned; a byte that cannot be read
\* is an error, of a stopped adapter too.
Wakes ==
  /\ Stepping /\ co = "parked" /\ (a.kick_pending \/ ready \/ a.wake_at)
  /\ \E byte \in IF ready \/ a.wake_at THEN {FALSE, a.kick_pending} ELSE {FALSE},
        unreadable \in BOOLEAN :
       LET x == [a EXCEPT !.kick_pending = byte, !.wake_at = FALSE,
                          !.error = @ \/ unreadable]
       IN /\ unreadable => KickFails /\ a.kick_pending /\ ~byte
          /\ \/ a.stopped /\ Exits(x) /\ UNCHANGED owed
             \/ ~a.stopped /\ ~unreadable /\ TurnBegins(x)
             \/ /\ ~a.stopped /\ unreadable
                /\ \E y \in Finished(x, "error", FALSE, TRUE) : Exits(y)
                /\ UNCHANGED owed
  /\ UNCHANGED <<owns, loop, ready, misplaced>>

\* The result of the turn ends the adapter, or a callback already has: tick()
\* raised, or returned "error", "closed" or a fatal stall, or the owner became
\* invalid.
TurnEnds ==
  /\ Stepping /\ InTurn
  /\ \/ a.stopped /\ Exits(a)
     \/ /\ ~a.stopped
        /\ \E reason \in {"closed", "stalled", "error"} :
             \E x \in Finished(a, reason, FALSE, TRUE) : Exits(x)
  /\ UNCHANGED <<owns, loop, ready, owed, misplaced>>

\* A stall that is not fatal: on_stall() runs.
Stalls ==
  /\ Stepping /\ co = "turn" /\ ~a.stopped /\ driver = "live"
  /\ co' = "notice"
  /\ UNCHANGED <<owns, a, loop, ready, driver, owed, lost, misplaced>>

Parks_DrainsKick ==
  /\ Stepping /\ InTurn /\ ~a.stopped /\ driver = "live"
  /\ \E timed \in BOOLEAN :
       /\ co = "notice" => timed
       /\ a' = [a EXCEPT !.wake_at = timed, !.kick_pending = FALSE]
  /\ co' = "parked" /\ ready' = FALSE
  /\ UNCHANGED <<owns, loop, driver, owed, lost, misplaced>>

\* The turn goes on: "again" and a stall set wake_at, and "sleep" does if there
\* is a deadline or the transport is unreliable.
Parks ==
  /\ Stepping /\ InTurn /\ ~a.stopped /\ driver = "live"
  /\ \E timed \in BOOLEAN :
       /\ co = "notice" => timed
       /\ a' = [a EXCEPT !.wake_at = timed]
  /\ co' = "parked" /\ ready' = FALSE
  /\ UNCHANGED <<owns, loop, driver, owed, lost, misplaced>>

\* The one-shot coroutine on the application's controller.
RetirementTurn ==
  /\ loop = "host" /\ a.retirement_scheduled
  /\ LET x == [a EXCEPT !.retirement_scheduled = FALSE]
     IN Becomes(IF x.notified THEN x ELSE Notified(x, co))
  /\ UNCHANGED <<owns, co, loop, ready, owed, misplaced>>

Rings ==
  /\ ~ready /\ driver = "live"
  /\ ready' = TRUE
  /\ UNCHANGED <<owns, a, co, loop, driver, owed, lost, misplaced>>

Calls == Stop \/ KickRefused \/ Kick \/ KickUnwritable
HostSteps == HostLoops \/ Run \/ Drain
Returns == HostLeaves \/ RunReturns \/ DrainReturns
Coroutine == Begins \/ Wakes \/ TurnEnds \/ Stalls \/ Parks \/ RetirementTurn

Next == Calls \/ HostSteps \/ Returns \/ LoopFails \/ Coroutine \/ Rings

Spec == Init /\ [][Next]_vars

\* The application loops again, or calls run() and drain() again, after it has
\* left; a loop that is entered again and again runs what can be run; cq:loop()
\* returns when nothing is attached.
Fairness ==
  /\ WF_vars(HostSteps) /\ WF_vars(DrainReturns) /\ WF_vars(RunReturns /\ co = "dead")
  /\ SF_vars(Begins) /\ SF_vars(Wakes) /\ WF_vars(TurnEnds \/ Parks)
  /\ SF_vars(RetirementTurn)

FairSpec == Spec /\ Fairness

-----------------------------------------------------------------------------
(***************************************************************************)
(* Properties.                                                             *)
(***************************************************************************)

\* The state is well-formed; and teardown first, then the callback: when on_stop
\* runs, the hook is off, the driver is stopped and, unless
\* stats().registration_dead says that the coroutine was given up, it has exited
\* and the socketpair is released.  It is given up only after a failure of the
\* controller or of the socketpair.
TeardownFirst ==
  TypeOK /\ (a.notified =>
    /\ a.stopped /\ ~a.hook /\ driver = "stopped"
    /\ a.registration_dead = "true" => a.released /\ co \in {"none", "dead"}
    /\ a.registration_dead = "false" => loop = "failed" \/ lost)

\* The socketpair is never closed under the parked coroutine of a controller
\* that still works, wherever the stop comes from, unless its byte was lost.
NotUnderPark ==
  [][a'.released /\ ~a.released /\ co = "parked" =>
       co' = "dead" \/ loop' = "failed" \/ lost]_vars

\* The order of a teardown, and the socketpair it must not close too early.
Orderly == []TeardownFirst /\ NotUnderPark

\* A kick, and a stop, that comes while the coroutine is parked or about to park
\* is not lost: the byte that wakes it waits in the socketpair.
KickNotLost ==
  co = "parked" /\ (owed \/ a.stopped) /\ ~a.released /\ ~lost => a.kick_pending

\* A stopped adapter retires and tells the host, whoever stopped it and from
\* wherever, unless the byte could not be written or an own controller was
\* stopped from another coroutine than its own.
Retires == a.stopped ~> a.notified \/ misplaced \/ lost
=============================================================================
