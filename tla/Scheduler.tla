------------------------------ MODULE Scheduler ------------------------------
(***************************************************************************)
(* SchedulerCore of include/tdlua/common/request_router.h: the Futures,    *)
(* Tasks and event handlers of one client, on the single thread that owns  *)
(* its Lua VM.  All the nondeterminism comes from Lua code: whatever runs  *)
(* inside a coroutine may wait, drop a handle, receive (which re-enters    *)
(* tick()), replace a handler or fail, and the C++ frames below it on the  *)
(* call stack keep what they had read before.  The stack is therefore part *)
(* of the state: `stack' holds the C++ loops that are in progress and the  *)
(* coroutines running above them, and only the top frame moves.            *)
(*                                                                         *)
(* A managed state is a number: the requests 1 .. MaxRequests in the order *)
(* of their ids, then one number per update that may become an EventTask.  *)
(* The coroutine of a task has the number of its state.                    *)
(***************************************************************************)
EXTENDS Integers, FiniteSets, Sequences

CONSTANTS
  Coroutines,      \* coroutines that are not Tasks
  Main, None,
  Kinds,           \* what Lua asks for: a subset of RequestKinds
  MaxRequests,     \* bound on requests
  MaxEvents,       \* bound on updates that have a handler
  MaxHandlers,     \* bound on registrations of the one event type
  MaxNested,       \* bound on tick() calls from inside a tick()
  ExternalResume,  \* Lua resumes coroutines that wait on tdlua
  CoroutinesFail   \* coroutines that are not Tasks raise errors

RequestKinds == {"Raw", "Future", "Task", "LegacyRequest", "LegacyAwait"}

Requests == 1 .. MaxRequests
EventIds == (MaxRequests + 1) .. (MaxRequests + MaxEvents)
States == Requests \cup EventIds
Threads == States \cup Coroutines \cup {Main}
Handlers == 1 .. MaxHandlers

\* A registration: what a coroutine waits for, whether it has a deadline, whether that
\* has passed, and the Task the coroutine runs, if any.
WaitRecord == [dependency : States, timed : BOOLEAN, expired : BOOLEAN,
               task : States \cup {None}]

ASSUME BoundsAssumption ==
  /\ MaxRequests \in Nat /\ MaxEvents \in Nat /\ MaxHandlers \in Nat /\ MaxNested \in Nat
  /\ Kinds \subseteq RequestKinds
ASSUME ThreadsAssumption ==
  /\ IsFiniteSet(Coroutines)
  /\ Coroutines \cap States = {} /\ Main \notin Coroutines \cup States
  /\ None \notin Threads \cup WaitRecord

VARIABLES
  core,   \* the members of SchedulerCore, with ManagedState in core.st
  stack,  \* the C++ and Lua frames of the owner thread, innermost last
  lua,    \* coroutine -> "fresh", "live" (started, not finished) or "dead"
  lost    \* history: waiters that an exception prevented wake() from reaching

vars == <<core, stack, lua, lost>>

-----------------------------------------------------------------------------
(* Managed states. *)

NoState == [kind |-> "none", status |-> "Pending", handles |-> 0, waiters |-> 0,
            observed |-> FALSE, reports |-> 0, teardown |-> FALSE, handler |-> 0]

isTerminalState(c, x) == c.st[x].status \in {"Resolved", "Done", "Failed"}
isTaskState(c, x) == c.st[x].kind \in {"Task", "EventTask", "LegacyRequest"}

retireState_Observed(c, x) ==
  LET s == c.st[x]
      abandoned == s.kind = "Task" /\ s.status = "Failed" /\ ~s.teardown /\ s.reports = 0
      n == IF abandoned THEN 1 ELSE 0
  IN IF isTerminalState(c, x) /\ s.handles = 0 /\ s.waiters = 0
     THEN [c EXCEPT !.live = @ \ {x}, !.errors = @ + n, !.st[x].reports = @ + n]
     ELSE c

\* A terminal state that nobody holds is forgotten; a Task whose failure nobody
\* saw hands it to the scheduler.  `reports' counts those errors, so it stands
\* for failure_reported too.
retireState(c, x) ==
  LET s == c.st[x]
      collected == isTerminalState(c, x) /\ s.handles = 0 /\ s.waiters = 0
      abandoned == /\ s.kind = "Task" /\ s.status = "Failed"
                   /\ ~s.teardown /\ ~s.observed /\ s.reports = 0
      n == IF abandoned THEN 1 ELSE 0
  IN IF collected
     THEN [c EXCEPT !.live = @ \ {x}, !.errors = @ + n, !.st[x].reports = @ + n]
     ELSE c

createState(c, x, kind, handles, handler) ==
  [c EXCEPT !.st[x] = [NoState EXCEPT !.kind = kind, !.handles = handles,
                                      !.handler = handler],
            !.live = @ \cup {x},
            !.pending = IF kind = "EventTask" THEN @ ELSE @ \cup {x},
            !.pending_requests =
              IF kind \in {"EventTask", "Raw"} THEN @ ELSE @ + 1]

failState(c, x) ==
  IF isTerminalState(c, x) THEN c ELSE [c EXCEPT !.st[x].status = "Failed"]

untrackPendingRequest(c, x) ==
  [c EXCEPT !.pending = @ \ {x},
            !.pending_requests = IF c.st[x].kind = "Raw" THEN @ ELSE @ - 1]

\* The submission threw: the request disappears with its state.
cancel(c, x) == [untrackPendingRequest(c, x) EXCEPT !.live = @ \ {x}]

releaseHandle(c, x) == retireState([c EXCEPT !.st[x].handles = @ - 1], x)

-----------------------------------------------------------------------------
(* Event handlers: serial registrations keep the updates that arrive while a *)
(* task of theirs is unfinished.                                             *)

startEventTask(c, x, h) ==
  [createState(c, x, "EventTask", 0, h) EXCEPT !.ready = Append(@, x)]

finishSerializedEvent(c, x) ==
  LET h == c.st[x].handler
      r == c.handler[h]
  IN IF c.st[x].kind # "EventTask" \/ r.concurrent THEN c
     ELSE IF r.removed \/ ~c.events_enabled
          THEN [c EXCEPT !.handler[h] = [@ EXCEPT !.active = FALSE, !.queue = <<>>]]
     ELSE IF r.queue = <<>> THEN [c EXCEPT !.handler[h].active = FALSE]
     ELSE startEventTask([c EXCEPT !.handler[h].queue = Tail(r.queue)], Head(r.queue), h)

bindDeferredEvent_Overlaps(c, x) ==
  IF ~c.events_enabled \/ c.current = 0 THEN c ELSE startEventTask(c, x, c.current)

bindDeferredEvent(c, x) ==
  LET h == c.current
      r == c.handler[h]
  IN IF ~c.events_enabled \/ h = 0 THEN c
     ELSE IF ~r.concurrent /\ r.active
          THEN [c EXCEPT !.handler[h].queue = Append(r.queue, x)]
     ELSE startEventTask([c EXCEPT !.handler[h].active = ~r.concurrent], x, h)

\* releaseEventRegistration(), and the map entry with it.
removeEventRegistration(c) ==
  IF c.current = 0 THEN c
  ELSE [c EXCEPT !.handler[c.current] = [@ EXCEPT !.removed = TRUE, !.queue = <<>>],
                 !.current = 0]

-----------------------------------------------------------------------------
(* Waits. *)

registration(c, t) ==
  IF c.waiters[t] # None THEN c.waiters[t] ELSE c.notifications[t]

waitersOf(c, x) ==
  {t \in Threads : registration(c, t) # None /\ registration(c, t).dependency = x}

register(c, t, x, timed) ==
  [c EXCEPT !.waiters[t] = [dependency |-> x, timed |-> timed, expired |-> FALSE,
                            task |-> IF t \in c.running_tasks THEN t ELSE None],
            !.waitBindings = @ \cup {t},
            !.st[x].waiters = @ + 1]

removeRegistration_KeepsBinding(c, t) ==
  IF registration(c, t) = None THEN c
  ELSE LET x == registration(c, t).dependency IN
       retireState([c EXCEPT !.waiters[t] = None, !.notifications[t] = None,
                             !.waitBindings = IF c.waiters[t] = None THEN @ ELSE @ \ {t},
                             !.st[x].waiters = @ - 1], x)

removeRegistration(c, t) ==
  IF registration(c, t) = None THEN c
  ELSE LET x == registration(c, t).dependency IN
       retireState([c EXCEPT !.waiters[t] = None,
                             !.notifications[t] =
                               IF c.waiters[t] # None THEN @ ELSE None,
                             !.waitBindings = @ \ {t},
                             !.st[x].waiters = @ - 1], x)

\* The requests in S as a sequence, in the order of their ids.
ascending(S) ==
  [i \in 1 .. Cardinality(S) |-> CHOOSE x \in S : Cardinality({y \in S : y <= x}) = i]

\* Everything pending fails, in the order of the ids.
failPending(c) ==
  [c EXCEPT !.st = [x \in States |->
                      IF x \notin c.pending THEN c.st[x]
                      ELSE [failState(c, x).st[x] EXCEPT !.teardown = TRUE]],
            !.ready = @ \o ascending(c.pending),
            !.pending = {}, !.pending_requests = 0]

\* Phase one of closing: nothing here enters Lua.  Whoever waits for something that
\* is over by now is moved to notifications_ for the next drain.
detachTransport(c) ==
  LET d == [failPending(removeEventRegistration(c)) EXCEPT
              !.detach_after_drain = FALSE, !.pump = FALSE,
              !.events_enabled = FALSE, !.deferred_events = <<>>]
      moved == {t \in Threads : /\ d.waiters[t] # None
                                /\ isTerminalState(d, d.waiters[t].dependency)}
  IN [d EXCEPT !.notifications =
                 [t \in Threads |-> IF t \in moved THEN c.waiters[t] ELSE @[t]],
               !.waiters = [t \in Threads |-> IF t \in moved THEN None ELSE @[t]]]

-----------------------------------------------------------------------------
(* Frames. *)

Top == stack[Len(stack)]
Pop(s) == SubSeq(s, 1, Len(s) - 1)
Swap(s, f) == [s EXCEPT ![Len(s)] = f]
GoTo(place) == Swap(stack, [Top EXCEPT !.at = place])

\* A coroutine: who entered it, the Task it runs, and the wait that has ended.
LuaFrame(t, by, task, wait, outcome, quiet) ==
  [at |-> "lua", thread |-> t, by |-> by, task |-> task, wait |-> wait,
   outcome |-> outcome, quiet |-> quiet]
\* wake(x) and what its callers do next: retire x, then maybe throw.
WakeFrame(c, x, after) ==
  [at |-> "wake", state |-> x, todo |-> waitersOf(c, x), after |-> after]
\* tick(), at its first loop.  "drain", "bind" and "notify_detached" are inside the
\* try block, with draining_ set.
TickFrame == [at |-> "notify", todo |-> {}]
Draining == {"drain", "bind", "notify_detached"}
Ticking == Draining \cup {"notify", "expire"}
WaitFrame(x) == [at |-> "wait_tick", state |-> x]
Waiting == {"wait_tick", "wait_drive"}

onStack == {stack[i].thread : i \in {j \in DOMAIN stack : stack[j].at = "lua"}}
\* The Lua code that may act now.
runsLua == Top.at = "lua"

\* An exception: it stops at a coroutine, whose C function turns it into a Lua
\* error, or at the handler of tick(), which fails stranded tasks and rethrows.
\* On its way it leaves driveStep() and returns the lease of a blocking wait, of
\* which there is one at most: that of the main thread.
catches(f) == f.at \in {"lua"} \cup Draining

Throw(c, s) ==
  LET k == CHOOSE i \in DOMAIN s :
             catches(s[i]) /\ \A j \in DOMAIN s : catches(s[j]) => j <= i
      left == {s[i] : i \in (k + 1) .. Len(s)}
      leases == {f.state : f \in {g \in left : g.at \in Waiting}}
      c1 == IF \E f \in left : f.at \in {"pump", "drive_end"}
            THEN [c EXCEPT !.drive_active = FALSE] ELSE c
      c2 == IF leases = {} THEN c1 ELSE releaseHandle(c1, CHOOSE x \in leases : TRUE)
      c3 == IF c2.detach_after_drain THEN detachTransport(c2) ELSE c2
  IN /\ lost' = lost \cup UNION {f.todo \cap waitersOf(c, f.state) :
                               f \in {g \in left : g.at = "wake"}}
     /\ IF s[k].at = "lua" THEN core' = c2 /\ stack' = SubSeq(s, 1, k)
        ELSE /\ core' = [c3 EXCEPT !.draining = FALSE]
             /\ stack' = Append(SubSeq(s, 1, k - 1),
                                [at |-> "strand", todo |-> c3.running_tasks])

\* wake(x) on top of s; without waiters it is over at once.
wake(c, s, x, after) ==
  IF after = "none" /\ waitersOf(c, x) = {} THEN core' = retireState(c, x) /\ stack' = s
  ELSE core' = c /\ stack' = Append(s, WakeFrame(c, x, after))

\* The step raises no exception.
NoThrow == lost' = lost \cap {t \in Threads : core'.waiters[t] # None}

-----------------------------------------------------------------------------
(* resume() and finishTask(): how control enters a coroutine and leaves it.  *)

\* Nothing happens unless the coroutine still waits for this very state.
resume(c, s, t, x, outcome) ==
  LET r == registration(c, t)
      d == IF outcome = "Failed" THEN [c EXCEPT !.st[x].observed = TRUE] ELSE c
  IN IF r = None \/ r.dependency # x THEN core' = c /\ stack' = s
     ELSE /\ core' = removeRegistration(d, t)
          /\ stack' = Append(s, LuaFrame(t, "resume", r.task, r, outcome,
                               outcome = "Failed" /\ c.st[x].teardown))

outcomeOf(c, x) == IF c.st[x].status = "Failed" THEN "Failed" ELSE "Success"

finishTask_NoWake(c, s, x, failed) ==
  LET d == finishSerializedEvent(
             [c EXCEPT !.running_tasks = @ \ {x},
                       !.st[x].status = IF failed THEN "Failed" ELSE "Done"], x)
  IN core' = (IF isTerminalState(c, x) THEN c ELSE retireState(d, x)) /\ stack' = s

\* A running task ends; the failure of an event handler is an error for tick().
endTask(c, x, failed) ==
  LET n == IF failed /\ c.st[x].kind = "EventTask" THEN 1 ELSE 0 IN
  [c EXCEPT !.running_tasks = @ \ {x}, !.errors = @ + n,
            !.st[x].status = IF failed THEN "Failed" ELSE "Done",
            !.st[x].reports = @ + n]

\* `failed' covers an error and a yield without a managed dependency.
finishTask(c, s, x, failed) ==
  LET legacy == c.st[x].kind = "LegacyRequest" /\ failed
      d == finishSerializedEvent(endTask(c, x, failed), x)
  IN IF isTerminalState(c, x) THEN core' = c /\ stack' = s
     ELSE wake(d, s, x, IF legacy THEN "finish" ELSE "none")

-----------------------------------------------------------------------------
(* What Lua code does. *)

\* request(), task(), future(), send(): the submission may throw.  Of these a
\* Future and a Task have a handle.
Create(kind, submitted) ==
  /\ runsLua /\ core.pump /\ ~core.detach_after_drain
  /\ core.next <= MaxRequests /\ kind # "LegacyAwait"
  /\ LET x == core.next
         n == IF kind \in {"Future", "Task"} /\ submitted THEN 1 ELSE 0
         c == createState([core EXCEPT !.next = @ + 1], x, kind, n, 0)
     IN core' = IF submitted THEN c ELSE cancel(c, x)
  /\ NoThrow /\ UNCHANGED <<stack, lua>>

\* await() is a request and the wait for it in one call.
Await(submitted) ==
  /\ runsLua /\ Top.thread # Main /\ core.pump /\ ~core.detach_after_drain
  /\ core.next <= MaxRequests /\ "LegacyAwait" \in Kinds
  /\ LET x == core.next
         c == createState([core EXCEPT !.next = @ + 1], x, "LegacyAwait", 0, 0)
     IN IF submitted
        THEN core' = register(c, Top.thread, x, FALSE) /\ stack' = Pop(stack)
        ELSE core' = cancel(c, x) /\ stack' = stack
  /\ NoThrow /\ UNCHANGED lua

visible(x) == core.st[x].handles > 0

\* wait() on something that is over returns its result or raises its error.
WaitDone(x) ==
  /\ runsLua /\ visible(x) /\ isTerminalState(core, x)
  /\ core.st[x].status = "Failed" /\ ~core.st[x].observed
  /\ core' = [core EXCEPT !.st[x].observed = TRUE]
  /\ NoThrow /\ UNCHANGED <<stack, lua>>

\* wait() in a coroutine: beginYield().
Wait(x, timed) ==
  /\ runsLua /\ Top.thread # Main /\ visible(x) /\ ~isTerminalState(core, x)
  /\ core' = register(core, Top.thread, x, timed)
  /\ stack' = Pop(stack)
  /\ NoThrow /\ UNCHANGED lua

\* wait() in the main thread blocks, with a lease on the state.
WaitSynchronously(x) ==
  /\ runsLua /\ Top.thread = Main /\ visible(x) /\ ~isTerminalState(core, x)
  /\ core' = [core EXCEPT !.st[x].handles = @ + 1]
  /\ stack' = Append(stack, WaitFrame(x))
  /\ NoThrow /\ UNCHANGED lua

\* The handle is collected.
Drop(x) ==
  /\ runsLua /\ visible(x)
  /\ core.st[x].handles > Cardinality({i \in DOMAIN stack :
       stack[i].at \in Waiting /\ stack[i].state = x})
  /\ core' = releaseHandle(core, x)
  /\ NoThrow /\ UNCHANGED <<stack, lua>>

onEvent(concurrent) ==
  /\ runsLua /\ core.handlers < MaxHandlers /\ core.events_enabled
  /\ LET h == core.handlers + 1 IN
     core' = [removeEventRegistration(core) EXCEPT !.handlers = h, !.current = h,
                !.handler[h].concurrent = concurrent]
  /\ NoThrow /\ UNCHANGED <<stack, lua>>

offEvent ==
  /\ runsLua /\ core.current # 0
  /\ core' = removeEventRegistration(core)
  /\ NoThrow /\ UNCHANGED <<stack, lua>>

\* coroutine.resume() by Lua.  A coroutine that waits on tdlua is told so with
\* an error and its Task fails.
ResumeCoroutine(t) ==
  /\ runsLua /\ t \notin onStack \cup {Main}
  /\ lua[t] = "live" \/ (lua[t] = "fresh" /\ t \in Coroutines)
  /\ lua' = [lua EXCEPT ![t] = "live"]
  /\ LET s == Append(stack, LuaFrame(t, "lua", None, None, "none", FALSE))
         x == registration(core, t).task
         c == removeRegistration(core, t)
         d == failState([c EXCEPT !.running_tasks = @ \ {x}], x)
     IN IF t \notin core.waitBindings THEN core' = core /\ stack' = s
        ELSE /\ ExternalResume
             /\ IF x = None THEN core' = c /\ stack' = s
                ELSE wake(d, s, x, "none")
  /\ NoThrow

\* The coroutine ends.  `same' says that it raised the error it was resumed
\* with, which excuses it if that came from closing the client.
Return(failed, same) ==
  /\ runsLua /\ Top.thread # Main
  /\ same => failed /\ Top.quiet
  /\ lua' = [lua EXCEPT ![Top.thread] = "dead"]
  /\ LET s == Pop(stack)
         x == Top.task
         c == IF same THEN [core EXCEPT !.st[x].teardown = TRUE] ELSE core
     IN IF Top.by = "lua" THEN core' = core /\ stack' = s /\ NoThrow
        ELSE IF x # None THEN finishTask(c, s, x, failed) /\ NoThrow
        ELSE /\ failed => CoroutinesFail
             /\ IF failed /\ ~same THEN Throw(core, s)
                ELSE core' = core /\ stack' = s /\ NoThrow

-----------------------------------------------------------------------------
(* The transport, and dispatchRoute() for what it delivers. *)

Items == [kind : {"none", "closed", "failure"}] \cup
         [kind : {"response"}, id : Requests] \cup [kind : {"update"}]

deliverable(item) ==
  \/ item.kind = "none"
  \/ /\ core.pump /\ ~core.detach_after_drain
     /\ item.kind = "response" => item.id \in core.pending
     /\ item.kind = "update" => core.event \in EventIds

\* A request that runs a callback stays Pending until the callback ends.
routeResponse(c, x) ==
  LET d == untrackPendingRequest(c, x)
      to(status, r) == [d EXCEPT !.st[x].status = status, !.ready = r]
  IN IF d.st[x].kind = "Raw" THEN retireState(to("Done", d.ready), x)
     ELSE to(IF isTaskState(d, x) THEN "Pending" ELSE "Resolved",
             Append(d.ready, x))

dispatch(c, item) ==
  CASE item.kind = "response" -> routeResponse(c, item.id)
    [] item.kind = "update" ->
         LET d == [c EXCEPT !.event = @ + 1] IN
         IF c.current # 0 /\ c.events_enabled
         THEN [d EXCEPT !.deferred_events = Append(@, c.event)] ELSE d
    [] item.kind = "closed" -> [c EXCEPT !.detach_after_drain = TRUE]
    [] item.kind = "failure" -> detachTransport(c)
    [] OTHER -> c

\* Dispatch one item and drain; a receiver failure is thrown after the drain.
pumpOnto(s, item) ==
  /\ core' = dispatch(core, item)
  /\ stack' = s \o (IF item.kind = "failure" THEN <<[at |-> "throw"]>> ELSE <<>>)
                \o <<TickFrame>>

receive(item) ==
  /\ runsLua /\ Cardinality({i \in DOMAIN stack : stack[i].at \in Ticking}) <= MaxNested
  /\ deliverable(item)
  /\ pumpOnto(stack, item)
  /\ NoThrow /\ UNCHANGED lua

-----------------------------------------------------------------------------
(* tick() *)

\* A nested tick() ends where the outer one drains.
enterDrain(c, s) ==
  IF c.draining THEN core' = c /\ stack' = Pop(s)
  ELSE /\ core' = [c EXCEPT !.draining = TRUE]
       /\ stack' = Swap(s, [at |-> "drain", todo |-> {}])

\* drainDetachedNotifications(), at either of its two places; after the first
\* the list of those whose deadline has passed is made.
DrainNotifications ==
  /\ Top.at \in {"notify", "notify_detached"}
  /\ IF \E t \in Threads : core.notifications[t] # None
     THEN \E t \in Threads :
            LET x == core.notifications[t].dependency IN
            /\ core.notifications[t] # None
            /\ resume(core, stack, t, x, outcomeOf(core, x))
     ELSE IF Top.at = "notify_detached" THEN core' = core /\ stack' = GoTo("drain")
     ELSE \E passed \in SUBSET {t \in Threads : core.waiters[t] # None
                                                /\ core.waiters[t].timed} :
            LET c == [core EXCEPT !.waiters =
                        [t \in Threads |-> IF t \in passed
                           THEN [core.waiters[t] EXCEPT !.expired = TRUE] ELSE @[t]]]
                due == {t \in Threads : c.waiters[t] # None /\ c.waiters[t].expired}
            IN IF due = {} THEN enterDrain(c, stack)
               ELSE core' = c /\ stack' = Swap(stack, [at |-> "expire", todo |-> due])
  /\ NoThrow /\ UNCHANGED lua

DrainExpired_NoRecheck ==
  /\ Top.at = "expire"
  /\ IF Top.todo = {} THEN enterDrain(core, stack)
     ELSE \E t \in Top.todo :
            LET s == Swap(stack, [Top EXCEPT !.todo = @ \ {t}])
                w == core.waiters[t]
            IN IF w # None THEN resume(core, s, t, w.dependency, "Timeout")
               ELSE core' = core /\ stack' = s
  /\ NoThrow /\ UNCHANGED lua

\* drainExpiredWaiters(): the deadline is compared again, because a coroutine
\* resumed meanwhile may wait for something else.
DrainExpired ==
  /\ Top.at = "expire"
  /\ IF Top.todo = {} THEN enterDrain(core, stack)
     ELSE \E t \in Top.todo :
            LET s == Swap(stack, [Top EXCEPT !.todo = @ \ {t}])
                w == core.waiters[t]
            IN IF w # None /\ w.timed /\ w.expired
               THEN resume(core, s, t, w.dependency, "Timeout")
               ELSE core' = core /\ stack' = s
  /\ NoThrow /\ UNCHANGED lua

\* runTask(): a state that is not Pending any more does not run.
runTask(c, s, x) ==
  IF c.st[x].status # "Pending" THEN core' = c /\ stack' = s /\ lua' = lua
  ELSE /\ core' = [c EXCEPT !.st[x].status = "Running",
                            !.running_tasks = @ \cup {x}]
       /\ stack' = Append(s, LuaFrame(x, "run", x, None, "none", FALSE))
       /\ lua' = [lua EXCEPT ![x] = "live"]

DrainReady ==
  /\ Top.at = "drain" /\ core.ready # <<>>
  /\ LET x == Head(core.ready)
         c == [core EXCEPT !.ready = Tail(@)]
     IN IF isTerminalState(c, x) THEN wake(c, stack, x, "none") /\ lua' = lua
        ELSE runTask(c, stack, x)
  /\ NoThrow

\* drainDeferredEvents(): all of them, before anything that has become ready.
DrainDeferred ==
  /\ Top.at = "bind" \/ (Top.at = "drain" /\ core.ready = <<>>)
  /\ core.deferred_events # <<>>
  /\ core' = bindDeferredEvent([core EXCEPT !.deferred_events = Tail(@)],
                               Head(core.deferred_events))
  /\ stack' = GoTo(IF Len(core.deferred_events) = 1 THEN "drain" ELSE "bind")
  /\ NoThrow /\ UNCHANGED lua

\* The rest of the loop of tick() and what follows it: the client is detached if
\* that was asked for, and one error is taken to be thrown.
DrainRest ==
  /\ Top.at = "drain" /\ core.ready = <<>> /\ core.deferred_events = <<>>
  /\ IF core.detach_after_drain
     THEN core' = detachTransport(core) /\ stack' = GoTo("notify_detached")
     ELSE IF core.errors = 0
          THEN core' = [core EXCEPT !.draining = FALSE] /\ stack' = Pop(stack)
     ELSE /\ core' = [core EXCEPT !.draining = FALSE, !.errors = @ - 1]
          /\ stack' = Swap(stack, [at |-> "strand", todo |-> core.running_tasks])
  /\ NoThrow /\ UNCHANGED lua

\* failStrandedTasks(), with failTaskResume() for a Task that waits for nothing.
FailStranded ==
  /\ Top.at = "strand" /\ Top.todo # {}
  /\ \E x \in Top.todo :
       LET s == Swap(stack, [Top EXCEPT !.todo = @ \ {x}])
           c == [core EXCEPT !.running_tasks = @ \ {x}]
           d == finishSerializedEvent(endTask(core, x, TRUE), x)
       IN IF x \notin core.running_tasks \/ x \in core.waitBindings
          THEN core' = core /\ stack' = s
          ELSE IF isTerminalState(core, x) THEN core' = c /\ stack' = s
          ELSE wake(d, s, x,
                    IF core.st[x].kind = "LegacyRequest" THEN "setup" ELSE "none")
  /\ NoThrow /\ UNCHANGED lua

\* The exception that tick() held back, or that of the receiver.
Rethrow ==
  /\ Top.at = "throw" \/ (Top.at = "strand" /\ Top.todo = {})
  /\ Throw(core, stack)
  /\ UNCHANGED lua

\* wake(): the coroutines are those that waited when it began.
Wake ==
  /\ Top.at = "wake" /\ Top.todo # {}
  /\ \E t \in Top.todo :
       resume(core, Swap(stack, [Top EXCEPT !.todo = @ \ {t}]), t, Top.state,
              outcomeOf(core, Top.state))
  /\ NoThrow /\ UNCHANGED lua

\* The callback error of a legacy request surfaces in whoever drives.
WakeDone ==
  /\ Top.at = "wake" /\ Top.todo = {}
  /\ LET c == retireState(core, Top.state)
         d == IF Top.after = "finish" THEN [c EXCEPT !.deferred_events = <<>>] ELSE c
     IN IF Top.after = "none" THEN core' = c /\ stack' = Pop(stack) /\ NoThrow
        ELSE Throw(d, stack)
  /\ UNCHANGED lua

-----------------------------------------------------------------------------
(* waitSynchronously() and driveStep() *)

\* A blocking wait ticks, then leaves (the state is over, or its budget is
\* used up), fails for want of a transport, or drives.
WaitTick ==
  /\ Top.at = "wait_tick" /\ ~isTerminalState(core, Top.state)
  /\ stack' = Append(GoTo("wait_drive"), TickFrame)
  /\ UNCHANGED <<core, lua, lost>>

WaitEnds ==
  /\ Top.at \in Waiting
  /\ Top.at = "wait_tick" => isTerminalState(core, Top.state)
  /\ LET x == Top.state
         c == IF core.st[x].status = "Failed"
              THEN [core EXCEPT !.st[x].observed = TRUE] ELSE core
     IN core' = releaseHandle(c, x)
  /\ stack' = Pop(stack)
  /\ NoThrow /\ UNCHANGED lua

WaitDrives ==
  /\ Top.at = "wait_drive" /\ ~isTerminalState(core, Top.state)
  /\ IF ~core.pump THEN Throw(core, stack)
     ELSE /\ IF core.drive_active THEN core' = core /\ stack' = GoTo("wait_tick")
             ELSE /\ core' = [core EXCEPT !.drive_active = TRUE]
                  /\ stack' = GoTo("wait_tick") \o <<[at |-> "pump"], TickFrame>>
          /\ NoThrow
  /\ UNCHANGED lua

\* pumpClient(): a client that is closed is not drained.
Pump(item) ==
  /\ Top.at = "pump"
  /\ deliverable(item)
  /\ IF core.pump /\ ~core.detach_after_drain
     THEN pumpOnto(Append(GoTo("drive_end"), TickFrame), item)
     ELSE core' = core /\ stack' = IF core.pump THEN Append(GoTo("drive_end"), TickFrame)
                                   ELSE GoTo("drive_end")
  /\ NoThrow /\ UNCHANGED lua

DriveEnds ==
  /\ Top.at = "drive_end"
  /\ core' = [core EXCEPT !.drive_active = FALSE]
  /\ stack' = Pop(stack)
  /\ NoThrow /\ UNCHANGED lua

-----------------------------------------------------------------------------
Init ==
  /\ core = [st |-> [x \in States |-> NoState], live |-> {}, next |-> 1,
             pending |-> {}, pending_requests |-> 0,
             waiters |-> [t \in Threads |-> None],
             notifications |-> [t \in Threads |-> None],
             waitBindings |-> {}, running_tasks |-> {},
             ready |-> <<>>, deferred_events |-> <<>>, event |-> MaxRequests + 1,
             handler |-> [h \in Handlers |-> [concurrent |-> TRUE, active |-> FALSE,
                                              removed |-> FALSE, queue |-> <<>>]],
             handlers |-> 0, current |-> 0, events_enabled |-> TRUE, errors |-> 0,
             pump |-> TRUE, detach_after_drain |-> FALSE,
             draining |-> FALSE, drive_active |-> FALSE]
  /\ stack = <<LuaFrame(Main, "main", None, None, "none", FALSE)>>
  /\ lua = [t \in Threads |-> IF t = Main THEN "live" ELSE "fresh"]
  /\ lost = {}

LuaStep ==
  \/ \E kind \in Kinds, submitted \in BOOLEAN : Create(kind, submitted)
  \/ \E submitted \in BOOLEAN : Await(submitted)
  \/ \E x \in States : \/ WaitDone(x) \/ WaitSynchronously(x) \/ Drop(x)
                       \/ \E timed \in BOOLEAN : Wait(x, timed)
  \/ \E concurrent \in BOOLEAN : onEvent(concurrent)
  \/ offEvent
  \/ \E t \in Threads : ResumeCoroutine(t)
  \/ \E failed, same \in BOOLEAN : Return(failed, same)
  \/ \E item \in Items : receive(item)

CoreStep ==
  \/ DrainNotifications \/ DrainExpired
  \/ DrainReady \/ DrainDeferred \/ DrainRest
  \/ FailStranded \/ Rethrow
  \/ Wake \/ WakeDone
  \/ WaitTick \/ WaitEnds \/ WaitDrives
  \/ (\E item \in Items : Pump(item)) \/ DriveEnds

Next == LuaStep \/ CoreStep

Spec == Init /\ [][Next]_vars

-----------------------------------------------------------------------------
(* Properties. *)

TypeOK ==
  /\ \A x \in States :
       /\ core.st[x].kind \in RequestKinds \cup {"none", "EventTask"}
       /\ core.st[x].status \in {"Pending", "Running", "Resolved", "Done", "Failed"}
       /\ core.st[x].handles \in 0 .. 2 /\ core.st[x].reports \in 0 .. 1
  /\ core.pending \subseteq core.live /\ core.live \subseteq States
  /\ core.running_tasks \subseteq States
  /\ core.pending_requests \in 0 .. MaxRequests
  /\ core.errors \in 0 .. Cardinality(States)
  /\ Len(stack) > 0 /\ stack[1].at = "lua" /\ stack[1].thread = Main

beingRetired(x) ==
  \/ \E i \in DOMAIN core.ready : core.ready[i] = x
  \/ \E i \in DOMAIN stack : stack[i].at = "wake" /\ stack[i].state = x

\* The three indexes of waits and the counter in each state agree, whatever
\* tick, close, expiry or outside resumption did to them: a coroutine waits for
\* one thing, in one index, with its binding; nothing that runs is registered,
\* and a state is kept exactly while somebody waits for it.
RegistrationsAgree ==
  /\ \A t \in Threads : core.waiters[t] = None \/ core.notifications[t] = None
  /\ core.waitBindings = {t \in Threads : registration(core, t) # None}
  /\ core.waitBindings \cap onStack = {}
  /\ \A x \in States : /\ core.st[x].waiters = Cardinality(waitersOf(core, x))
                       /\ core.st[x].waiters > 0 => x \in core.live
  /\ \A x \in core.live :
       /\ isTerminalState(core, x)
       /\ core.st[x].handles = 0 /\ core.st[x].waiters = 0
       => beingRetired(x)

\* pending_requests, by which loop() decides to go on, counts the unanswered
\* requests that are not raw, through failed submissions, answers and close.
PendingCounted ==
  core.pending_requests =
    Cardinality({x \in core.pending : core.st[x].kind # "Raw"})

\* A Task that is Running is being run or waits: none is left without a way on.
RunningHasOwner ==
  \A x \in States :
    core.st[x].status = "Running" =>
      x \in onStack \/ x \in core.waitBindings

\* What the scheduler decides by is right, whatever Lua code ran in between.
Consistent == TypeOK /\ RegistrationsAgree /\ PendingCounted /\ RunningHasOwner

\* A coroutine is told the truth about what it waited for: success and failure
\* only of that state and after it ended so, a timeout only if it had asked for
\* one and the deadline passed, although the list of coroutines to resume may
\* be older than their present wait.
HonestOutcome ==
  \A i \in DOMAIN stack :
    stack[i].at = "lua" /\ stack[i].by = "resume" =>
      LET w == stack[i].wait
          s == core.st[w.dependency]
      IN CASE stack[i].outcome = "Success" -> s.status \in {"Resolved", "Done"}
           [] stack[i].outcome = "Failed" -> s.status = "Failed" /\ s.observed
           [] stack[i].outcome = "Timeout" -> w.timed /\ w.expired

\* wake(x) is about to reach t, or will be called for x.
beingWoken(t, x) ==
  \/ \E i \in DOMAIN core.ready : core.ready[i] = x
  \/ \E i \in DOMAIN stack :
       stack[i].at = "wake" /\ stack[i].state = x /\ t \in stack[i].todo

\* Nobody waits for something that is over without being on the way to be
\* resumed, except those whom an exception out of wake() has skipped; them
\* no tick() resumes, only a detach of their client, which notifies them.
WaitersReached ==
  \A t \in Threads :
    core.waiters[t] # None /\ isTerminalState(core, core.waiters[t].dependency) =>
      beingWoken(t, core.waiters[t].dependency) \/ t \in lost

\* CHANGELOG.md:219: await(), and with it the wait for a Future, "suspends a
\* coroutine until its response arrives".  The same without the exception.
NoWaiterForgotten ==
  \A t \in Threads :
    core.waiters[t] # None /\ isTerminalState(core, core.waiters[t].dependency) =>
      beingWoken(t, core.waiters[t].dependency)

\* CHANGELOG.md:275: the failure of a callback is reported once if nobody has seen
\* it: not twice, not after somebody has waited for it, and never lost with the
\* state, unless closing the client caused it.
FailureReportedOnce ==
  \A x \in States :
    LET s == core.st[x] IN
    /\ s.reports <= 1
    /\ s.kind = "Task" /\ s.status = "Failed" /\ x \notin core.live
         => s.observed \/ s.teardown \/ s.reports = 1
    /\ s.kind = "Task" => ~s.observed \/ s.reports = 0

\* README:121: a serial handler gets one update at a time and in the order of
\* their arrival.
SerialInOrder ==
  \A x, y \in EventIds :
    /\ x < y /\ core.st[x].kind = "EventTask" /\ core.st[y].kind = "EventTask"
    /\ core.st[x].handler = core.st[y].handler
    /\ ~core.handler[core.st[x].handler].concurrent
    => isTerminalState(core, x)
=============================================================================
