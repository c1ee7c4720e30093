---------------------------- MODULE ManagedDriver ----------------------------
(***************************************************************************)
(* client:poll(), client:loop() and blocking waits of                      *)
(* include/tdlua/common/request_router.h over driveStep(), for several     *)
(* clients of one VM whose Tasks may wait for each other's requests: a     *)
(* step of one client drives the clients its Tasks wait for.  As in        *)
(* Scheduler, one thread runs and `stack' holds the C++ calls in progress, *)
(* with the coroutine that is running on top; only the top frame moves.    *)
(*                                                                         *)
(* Requests and unsolicited items share the numbers 1 .. MaxIds, in the    *)
(* order in which they come into being; the Task an item becomes has its   *)
(* number.  At most one coroutine waits for a given state: what several    *)
(* waiters of one state do to each other is the subject of Scheduler.      *)
(***************************************************************************)
EXTENDS Integers, FiniteSets, SequencesExt

CONSTANTS
  Clients, NoClient,
  Calls,      \* the calls main code makes, of "poll", "poll timeout", "poll callback",
              \* "loop", "loop callback", "loop serial" and "wait"
  Nested,     \* callbacks call poll(0)
  Dispose,    \* clients are collected
  MaxIds,     \* bound on requests, updates and raw responses
  MaxCalls    \* bound on calls of poll() and loop()

ASSUME ManagedAssumption == MaxIds \in Nat /\ MaxCalls \in Nat

Ids == 1 .. MaxIds

VARIABLES
  m,      \* m.st: ManagedStates and items; m.drv: the members of each SchedulerCore
  stack,  \* the frames of the owner thread, innermost last
  calls   \* calls of poll() and loop() so far; the bound and the identity of observers

managed == <<m, stack, calls>>

-----------------------------------------------------------------------------
(* States and items. *)

NoState == [kind |-> "none", client |-> NoClient, status |-> "none", dep |-> 0, observer |-> 0]
Fresh(x, i) == \A j \in Ids : x.st[j].kind # "none" <=> j < i

Put(x, i, kind, c, status) ==
  [x EXCEPT !.st[i] = [NoState EXCEPT !.kind = kind, !.client = c, !.status = status]]

isTerminalState(x, i) == x.st[i].status \in {"resolved", "done", "failed"}
running_tasks(x, c) ==
  {i \in Ids : x.st[i].client = c /\ x.st[i].status \in {"running", "waiting"}}
pending_requests(x, c) ==
  {i \in Ids : x.st[i].client = c /\ x.st[i].status = "pending"}
waitersOf(x, i) == {t \in Ids : x.st[t].status = "waiting" /\ x.st[t].dep = i}

-----------------------------------------------------------------------------
(* The consumers: the update a poll selects, the observer of a loop. *)

NoObserver == [id |-> 0, concurrent |-> TRUE, active |-> FALSE, stopped |-> FALSE,
               queue |-> <<>>]
Observing(x, c) == x.drv[c].observer.id # 0 /\ ~x.drv[c].observer.stopped
hasGenericPumpConsumer(x, c) == x.drv[c].selecting \/ Observing(x, c)

createUpdateTask(x, kind, c, i) ==
  [x EXCEPT !.st[i].kind = kind, !.st[i].status = "ready",
            !.st[i].observer = IF kind = "LoopTask" THEN x.drv[c].observer.id ELSE 0,
            !.drv[c].ready = Append(@, i)]

queueOrScheduleLoopUpdate_Overlaps(x, c, i) ==
  createUpdateTask([x EXCEPT !.drv[c].observer.active = TRUE], "LoopTask", c, i)

queueOrScheduleLoopUpdate(x, c, i) ==
  LET o == x.drv[c].observer
  IN IF ~o.concurrent /\ o.active
     THEN [x EXCEPT !.drv[c].observer.queue = Append(@, i), !.st[i].status = "taken"]
     ELSE createUpdateTask([x EXCEPT !.drv[c].observer.active = TRUE], "LoopTask", c, i)

observeManagedUpdate(x, c, i) ==
  IF x.drv[c].selecting /\ x.drv[c].selected = 0
  THEN [x EXCEPT !.drv[c].selected = i, !.st[i].status = "taken"]
  ELSE IF Observing(x, c) THEN queueOrScheduleLoopUpdate(x, c, i)
  ELSE [x EXCEPT !.st[i].status = "dropped"]

\* What the loop has not begun is withdrawn.
requestLoopStop(x, c) ==
  LET queued == ToSet(x.drv[c].observer.queue)
  IN [x EXCEPT !.drv[c].observer.stopped = TRUE, !.drv[c].observer.queue = <<>>,
               !.st = [i \in Ids |-> IF i \in queued
                                     THEN [@[i] EXCEPT !.status = "dropped"] ELSE @[i]]]

\* The calls of poll() and loop() on the clients of C end: what a loop has not begun is
\* withdrawn, but a selected update outlives the poll that an exception ended.
endUpdateConsumers(x, C) ==
  LET queued == UNION {ToSet(x.drv[c].observer.queue) : c \in C}
  IN [x EXCEPT !.drv = [c \in Clients |->
                          IF c \in C THEN [@[c] EXCEPT !.selecting = FALSE, !.consumer = FALSE,
                                                       !.observer = NoObserver] ELSE @[c]],
               !.st = [i \in Ids |-> IF i \in queued
                                     THEN [@[i] EXCEPT !.status = "dropped"] ELSE @[i]]]
endUpdateConsumer(x, c) == endUpdateConsumers(x, {c})

\* A Task of an earlier loop finds its observer gone.
finishLoopTask(x, t, stop) ==
  LET c == x.st[t].client
      y == IF stop \/ x.st[t].status = "failed" THEN requestLoopStop(x, c) ELSE x
      o == y.drv[c].observer
      z == [y EXCEPT !.drv[c].observer.active = FALSE]
  IN IF x.st[t].kind # "LoopTask" \/ x.st[t].observer # x.drv[c].observer.id THEN x
     ELSE IF o.stopped \/ o.concurrent THEN y
     ELSE IF o.queue = <<>> THEN z
     ELSE createUpdateTask([z EXCEPT !.drv[c].observer.queue = Tail(@),
                                     !.drv[c].observer.active = TRUE],
                           "LoopTask", c, Head(o.queue))

-----------------------------------------------------------------------------
(* Frames. *)

Current == Last(stack)
At(op, pc) == stack # <<>> /\ Current.op = op /\ Current.pc = pc
Below == Front(stack)
GoTo(pc) == Append(Below, [Current EXCEPT !.pc = pc])

Lua(t) == [op |-> "lua", c |-> NoClient, pc |-> "run", t |-> t]
\* A call of tick() that would find nothing to do leaves no frame.
Tick(x, c) ==
  LET d == x.drv[c]
  IN IF d.notifications = {} /\ (d.draining \/ (d.ready = <<>> /\ d.errors = 0)) THEN <<>>
     ELSE <<[op |-> "tick", c |-> c, pc |-> "notify"]>>
Drive(c, deadline, discard) ==
  [op |-> "drive", c |-> c, pc |-> "tick", deadline |-> deadline, discard |-> discard,
   deps |-> {}]

\* Main code or a coroutine is running.
InLua == stack = <<>> \/ At("lua", "run")

\* driveStep() returns at once from inside another one of the same client.
StartDrive(x, s, c, deadline, discard) ==
  IF x.drv[c].drive THEN m' = x /\ stack' = s
  ELSE /\ m' = [x EXCEPT !.drv[c].drive = TRUE]
       /\ stack' = s \o <<Drive(c, deadline, discard)>> \o Tick(x, c)

\* resume() of the coroutine that waits for i, if there is one.
wake(x, s, i) ==
  IF waitersOf(x, i) = {} THEN m' = x /\ stack' = s
  ELSE \E t \in waitersOf(x, i) :
         /\ m' = [x EXCEPT !.st[t].status = "running", !.st[t].dep = 0,
                           !.drv[x.st[i].client].notifications = @ \ {t}]
         /\ stack' = Append(s, Lua(t))

-----------------------------------------------------------------------------
(* Lua code, in main or in a Task. *)

Submit(c, kind) ==
  /\ InLua /\ m.drv[c].pump
  /\ \E i \in Ids : Fresh(m, i) /\ m' = Put(m, i, kind, c, "pending")
  /\ UNCHANGED <<stack, calls>>

\* An application in which Tasks wait for each other in a circle is its own
\* deadlock and not of interest.
LeadsTo(x, i, t) ==
  LET leads[j \in Ids] == j = t \/ (x.st[j].status = "waiting" /\ leads[x.st[j].dep])
  IN leads[i]

\* A coroutine yields to a pending state of any client.
Suspend(i) ==
  /\ At("lua", "run")
  /\ m.st[Current.t].status = "running"
  /\ m.st[i].kind \in {"Future", "Task", "PollTask"}
  /\ ~isTerminalState(m, i) /\ waitersOf(m, i) = {} /\ ~LeadsTo(m, i, Current.t)
  /\ m' = [m EXCEPT !.st[Current.t].status = "waiting", !.st[Current.t].dep = i]
  /\ stack' = Below
  /\ UNCHANGED calls

\* finishTask(): the callback returned, true or false, or raised an error.  A
\* Task that failStrandedTasks() took has finished already.
FinishTask(how) ==
  /\ At("lua", "run")
  /\ LET t == Current.t
         c == m.st[t].client
         failed == how = "error"
         x == [m EXCEPT !.st[t].status = IF failed THEN "failed" ELSE "done",
                        !.drv[c].errors =
                           @ + (IF failed /\ m.st[t].kind = "LoopTask" THEN 1 ELSE 0)]
     IN IF isTerminalState(m, t) THEN m' = m /\ stack' = Below
        ELSE wake(finishLoopTask(x, t, how = "false"), Below, t)
  /\ UNCHANGED calls

\* The ids of S in their order.
ascending(S) ==
  [i \in 1 .. Cardinality(S) |-> CHOOSE x \in S : Cardinality({y \in S : y <= x}) = i]

\* The collector disposes of a client outside its own calls: detachTransport().
Collect(c) ==
  /\ Dispose /\ InLua /\ m.drv[c].pump
  /\ ~m.drv[c].consumer /\ ~m.drv[c].drive /\ ~m.drv[c].draining
  /\ LET failed == pending_requests(m, c)
         st == [i \in Ids |-> IF i \in failed THEN [m.st[i] EXCEPT !.status = "failed"]
                              ELSE IF i = m.drv[c].selected
                              THEN [m.st[i] EXCEPT !.status = "dropped"] ELSE m.st[i]]
         x == [m EXCEPT !.st = st]
         over == {i \in Ids : st[i].client = c /\ isTerminalState(x, i)}
     IN m' = [x EXCEPT !.drv[c].pump = FALSE, !.drv[c].selected = 0,
                       !.drv[c].ready = @ \o ascending(failed),
                       !.drv[c].notifications =
                          @ \cup UNION {waitersOf(x, i) : i \in over}]
  /\ UNCHANGED <<stack, calls>>

\* beginUpdateConsumer() refuses a client that is being driven.
MayConsume(c) ==
  /\ InLua /\ calls < MaxCalls
  /\ m.drv[c].pump
  /\ ~m.drv[c].consumer /\ ~m.drv[c].drive /\ ~m.drv[c].draining

Poll(c, callback, deadline) ==
  /\ MayConsume(c)
  /\ calls' = calls + 1
  /\ m' = [m EXCEPT !.drv[c].consumer = TRUE]
  /\ stack' = Append(stack, [op |-> "poll", c |-> c, pc |-> "select", callback |-> callback,
                             deadline |-> deadline, attempted |-> FALSE])

Loop(c, callback, concurrent) ==
  /\ MayConsume(c)
  /\ calls' = calls + 1
  /\ LET x == [m EXCEPT !.drv[c].consumer = TRUE]
         i == m.drv[c].selected
         y == [x EXCEPT !.drv[c].selected = 0,
                        !.drv[c].observer = [NoObserver EXCEPT !.id = calls + 1,
                                                               !.concurrent = concurrent]]
     IN m' = IF ~callback THEN x
             ELSE IF i = 0 THEN y ELSE queueOrScheduleLoopUpdate(y, c, i)
  /\ stack' = Append(stack, [op |-> "loop", c |-> c, pc |-> "tick", callback |-> callback])

\* Main code cannot yield: waitSynchronously().
Wait(i) ==
  /\ stack = <<>>
  /\ m.st[i].kind \in {"Future", "Task", "PollTask"} /\ ~isTerminalState(m, i)
  /\ stack' = <<[op |-> "wait", c |-> m.st[i].client, pc |-> "tick", i |-> i]>>
  /\ UNCHANGED <<m, calls>>

-----------------------------------------------------------------------------
(* tick(): notifications of a detached client, then, outside another tick(), *)
(* everything that is ready, then one error.                                 *)

TickNotify(t) ==
  /\ At("tick", "notify") /\ t \in m.drv[Current.c].notifications
  /\ m' = [m EXCEPT !.st[t].status = "running", !.st[t].dep = 0,
                    !.drv[Current.c].notifications = @ \ {t}]
  /\ stack' = Append(stack, Lua(t))
  /\ UNCHANGED calls

TickEnter ==
  /\ At("tick", "notify") /\ m.drv[Current.c].notifications = {}
  /\ IF m.drv[Current.c].draining THEN m' = m /\ stack' = Below
     ELSE m' = [m EXCEPT !.drv[Current.c].draining = TRUE] /\ stack' = GoTo("ready")
  /\ UNCHANGED calls

\* drainReadyStates(): wake() for what is over, runTask() for what may begin.
TickRun ==
  /\ At("tick", "ready") /\ m.drv[Current.c].ready # <<>>
  /\ LET i == Head(m.drv[Current.c].ready)
         x == [m EXCEPT !.drv[Current.c].ready = Tail(@)]
     IN IF isTerminalState(m, i) THEN wake(x, stack, i)
        ELSE m' = [x EXCEPT !.st[i].status = "running"] /\ stack' = Append(stack, Lua(i))
  /\ UNCHANGED calls

TickEnd ==
  /\ At("tick", "ready") /\ m.drv[Current.c].ready = <<>>
  /\ LET x == [m EXCEPT !.drv[Current.c].draining = FALSE]
     IN IF m.drv[Current.c].errors = 0 THEN m' = x /\ stack' = Below
        ELSE m' = [x EXCEPT !.drv[Current.c].errors = @ - 1] /\ stack' = GoTo("strand")
  /\ UNCHANGED calls

\* failStrandedTasks(): a Task of this client that runs without a registration,
\* in a coroutine further down the stack.
FailStranded(t) ==
  /\ At("tick", "strand")
  /\ m.st[t].client = Current.c /\ m.st[t].status = "running"
  /\ LET loop == m.st[t].kind = "LoopTask"
         x == [m EXCEPT !.st[t].status = "failed",
                        !.drv[Current.c].errors = @ + (IF loop THEN 1 ELSE 0)]
     IN wake(finishLoopTask(x, t, FALSE), stack, t)
  /\ UNCHANGED calls

\* The error leaves tick() and unwinds everything up to the next coroutine.
Throw ==
  /\ At("tick", "strand")
  /\ \A t \in running_tasks(m, Current.c) : m.st[t].status # "running"
  /\ LET k == CHOOSE n \in 0 .. Len(stack) :
                /\ n = 0 \/ stack[n].op = "lua"
                /\ \A j \in n + 1 .. Len(stack) : stack[j].op # "lua"
         unwound(op) == {stack[j].c : j \in {l \in k + 1 .. Len(stack) : stack[l].op = op}}
         consumers == unwound("poll") \cup unwound("loop")
         x == [m EXCEPT !.drv = [c \in Clients |->
                 IF c \in unwound("drive")
                 THEN [@[c] EXCEPT !.drive = FALSE, !.active = FALSE] ELSE @[c]]]
     IN /\ m' = endUpdateConsumers(x, consumers)
        /\ stack' = SubSeq(stack, 1, k)
  /\ UNCHANGED calls

-----------------------------------------------------------------------------
(* driveStep(): tick(), a read of the transport, a step of every client that *)
(* a Task waits for, tick().                                                 *)

crossClientDependencies_None(c) == {}

crossClientDependencies(c) ==
  {m.st[m.st[t].dep].client : t \in {r \in running_tasks(m, c) : m.st[r].status = "waiting"}}
  \ {c}

DriveBegin ==
  /\ At("drive", "tick")
  /\ IF ~m.drv[Current.c].pump
     THEN m' = [m EXCEPT !.drv[Current.c].drive = FALSE] /\ stack' = Below
     ELSE /\ m' = [m EXCEPT !.drv[Current.c].active = TRUE]
          /\ stack' = Append(Below, [Current EXCEPT !.pc = "pump",
                                                !.deps = crossClientDependencies(Current.c)])
  /\ UNCHANGED calls

\* After whatever pumpClient() has dispatched comes its drain.
Pumped(x) ==
  /\ m' = x
  /\ stack' = GoTo("pumped") \o Tick(x, Current.c)
  /\ UNCHANGED calls

\* A preserved raw response goes to a poll or a loop, or is discarded by a loop
\* without a callback; it is read before the transport is.
Preserved == /\ m.drv[Current.c].preserved # <<>>
             /\ hasGenericPumpConsumer(m, Current.c) \/ Current.discard

PumpPreserved ==
  /\ At("drive", "pump") /\ Preserved
  /\ LET c == Current.c
         i == Head(m.drv[c].preserved)
         x == [m EXCEPT !.drv[c].preserved = Tail(@)]
     IN Pumped(IF hasGenericPumpConsumer(m, c) THEN observeManagedUpdate(x, c, i)
               ELSE [x EXCEPT !.st[i].status = "dropped"])

PumpNothing == At("drive", "pump") /\ ~Preserved /\ Pumped(m)

\* An update, or the response to a send().
PumpUpdate ==
  /\ At("drive", "pump") /\ ~Preserved
  /\ \E i \in Ids :
       /\ Fresh(m, i)
       /\ Pumped(observeManagedUpdate(Put(m, i, "Update", Current.c, "taken"), Current.c, i))

PumpRaw ==
  /\ At("drive", "pump") /\ ~Preserved
  /\ \E i \in Ids :
       LET c == Current.c
           x == Put(m, i, "Raw", c, "taken")
       IN /\ Fresh(m, i)
          /\ Pumped(IF hasGenericPumpConsumer(m, c) THEN observeManagedUpdate(x, c, i)
                    ELSE IF Current.discard THEN [x EXCEPT !.st[i].status = "dropped"]
                    ELSE [x EXCEPT !.drv[c].preserved = Append(@, i)])

\* The response to request i: a Future is over, a Task may begin.
PumpResponse(i) ==
  /\ At("drive", "pump") /\ ~Preserved
  /\ m.st[i].client = Current.c /\ m.st[i].status = "pending"
  /\ Pumped([m EXCEPT !.st[i].status = IF m.st[i].kind = "Future" THEN "resolved" ELSE "ready",
                      !.drv[Current.c].ready = Append(@, i)])

\* A drive with a deadline goes without the dependency round when it has selected an
\* update in time, or when the deadline passed meanwhile.
DriveRound ==
  /\ At("drive", "pumped")
  /\ \E round \in IF Current.deadline = "timeout" THEN BOOLEAN ELSE {TRUE} :
       stack' = Append(Below, [Current EXCEPT !.pc = "round", !.deps = IF round THEN @ ELSE {}])
  /\ m' = [m EXCEPT !.drv[Current.c].active = FALSE]
  /\ UNCHANGED calls

DriveDependency(d) ==
  /\ At("drive", "round") /\ d \in Current.deps
  /\ StartDrive(m, Append(Below, [Current EXCEPT !.deps = @ \ {d}]), d, Current.deadline, FALSE)
  /\ UNCHANGED calls

DriveLast ==
  /\ At("drive", "round") /\ Current.deps = {}
  /\ stack' = GoTo("last") \o Tick(m, Current.c)
  /\ UNCHANGED <<m, calls>>

DriveEnd ==
  /\ At("drive", "last")
  /\ m' = [m EXCEPT !.drv[Current.c].drive = FALSE]
  /\ stack' = Below
  /\ UNCHANGED calls

-----------------------------------------------------------------------------
(* selectPollUpdate(), runLoop() and waitSynchronously() above it. *)

PollDrive ==
  /\ At("poll", "select")
  /\ m.drv[Current.c].selected = 0 /\ m.drv[Current.c].pump
  /\ Current.deadline = "zero" => ~Current.attempted
  /\ StartDrive([m EXCEPT !.drv[Current.c].selecting = TRUE],
                Append(Below, [Current EXCEPT !.attempted = TRUE]), Current.c, Current.deadline, FALSE)
  /\ UNCHANGED calls

PollEnough ==
  /\ At("poll", "select")
  /\ \/ m.drv[Current.c].selected # 0 \/ ~m.drv[Current.c].pump
     \/ Current.attempted /\ Current.deadline # "never"
  /\ stack' = GoTo("take") \o Tick(m, Current.c)
  /\ UNCHANGED <<m, calls>>

PollTake ==
  /\ At("poll", "take")
  /\ LET c == Current.c
         i == m.drv[c].selected
         x == [m EXCEPT !.drv[c].selected = 0, !.drv[c].selecting = FALSE]
     IN IF i = 0 THEN m' = endUpdateConsumer(x, c) /\ stack' = Below
        ELSE IF ~Current.callback
        THEN m' = endUpdateConsumer([x EXCEPT !.st[i].status = "done"], c) /\ stack' = Below
        ELSE /\ m' = createUpdateTask(x, "PollTask", c, i)
             /\ stack' = GoTo("return") \o Tick(m', c)
  /\ UNCHANGED calls

Return ==
  /\ At("poll", "return") \/ At("loop", "return")
  /\ m' = endUpdateConsumer(m, Current.c)
  /\ stack' = Below
  /\ UNCHANGED calls

CallTick ==
  /\ At("loop", "tick") \/ At("wait", "tick")
  /\ stack' = GoTo("check") \o Tick(m, Current.c)
  /\ UNCHANGED <<m, calls>>

hasNormalLoopInterest(c) ==
  LET o == m.drv[c].observer
  IN ~o.stopped /\ (o.id # 0 \/ pending_requests(m, c) # {})
hasGracefulDrainWork(c) == m.drv[c].ready # <<>> \/ running_tasks(m, c) # {}

LoopCheck ==
  /\ At("loop", "check")
  /\ IF m.drv[Current.c].pump /\ (hasNormalLoopInterest(Current.c) \/ hasGracefulDrainWork(Current.c))
     THEN StartDrive(m, GoTo("tick"), Current.c, "never", ~Current.callback)
     ELSE m' = m /\ stack' = GoTo("return")
  /\ UNCHANGED calls

\* Ten seconds, or the timeout, may pass at any time; a wait for a client that is
\* gone throws.
WaitCheck ==
  /\ At("wait", "check")
  /\ IF isTerminalState(m, Current.i) \/ ~m.drv[Current.c].pump THEN m' = m /\ stack' = Below
     ELSE \/ m' = m /\ stack' = Below
          \/ StartDrive(m, GoTo("tick"), Current.c, "never", FALSE)
  /\ UNCHANGED calls

-----------------------------------------------------------------------------
(* Specification. *)

ManagedInit ==
  /\ m = [st |-> [i \in Ids |-> NoState],
          drv |-> [c \in Clients |->
                    [pump |-> TRUE, consumer |-> FALSE, drive |-> FALSE, active |-> FALSE,
                     selecting |-> FALSE, selected |-> 0, draining |-> FALSE,
                     ready |-> <<>>, errors |-> 0, preserved |-> <<>>,
                     notifications |-> {}, observer |-> NoObserver]]]
  /\ stack = <<>>
  /\ calls = 0

MainCode ==
  \/ \E c \in Clients, kind \in {"Future", "Task"} : Submit(c, kind)
  \/ \E c \in Clients : Collect(c)
  \/ /\ stack = <<>>
     /\ \E c \in Clients :
          \/ "poll" \in Calls /\ Poll(c, FALSE, "never")
          \/ "poll timeout" \in Calls /\ Poll(c, FALSE, "timeout")
          \/ "poll callback" \in Calls /\ Poll(c, TRUE, "zero")
          \/ "loop" \in Calls /\ Loop(c, FALSE, TRUE)
          \/ "loop callback" \in Calls /\ Loop(c, TRUE, TRUE)
          \/ "loop serial" \in Calls /\ Loop(c, TRUE, FALSE)
  \/ "wait" \in Calls /\ \E i \in Ids : Wait(i)
  \/ Nested /\ stack # <<>> /\ \E c \in Clients : Poll(c, FALSE, "zero")

Coroutine ==
  \/ \E i \in Ids : Suspend(i)
  \/ \E how \in {"true", "false", "error"} : FinishTask(how)

Transport == PumpPreserved \/ PumpNothing \/ PumpUpdate \/ PumpRaw
             \/ \E i \in Ids : PumpResponse(i)

Scheduling ==
  \/ \E t \in Ids : TickNotify(t) \/ FailStranded(t)
  \/ TickEnter \/ TickRun \/ TickEnd \/ Throw
  \/ DriveBegin \/ DriveRound \/ DriveLast \/ DriveEnd
  \/ \E d \in Clients : DriveDependency(d)
  \/ PollDrive \/ PollEnough \/ PollTake \/ Return \/ CallTick \/ LoopCheck \/ WaitCheck

\* Main code makes no further call.
Rest == stack = <<>> /\ UNCHANGED managed

ManagedNext == MainCode \/ Coroutine \/ Transport \/ Scheduling \/ Rest

\* Callbacks end or yield, a call of the scheduler goes on, and TDLib answers: a
\* client that is read again and again is handed each of its responses.
Fairness ==
  /\ WF_managed(Coroutine) /\ WF_managed(Transport) /\ WF_managed(Scheduling)
  /\ \A i \in Ids : SF_managed(PumpResponse(i))

ManagedSpec == ManagedInit /\ [][ManagedNext]_managed /\ Fairness

-----------------------------------------------------------------------------
(* Properties. *)

Frames(op, c) == {k \in 1 .. Len(stack) : stack[k].op = op /\ stack[k].c = c}

\* The flags that keep a client from being driven, consumed or drained twice are
\* raised exactly while such a call is on the stack, however errors unwound it.
FlagsFollowStack ==
  \A c \in Clients :
    LET d == m.drv[c]
        entered(op, pcs) == {k \in Frames(op, c) : stack[k].pc \in pcs}
        once(flag, entries) == IF flag THEN \E k \in entries : entries = {k} ELSE entries = {}
    IN /\ once(d.drive, Frames("drive", c))
       /\ once(d.active, entered("drive", {"pump", "pumped"}))
       /\ once(d.draining, entered("tick", {"ready"}))
       /\ once(d.consumer, Frames("poll", c) \cup Frames("loop", c))
       /\ d.selecting => Frames("poll", c) # {}
       /\ d.observer.id # 0 => Frames("loop", c) # {}

\* An update or raw response that a poll, a loop or the client has taken is in one
\* place, through errors and further calls, until somebody gets it; and the
\* callbacks of a serial loop get theirs one at a time and in order.
UpdatesKept ==
  LET kept(c) == m.drv[c].preserved \o m.drv[c].observer.queue
                   \o (IF m.drv[c].selected = 0 THEN <<>> ELSE <<m.drv[c].selected>>)
      unfinished(o) == {i \in Ids : /\ m.st[i].kind = "LoopTask" /\ m.st[i].observer = o.id
                                    /\ m.st[i].status \in {"ready", "running", "waiting"}}
  IN \A c \in Clients :
       LET o == m.drv[c].observer
       IN /\ IsInjective(kept(c))
          /\ ToSet(kept(c)) = {i \in Ids : m.st[i].client = c /\ m.st[i].status = "taken"}
          /\ o.id # 0 /\ ~o.concurrent =>
               /\ \A i, j \in unfinished(o) : i = j
               /\ \A i \in unfinished(o), j \in ToSet(o.queue) : i < j
               /\ \A j, k \in DOMAIN o.queue : j < k => o.queue[j] < o.queue[k]

\* What a call of poll() or loop() may take, and whether it may, in one property.
KeptInOrder == UpdatesKept /\ FlagsFollowStack

\* Main code is in a loop, an untimed poll or a wait of client c.
Driven(c) == stack # <<>> /\ stack[1].op \in {"loop", "poll", "wait"} /\ stack[1].c = c
             /\ (stack[1].op = "poll" => stack[1].deadline = "never")

\* Nobody is passed over: while a client is driven its Tasks are not left waiting, be
\* it for a client that nobody else drives; an update queued behind a serial callback
\* gets its turn; and a loop that was told to stop returns.  This is of two clients: with
\* a third behind one that was collected the chain of Tasks is cut, since driveStep()
\* of a client without a pump returns before its dependencies (request_router.h:1966).
Neglected(i) ==
  LET c == m.st[i].client
  IN \/ m.st[i].status = "waiting" /\ Driven(c)
     \/ c # NoClient /\ i \in ToSet(m.drv[c].observer.queue)

Served ==
  /\ \A i \in Ids : Neglected(i) ~> ~Neglected(i)
  /\ \A c \in Clients : m.drv[c].observer.stopped ~> ~m.drv[c].observer.stopped
=============================================================================
