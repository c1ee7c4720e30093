# tdlua: formal models

TDLua binds TDLib to Lua: several Lua VMs of one process share a single TDLib
reader thread, each VM's clients have mailboxes, managed Futures and handlers,
and event-loop adapters drive them without blocking. This directory holds TLA+
models of the parts whose correctness depends on interleavings, failures and
order, the TLC configurations that check them on small instances, and TLAPS
proofs of the core results. Paths below are relative to the repository.

## 1. Inventory

| Part | Code | State | Operations | Model |
|---|---|---|---|---|
| Receiver runtime | `include/tdlua/common/receiver.h` | registry of clients with their demand counters, owners, state and generation of the worker, two condition variables | attach/detach an owner, create, send, one-shot, driver and watch leases, forget, the worker's loop, publish, fail | `Receiver` |
| Mailboxes | `Mailbox` in the same file | queue, failed, terminal, orphan | push, pop with and without waiting, abandon | `Receiver`, `GenericBuffer` |
| Retention policy | `publish()` in the same file | interests per client (consumers, subscriptions, handlers) | open and close an interest, snapshot, classify, decide | `Retention` |
| Generic buffer | `GenericTicket`, `addGenericLocked`; `src/backend/json/client.cpp` | tickets, weak fifo, pending count, the owner's deque | issue, prune, compact, evict, pop, preserve, expose | `GenericBuffer` |
| Failure cleanup | `include/tdlua/common/failure_cleanup.h`; `cleanupAfterFailure` of both runtimes | one record per TDLib identity, counters, two work lists, phase | register, begin/end send, observe, acknowledge, retire, reject, drain | `FailureCleanup` |
| Doorbell | `include/tdlua/common/wake.h` | flag, reliability, kernel object | ring, clear, wait, fail | `Doorbell`, abstractly `LevelEvent` |
| Readiness hub | `include/tdlua/common/readiness.h` | owners, their doorbells, `any_wake_`, client bindings | enable, bind, unbind, detach, ringClient, broadcast, hasWork, waitOwner | `ReadinessHub` |
| Event-loop driver | `tdlua_eventloop/driver.lua` | registrations, cursor, round and stall counters | add, remove, stop, kick, progress, tick | `EventLoopDriver` |
| luv adapter | `tdlua_eventloop/luv.lua` | a poll handle, a one-shot timer, stopped or not | the two callbacks, arming, the hook, on_stall, stop, finish | `LuvAdapter`, around `EventLoopDriver` |
| cqueues adapter | `tdlua_eventloop/cqueues.lua` | a coroutine on a controller, the kick socketpair, what a stop still owes | run, drain, stop, kick, controller_error, the turn loop, the retirement turn | `CqueuesAdapter` |
| Scheduler | `include/tdlua/common/request_router.h`, `client_pump.h` | Futures, tasks, waits, handlers, errors to report, and the call stack of the owner thread | request, await, wait, cancel, on/off, receive, tick, wake, resume, detach | `Scheduler` (one client) |
| Managed driver | the second half of the same file: `ManagedDriverState`, `LoopObserver` | the selected update, the observer of a loop, preserved raw responses, four flags | poll, loop, blocking waits, driveStep with the clients its Tasks wait for | `ManagedDriver` (several clients) |
| Client lifecycle | `src/backend/{json,native}/{client,runtime,dispatcher}.cpp` | authorization state, shutdown requests, drain depth, cleanup | send, close, destroy, dispatch, drain, closeInternal | `ClientLifecycle`; its effects on other parts in `FailureCleanup`, `GenericBuffer`, `Retention` |
| Lua bindings, codecs, module residency | `src/binding`, `src/common`, generator | none of their own, or unbounded data | | not modelled |

How they interact. A Lua VM's thread calls the client, which calls the runtime
under its mutex and TDLib outside it. The single worker calls `td_receive`,
shows every item to the cleanup ledger, publishes it into the mailbox of its
client under the runtime's mutex and then the mailbox's, and has the hub ring the
owner's doorbell. The VM's host loop parks on that doorbell; the adapter turns
the driver, whose turn runs `receive(0)` on each client, which pops the mailbox,
runs the scheduler and may re-enter the driver from callbacks. Without an event
loop, `poll()`, `loop()` and blocking waits drive the client, and the clients its
Tasks wait for. When the source throws, the worker marks everything failed and
drains TDLib through the ledger.

What is hard. Locks are dropped around every call to TDLib and around `join()`,
so state is read, released and used again (ledger records, leases, worker
generations, doorbells). Three condition variables, two adapters and one doorbell
each offer a lost wakeup. Sends may throw before or after they took effect.
Retention reads interests at three moments of one receive. A ticket and its count
change in two steps from two threads that share no lock. Callbacks change the
registrations a turn is iterating over. In the scheduler any Lua code may run in
the middle of any loop of `tick()`: it may wait, receive (and so re-enter
`tick()`), poll another client, close the client, replace a handler or raise an
error that unwinds calls of several clients at once.

What makes each part correct:

- *receiver*: one reader at a time; demand of an attached VM is served or the
  failure is visible; leases and counters agree; nobody sleeps through what it
  waits for; attach and detach end.
- *retention*: an interest that existed for the whole receive is honoured; a
  forgotten client keeps nothing.
- *buffer*: exact count, bounded items and metadata, oldest dropped first.
- *cleanup*: counters match records; no record vanishes under its user; TDLib is
  closed at most once; `Quiescent` means that nothing runs.
- *doorbell*: it is a level-triggered event.
- *hub*: work published for a VM rings its doorbell, whatever other VMs do; a host
  parked while its VM leaves was rung before.
- *driver*: fair order, stalls that are earned, reported and not repeated.
- *adapters*: the host never sleeps over a stop, a kick, a deadline or work; a
  stopped adapter tears down in order and tells the host.
- *scheduler*: the indexes of waits agree with what runs; a coroutine is told the
  truth about what it waited for and is not passed over; abandoned failures are
  reported once; serial handlers stay serial.
- *managed driver*: flags follow the call stack; an update that was taken reaches
  somebody, once and in order; whoever is driven is served, by the clients its
  Tasks wait for too.
- *lifecycle*: TDLib is closed at most once and not left running unreported; the
  terminal update is read; a client that ended is cleaned up.

## 2. Plan

Done, in the order of how much rests on each part: (1) `FailureCleanup` and its
proof, (2) `Receiver`, (3) `Retention` and `GenericBuffer`, (4) `Doorbell` refining
`LevelEvent`, with its proof, (5) `EventLoopDriver`, (6) `Scheduler` for one
client, (7) `ClientLifecycle`, (8) `ReadinessHub` between `Receiver` and
`Doorbell`, (9) `LuvAdapter` composed with the whole driver, and `CqueuesAdapter`,
(10) `ManagedDriver`.

Compositions. `LuvAdapter` EXTENDS `EventLoopDriver`: what the loop schedules are
the driver's own steps. `CqueuesAdapter` sees the driver as the results of its
turns. `ReadinessHub` takes a doorbell for the flag that `Doorbell` is proved to
implement. `Receiver` abstracts the cleanup to `CleanupStep`/`CleanupDone`;
`FailureCleanup` shows what that step does. `ClientLifecycle` has the members of
the receiver's entry and of the ledger's record that a client depends on, with
the steps that change them.

Proved, in modules of their own beside the components': the doorbell and the hub, the
ledger with TDLib, the receiver, the retention policy and the generic buffer, the
scheduler, the client lifecycle with the managed driver, the driver with the luv adapter,
and the cqueues adapter (section 6).

Left, most useful first: the terminal update inside `loop()` (the `ManagedDriver`
disposes of clients only from outside); an abstract client as its owner sees it
(created, open, closing, terminal), refined by `ClientLifecycle`; the queue limits
of managed responses; the readiness views over the hub. Every safety property that a run
checks has a theorem.

## 3. Modules and the code

**FailureCleanup.** `rec[c]` is the `Record` of identity `c` (state `retired`:
only in `history_`), `stats` the counters of `Stats` the drain decides by.
`Materialize`, `SetUncertain`, `Unlink`, `RefreshWork`, `RetireIfReady` are the
private helpers of the same names, on a pair of record and counters; each action
is one critical section. The two intrusive lists are sets, so the drain may take
any member: every result holds for the list order too. TDLib is external: an
actor per client, the closes it has accepted and not answered (`closes`),
rejected ones, and a terminal update delivered last. `sender[s]` is a `send()`
between `beginSend()` and `endSend()`; a throw may come before or after the
request took effect. `td.refused` is a history variable. `td_receive()` and the `observe()` that
follows are one step (`WorkerRec`).

**Receiver.** One action per critical section of `mutex_` or of a mailbox. A
thread whose predicate is false is parked (`parked`, or `pc = "sleep"`) and only
a notification (or a timeout, where the code passes a deadline) moves it, so a
missing `notify_all` would show. `ReapWaits`, `ReapJoins` and the resumption are
the loop of `reapLocked()`. Request kinds are `raw`, `managed` (a pending
request that demands the receiver) and `close` (the same plus lifecycle demand);
the runs use `raw` and `close`, since what a managed request does to the registry
a close does too. Retention and capacity are nondeterministic here. Each VM has
one thread, as Lua requires. `"worker"` stands for the worker among the parked, and is
no VM's name (`WorkerAssumption`). Identities are numbers (`ClientsAssumption`), since the
worker takes the one-shot of the first entry that has one.

**Retention.** The expressions of `publish()` with their names, and the three
reads (`StartReceive`, `ClassifyForRetention`, `Publish`) as separate steps.
`Lazy` distinguishes the native backend, which classifies on demand.

**GenericBuffer.** Worker steps follow `addGenericLocked()`, owner steps
`popLocked()`, `dispatchPumpItem()`, `preservePumpItem()`, `tryPop()`. Retiring a
ticket is a compare-exchange followed by a separate `fetch_sub`; on the owner's
side the second step (`owes`) interleaves with the worker.

**Doorbell.** Each atomic access and each system call is a step. The hub holds
its lock around ring and clear, so the model allows more interleavings than the
code and its results hold for the class alone. `Room` covers eventfd, pipe and
socket: a read removes any number of units. Descriptor setup is left out.

**ReadinessHub.** One step per lock region of the hub, and one for the load of
`any_wake_` that spares publications the lock. `entries` and `bound` are the
runtime's and the hub's side of a client, which `createClient()` and `forget()`
change one after the other; `stage` is the path of `detachOwner()` through both. The
host's thread and the owner's may be different ones, as the host interface allows.
Mailboxes are depths. A binding made later than a client's first publication is
excluded: TDLib has nothing for a client that has sent no request.

**EventLoopDriver.** `d` holds the driver's fields; `pc` is the place in
`tick()`, with one step for each place where an application callback can run.
Serials are renumbered per turn since they are only compared. Deadlines are
"expired or not"; counters that are only compared with a threshold are capped at
it. `due`, `swept`, `quiet` and `reports` are history. The descriptor check of
`single_owner`, the length of delays, and ticking on after an `error` result
(which both adapters never do) are left out.

**LuvAdapter.** The driver's steps, started by the poll's or the timer's callback;
`Continue` is `_tick()` after `driver.tick()` returned, `Armed` is `_arm()`, `Hooked` is
the hook `on_kick`. Delays are reduced to "soon", "deadline" and "off". `missed` is
history: the transport failed while the host slept without a timeout.

**CqueuesAdapter.** The fields of the adapter are in `a`; `co` is where its
coroutine is, `loop` who is inside `cq:loop()`. The parts of the retirement
(`_finish`, `_release`, `_notify`, `_abort`, `_deliver_pending`,
`_schedule_retirement`) are functions of `a`, composed as the methods call each
other. `Finished` gets the answer of `cqueues.running()`, which does not say which
controller runs. `owed`, `lost` and `misplaced` are history.

**Scheduler.** The thread that owns the VM runs one thing at a time, so the
concurrency is that of the call stack: `stack` holds the C++ loops in progress
(`notify`, `expire`, `drain`, `strand` are the places of `tick()`; `wake` is
`wake()` with the coroutines it still has to visit; `wait_tick`, `wait_drive`,
`pump`, `drive_end` a blocking wait) and a `lua` frame per running coroutine. Only the top
frame moves, and a Lua frame may do anything Lua code can. `core` holds the
members of `SchedulerCore`; the operators on it have the names of the member
functions they model. `Throw` is C++ unwinding: it stops at a Lua frame or at
the handler of `tick()`, with what destructors do on the way. `lost` is history.
States are numbers in the order of their request ids. Deadlines are "passed or
not", decided when `drainExpiredWaiters()` looks. Transport items (`Items`) are
what `pumpClient()` dispatches: a response, an update, the closed state, a
receiver failure, or nothing.

**ManagedDriver.** The call stack as in `Scheduler`, over several clients: a frame for
each `tick()`, `driveStep()`, `poll()`, `loop()` and blocking wait, with the locals that
matter (deadline kind, dependencies still to drive), and one per running coroutine.
`m.drv[c]` holds the members of `ManagedDriverState` and of `SchedulerCore` that these
calls use, `m.st` the states: requests, the Tasks that updates become, and raw
responses, numbered in the order in which they come into being. `Throw` unwinds to the
next coroutine and runs the destructors and `endUpdateConsumer()` on the way. Left to
`Scheduler`, or excluded: several waiters of one state, waits with deadlines, event
handlers, `receive()` and blocking waits inside coroutines, handles that are dropped;
clients are collected only outside their own calls, not closed by TDLib; Tasks that
wait for each other in a circle, which is an application's own deadlock. A `tick()`
that would find nothing to do leaves no frame.

**ClientLifecycle.** `facade` holds the members of `TDLua` and the locals of
`closeInternal()`, `frames` the nested drains. A close has a fate, as far as its owner
was told: never used, not sent, uncertain, pending, accepted or rejected. TDLib answers
in any order, may reject, and delivers the terminal update last. The steps follow
`dispatch()`, `drainPump()`, `cleanupIfTerminal()` and `closeInternal()` of the JSON
client; the native one has the same structure with two flags for the state.

Modules whose instances are small are checked together: `MCStorage` (buffer and
retention), `MCReadiness` (doorbell and hub), `MCHosts` (cqueues adapter and managed
driver, with fairness) and `MCClientLifecycle` (lifecycle and managed driver, safety);
and one module is checked on several instances in `MCReceiverLive` (two), `MCScheduler`
(four), `MCLuvAdapter` (four sets of what the world does) and `MCEventLoopDriver` (two).
A variable that is chosen at the start and never changes says which system runs; the others rest, so that
state spaces add up. Fairness in these modules is that
of the system that runs: as the choice is fixed, one WF or SF formula over "the step A
of the one or B of the other" is fairness of both.

The map from definitions to source lines is in `PROJECT.json`.

## 4. Runs

| Run | Instance | Shows | States |
|---|---|---|---|
| `cleanup` | 2 clients, 2 concurrent sends, 2 closes per client, throws, rejections, expiry | counters, pins, at most one close pending when the drain closes, quiescence and retirement are safe, sends excluded from the drain, and the drain polls only for updates somebody asked for | 3,206,722 |
| `receiver` | 2 VMs, 2 clients, 2 generations, failing source | one reader, demand served or failure visible, joins only without owners | 3,722,049 |
| `receiver_live` | 2 VMs, failure, and (1) one client with every call: raw and close, 1 update, throws, or (2) 2 clients that are created, polled and forgotten | no demand left on a terminal client, nobody asleep without reason, attach/detach get through, one-shots are made, in the order of the identities | 703,346 |
| `storage` | buffer: capacity 2, TTL 2, 6 items, clock to 3; retention: 2 types, up to 2 interests of a kind, native backend | exact count, bounds, order; snapshots and handlers honoured, orphans empty | 1,453,948 |
| `readiness` | doorbell: 3 producers, 2 units of room, 3 items, failures; hub: 2 VMs with a client each, doorbells that cannot be opened | no lost wakeup at either level, refinement of `LevelEvent`, liveness without timeouts | 185,759 |
| `driver` | 2 clients, budget 2, stall after 2, add/remove/stop/progress in callbacks, add/remove/kick between turns, failing callbacks; updates, closing clients and expired deadlines, or owner-wide work and a hub that is lost | order, stalls earned and reported once | 4,237,042 |
| `luv` | 2 clients, budget 1, stall after 1, removal in callbacks, everything between turns; updates, deadlines, kicks or owner-wide work; failing handles and transport | the host sleeps only when nothing is due, updates and deadlines served, stalls reported once registrations rest, retirement | 324,089 |
| `scheduler` | a coroutine outside, deadlines, close, failure, and (1) 2 requests for a Future or a Task, (2) 1 request, 2 updates, 1 handler registration, coroutines resumed by Lua, (3) the same with a nested `receive()` instead, or (4) 1 request, 2 updates, 2 handler registrations of which one replaces the other | truthful outcomes, nobody passed over but by an exception, failures reported once; indexes, counters and owners agree; serial handlers in order, across a replacement too | 2,670,278 |
| `hosts` | cqueues: both controllers, failing kicks and controllers, foreign coroutines; managed driver: 2 clients, 3 states, a serial `loop()` with clients collected, or blocking waits | teardown in order, kicks not lost, retirement; Tasks served through other clients, queued updates get their turn, stopped loops return | 160,817 |
| `lifecycle` | 2 shutdowns and the fallback close, drains nested 3 deep; managed driver: 2 clients, 3 states, 2 calls of `poll()` or `loop()` of every kind, polls in callbacks, clients collected | retry after rejection, no duplicate close, clean ends, the terminal update is read; updates taken by poll or loop kept in order, flags follow the call stack | 2,135,689 |
| `driver_false_stall`, `scheduler_forgotten` | the smallest instance that shows it | see section 5 | |

Why the bounds are enough. Two clients give a bystander to every per-client
property; two sends give an uncertain and a certain one on the same record, and
two closes a rejected one followed by another. Two VMs give an attach against a
join and a last against a non-last detach; two generations a restart. In the
driver, budget 1 with two clients means that no turn is a full round, and budget
2 that every turn can be; two quiet rounds make the stall counter differ from a
flag. In the buffer the capacity, the TTL and the metadata bound (2 * capacity + 1)
are all exceeded by six items. A third producer lets one ring coalesce with a
second while a third publishes; two VMs let one recompute `any_wake_` under the
other. `MaxSerial` bounds registrations between two turn starts, `MaxGen` worker
generations, `MaxUpdates`, `MaxBacklog`, `MaxItems`, `MaxTime` and `MaxWork` the inputs,
`MaxDepth` nested drains, `MaxIds` requests and updates, `MaxCalls` calls of `poll()` and
`loop()`; each appears only in the guard of the action that supplies the input. In the
scheduler two requests let a Task wait for another state while a third coroutine
waits for the Task, which is what makes the lists of `wake()` and
`drainExpiredWaiters()` go stale; two updates are what a serial handler can confuse.
Three states let a Task of one client wait for a request of the other beside an update
or a second Task, and two calls let one take up what the other left; a third drain lets
the middle one end by an exception. `CqueuesAdapter` has no bound at all: its instance
is the whole adapter. The instances of `MCReceiverLive`, `MCScheduler`, `MCLuvAdapter` and
`MCEventLoopDriver` divide the sources of disorder, which together are out of TLC's reach. Deadlock checking is off
where a run may legitimately stop (all threads gone, the drain done, the inputs used
up) and on in `scheduler`.

Symmetry is used in safety runs only, and never on the clients of `Receiver`, whose
identities order the one-shots.

Fairness. `Receiver`: weak fairness for a thread already inside a call and for
the worker of each generation, since the operating system schedules started
threads, `td_receive` returns within its timeout and the drain has a deadline;
nothing obliges a VM to begin a call, TDLib to send or a wait to time out.
`Doorbell` and `ReadinessHub`: rings, publications and detaches in progress finish and
the host keeps turning; no timeout is fair. `LuvAdapter`: a turn that began ends
(callbacks return), and the loop runs an expired timer and a readable descriptor;
nothing else starts a turn. `CqueuesAdapter`: the application loops again, or calls
`run()` and `drain()` again, after it has left; as it may leave at any time, what a
controller that is stepped again and again can resume is resumed by strong fairness,
and `cq:loop()` returns once nothing is attached. `ManagedDriver`: callbacks end or
yield, a call of the scheduler goes on, and a client that is read again and again is
handed each response it is owed (strong fairness per request); nothing obliges main
code to call anything, TDLib to send updates or a wait to time out.

## 5. Where the documentation and the code differ

- `tdlua_eventloop/README.md:110` says that the stall counter advances only on
  full rounds; on the expired-deadline path it counts turns (`driver_false_stall`).
- `CHANGELOG.md:219` says that `await()`, and likewise the wait for a pending Future,
  suspends a coroutine until the response arrives. When two coroutines wait for one
  Future and the first to be resumed raises an error, `resume()` rethrows it out of
  `wake()` (`request_router.h:1468`); the state has left `ready_`, so the other is
  not resumed by this or any later `tick()` (`scheduler_forgotten`), unless the client
  is detached, which notifies it. `WaitersReached` shows that this is the only way to be
  passed over.

Seen while modelling, and not part of the suite:

- `receiver.h:543` says that failed cleanup stays asynchronous while VM owners
  exist and that the last detach joins it; `detachOwner()` (line 482) joins it from any
  detach. A run of `Receiver` for "joined after a failure only without owners"
  fails on its smallest instance.
- `CHANGELOG.md:79` says that subscriptions apply only without a traditional
  consumer; a generic subscription beside a receiving handler-only consumer
  switches `handler_filter` off (line 1298) and so keeps updates that the
  traditional policy drops.
- `tdlua_eventloop/README.md:194` says that churn cannot reset the stall bound;
  `add()` and `remove()` reset the round (`driver.lua:618`), so with a budget below
  the number of clients one removal and registration per turn keeps it from ever
  advancing. `StallReachedAtRest` is what remains.
- A serial event task that Lua resumes while it waits on tdlua fails without
  `finishSerializedEvent()` (`request_router.h:2587`): its handler stays active and
  queues every later update.
- `failStrandedTasks()` (line 838) takes a running Task without a registration for
  stranded. A Task resumed from the first two loops of `tick()`, where
  `draining_` is not set, may itself call `receive()` while an error waits to be
  reported, and is failed while its coroutine runs.
- `tdlua_eventloop/README.md:109` describes the cursor by client
  identity, while between turns it is an index (`driver.lua:247`), so that a
  removal shifts who is next; `InOrder` restarts its order there.
- `include/tdlua/backend/json/client.h:48` says that `shutdown_request_sent_` is set
  while a shutdown is pending, uncertain or accepted. `send()` sets it, and adds the
  request to `shutdown_requests_`, when the ledger has any shutdown pending, this one or
  not. A second close that throws before it is admitted is thus counted, and once the
  first is rejected the flag stays set: disposal waits its five seconds and sends no
  fallback close. `RetryPossible` states this exception.
- `tdlua_eventloop/README.md:242` says that for cqueues the callback runs once
  retirement completes. A stop of an adapter with its own controller asks only whether
  some controller runs (`_controller_running()`, `cqueues.lua:658`), and if so leaves the
  retirement to the adapter's coroutine without a `drain()` (`drain_required`). From a
  coroutine of another controller nothing steps its own. From another coroutine of its
  own controller, while the adapter's is parked, the kick wakes it, but `cq:loop()` may be
  left before it runs, and `run()` of a stopped adapter does not step the controller
  again (line 564). `Retires` exempts the stops of both kinds (`misplaced`).
- `request_router.h:1982` says that after a timed poll has selected an update "the next
  driveStep of this core pumps" the clients its Tasks wait for. If every timed poll
  selects an update, no step ever does, and a Task that waits for another client
  starves behind a busy update stream; `Served` therefore speaks of untimed drivers.
- `driveStep()` returns before the dependency round when its client has no pump (line
  1966). A Task of a client that was collected, waiting for a third client, is then
  driven by nobody: a chain of Tasks through a collected client is cut. `Served` is
  checked, and holds, for two clients.

Observed limits, not contradicted by a document. The worker claims the one-shot of the
lowest identity that has one (`receiver.h:1410`), one per receive: a VM that polls a client
again during each receive holds back for ever the one-shot of a client with a higher
identity. `OneShotServed` therefore promises the receive to a client once those below it
are no longer polled. A client that removes and
registers itself in every callback is visited by every turn; with budget 1 the
others starve, which is why `Served` is checked without `add` in callbacks. A
ring whose write fails marks the transport unreliable, but a host already parked,
or a luv loop asleep, without a timeout is not woken by that; `WorkServed`,
`NoLostWakeup` and, through `missed`, the properties of `LuvAdapter` therefore leave
out the sleep during which the transport failed. After a close that TDLib rejected while the
receiver fails, the drain waits for its deadline (`td.refused` in
`WaitJustified`): nobody reads the rejection any more.

## 6. Proofs

The theorems hold for any number of VMs, clients, generations, producers, requests and
updates, and for every bound and flag. The modules' named assumptions are the only
ones; of sets, only the clients and senders of the ledger (`ClientsFinite`,
`SendersFinite`) and the coroutines of the scheduler (`ThreadsAssumption`) are assumed
finite, since counters count them, and the hub's clients each belong to one VM
(`HubAssumption`).

`FailureCleanupProofs`. `Inv` conjoins `TypeOK`, `WellFormed` records, `Handles`
(what threads keep across unlocked sections), `Accounting` and the pins.
`Accounting` needs all of them: each helper changes a record and the counters
together, so the lemmas `MaterializeSound` ... `RetireSound` show that a helper
moves each counter by exactly what it changes in the record's contribution
(`Balanced`), `CommitSound` lifts that to the cardinalities over all clients, and
`DrainStartInv` handles the visit of all records at once through
`RefreshAll`. The pins are needed because `endSend()` on a missing record would break
the accounting. From it `TypeCorrect`, `AccountingHolds` and `RecordsPinned`
(neither `endSend()` nor `performWork()` ever finds its record gone).

`Inv` knows nothing of TDLib. `Safe` adds, for each client, that
the record, the list it is on and TDLib's actor fit: what runs has a record that says so
or a send about to (`Runs`), a record is on the list `refreshWork()` wants it on unless
the failure came after and the drain has still to visit it (`Listed`), a close TDLib has
is recorded or about to be (`Closes`), and an announced record stays only for who pins
it (`Announced`). Two facts look beyond one record. An owner whose last shutdown
was rejected may send another, and the record then says that none was sent; this is
safe because closes held, rejected and on their way are never more than the shutdowns
the owner has counted (`Budget`). And `performWork()` acts on what it read before
it released the mutex (`WorkerKnows`), which stays true since no sender runs beside the
drain. With `Quiet`, which makes quiescence stable, follow `ClosesNotDoubled`,
`RetirementIsFinal`, `DrainAlone` and `WaitsAreJustified`.

`ReceiverProofs`. The checked invariants lean on each other, so they are proved together,
with what they need. `OneGeneration`: a generation that is alive is the last that
started, a receiver that stops has no owner, and one thread joins it. `CallsHold`: a
thread inside a call on a client is that of the VM which holds the client, so nobody
forgets it meanwhile. `LeasesExact`: a client has a driver if the thread of its VM
carries a token, and a watch if the lease does. `TerminalKnown`: a terminal entry stands
for the terminal update or a failure. From these `OneCaller`, `DemandIsServed`,
`JoinsUnowned`, `LeasesAreCounted` and `SleepersAreRight`. The last is the part that
notifications are for: each step that changes a predicate somebody is parked on has to
wake them in the same critical section, and the proof goes through every step.

`StorageProofs`, of both halves of `publish()`. For the buffer the capacity and the TTL are
positive (`CapacityAssumption`, `TTLAssumption`) and the bounds on inputs natural numbers.
`Bounded` is not inductive: that the pending count is exact needs to know what the owner
has retired and not yet subtracted (`Debt`), that an insertion keeps the capacity needs the
room that the eviction before it made although the owner works on (`Room`), and that the
metadata stay bounded needs what a compaction leaves (`Compacted`). `Ascending`, `Queued`
and `EvictsHead` say that the fifo has every live ticket in the order of issue, wherever
the worker is between picking one and retiring it; from these `StorageDropsOldest`. The
lemmas on `Without` (what is left of a sequence, and in which order) carry compaction.
For retention `HeldNow` and `Classified` follow an interest held since the receive began
through the three reads, `OrphanCleared` a forgotten client; the decision itself is the
lemma `Decision`. Results: `StorageBounded`, `StorageDropsOldest` and `StorageKept`, the
last two about steps.

`ReadinessProofs`, of both levels. For the doorbell `Invariance` proves `Inv == TypeOK /\
FlagCovered /\ CheckedCovered`. `NoLostWakeup` alone is not inductive: a host that parks
is safe because it checked the level after lowering the flag, and a producer that found
the flag raised is safe because a raised flag stands for a byte in the kernel
object, a write under way, or a clear that will lower the flag before the check.
`FlagCovered` says the latter, `CheckedCovered` the former. From them follow
`TypeCorrect`, `FlagAlwaysCovered`, `NoWakeupLost`, and `Refinement`: every step maps to a
step of `LevelEvent` or a stutter. For the hub, `HostsReached` speaks of a VM, but a ring
for one client is lost when that client is unbound, and the host reads its mailboxes one
by one. `Attended` therefore states for each client, from the moment the host has read its
mailbox, that the bell was rung, will be, or nothing is there. `FlagCovers` is what makes
the load of `any_wake_` without the lock harmless, `HostsPlaced` and `EntriesPlaced` place
hosts and clients. From it `WakesReachHosts` (`HubWakes`).

`SchedulerProofs`. The five invariants of the scheduler are proved together, from
`SchedulerInv`. Of the core it says (`CoreInv`) that the indexes of waits agree (`Waits`),
what is pending, withdrawn or running (`Requested`), what was reported (`Reported`), and in
which order updates were handed out: `Arrivals` over all handlers, `Queues` for what a
serial handler still has to see, `OneAtATime` for its tasks. Of the stack it says
(`StackInv`) what may be on it (`Shape`), that a running Task is on it or waits (`Placed`),
that what is over and unheld will be retired (`Retiring`), that who waits for it will be
reached (`Reaching`), and that outcomes are true (`Honest`); `Leases` relates handles to the
blocking wait on the stack. A handler calls several helpers in a row, and between them the
invariant does not hold: a state that has just ended has not been woken, a coroutine has
left the stack before its Task is finished. `Sound(c, s, l, g, E, F)` is therefore
the invariant of any core and stack with two sets of exceptions, the states still to be
retired (`E`) and those whose waiters are still to be reached or whose Task is still to be
finished (`F`). One lemma per helper (`retireState`, `register`, `removeRegistration`,
`endTask`, `finishSerializedEvent`, `bindDeferredEvent`, `detachTransport`,
`routeResponse`, ...) says which exceptions it makes or settles; `Throw` is a lemma of its
own, since unwinding leaves several frames at once. The lemma of a step composes them, and
ends with the one exception a step may leave: the state of the `wake` frame on top. Results:
`SchedulerConsistent`, `SchedulerHonest`, `SchedulerReaches`, `SchedulerReports` and
`SchedulerSerial`, for any number of requests, updates, handlers, coroutines and nested
calls; the instances of `MCScheduler` restrict the same steps.

`CqueuesAdapterProofs`. A kick is owed a byte wherever in a turn it comes (`Signal`), not
only under the park where its loss would show, and the fields of the adapter, its
coroutine and the loop belong together (`Wellformed`, `PendingJustified`,
`ReleasedJustified`). From it `NoKickLost` and, step by step, `OrderlyTeardown`.

`ClientLifecycleProofs`. `RetryPossible` needs that what `TDLua` remembers is true:
an answer to a close comes once (`OneAnswer`), the facade remembers each close that is
undecided (`Remembers`) and believes one under way for a reason (`Believes`), over every
order of answers in the mailbox. `FramesMatch` and `TerminalInDrain` say what the nested
drains still have to do for a terminal update met in a callback. From these
`ShutdownsRetried`, `DemandOutlivesFacade`, `ClientsEndClean` and, as a property
of steps, `NeverClosedTwice`.

Its second part is the managed driver, with the invariant `CallsInv` of
`ManagedInvariant`. `Items` says of every state what it may be (`Known`), which loop it
belongs to (`OfLoop`) and where it is: what was taken is preserved, selected or queued, in
one place (`InPlace`), and what a serial loop holds comes in order behind the one Task at
work (`InTurn`); ready states and notifications are those that are due (`Listed`), and two
loops never share an observer (`Watched`). `StackInv` says that the flags of a client are
the frames on the stack, one for each raised flag, and that a coroutine is on it
once. `KeptInOrder` alone is not inductive, since it says nothing of what the frames
in the middle of the stack will do when they go on. As in `SchedulerProofs` the
operators are called several in a row, so `Items(x, n, K)` has the items `K` that have been
taken from one place and not yet put into the next, and a lemma per operator says how
`K` changes. `Throw` ends every `poll()` and `loop()` it unwinds at once
(`endUpdateConsumers`), and `driveStep()`, `tick()` and their callers change one frame each,
which the lemmas on the top of the stack (`PushStep`, `SwapStep`, `LeaveStep`) handle
for all of them. Result: `TakenIsKept`.

`DriverProofs`. `Listing` is the order of registrations by serial with the cursor among
them. `InOrder` compares the client served with history kept across turns; it is
inductive with the snapshot as a rotation of that order (`Rotation`, on the
cyclic order `Cyclic`) and with nothing registered left in the snapshot before the one
that is due (`NextIsDue`). `OncePerEpisode` needs the
flag for as long as a report counts (`Episode`). `StallEarned` relates the code's
rounds, which the cursor delimits and any `add()` or `remove()` restarts, to complete
sweeps, which know nothing of either: `Covers` says that there are as many sweeps as idle
rounds, and that, unless one ended during the current round, what this
round has called the current sweep has called. Around it `LuvInv` shows that the timer of
an open adapter is off between turns only after a turn that found nothing to wait for.
Results: `Once`, `Order`, `Earn` (an action property), `Sleep`, and `UnderLuv` for the
driver's properties under the adapter, whose own stops are no steps of the driver.

Only model-checked is liveness under fairness (`ReapEnds`, `OneShotServed`, `Served`,
`Retires`, `StallReachedAtRest`): temporal proofs with ENABLED are out of the prover's
reach. The refutations of section 5 are TLC's alone.

## 7. Not modelled

- The views of the readiness hub (`readiness_view.h`) and their C and Lua bindings:
  they look an owner up by its generation and call the hub; what an invalidated view
  may meet is the `detached` stage of `ReadinessHub`.
- In `Scheduler`: `await()` on a coroutine that has already yielded, coroutines
  collected while they wait (`abandon()`), a Task that yields to nobody (it ends like
  one that fails), and the paths taken when Lua runs out of memory. In
  `ManagedDriver`: what section 3 lists.
- Injected transports of the clients, and the conversion of requests before they are
  sent. Memory exhaustion is modelled only where the code turns it into a receiver
  failure, a thrown send or a failed binding. The queue limits of managed responses.
- An item that `td_receive()` returned and the parser rejected before the ledger observed
  it (`src/src/backend/json/runtime.cpp:120`): the worker fails the receiver, as for any
  exception of the source, and the ledger's account of that client is an item behind.
- Codecs and the generator convert data over an unbounded schema, the Lua bindings
  check arguments and keep the Lua stack balanced around the components above, module
  residency is one platform call, and opening descriptors is pure I/O: none has a state
  space for TLC to explore.

Most of the repository by size is not its own program: `include/nlohmann/json.hpp`
and `include/compat-5.3` are vendored libraries. The map covers the state machines
of `include/tdlua/common`, the JSON client and the event-loop modules; the rest of the
code is bindings and codecs.
