-------------------------- MODULE SchedulerProofs --------------------------
(***************************************************************************)
(* Proofs about SchedulerCore, for any numbers of coroutines, requests,    *)
(* updates and handlers, and any depth of calls from inside callbacks.     *)
(***************************************************************************)
EXTENDS Scheduler, FiniteSetTheorems, TLAPS

-----------------------------------------------------------------------------
(***************************************************************************)
(* The types.                                                              *)
(***************************************************************************)

Statuses == {"Pending", "Running", "Resolved", "Done", "Failed"}

StateRecord ==
  [kind : RequestKinds \cup {"none", "EventTask"}, status : Statuses,
   handles : Nat, waiters : Nat, observed : BOOLEAN, reports : Nat,
   teardown : BOOLEAN, handler : 0 .. MaxHandlers]

HandlerRecord ==
  [concurrent : BOOLEAN, active : BOOLEAN, removed : BOOLEAN, queue : Seq(EventIds)]

Core ==
  [st : [States -> StateRecord], live : SUBSET States, next : Nat \ {0},
   pending : SUBSET Requests, pending_requests : Int,
   waiters : [Threads -> WaitRecord \cup {None}],
   notifications : [Threads -> WaitRecord \cup {None}],
   waitBindings : SUBSET Threads, running_tasks : SUBSET States,
   ready : Seq(States), deferred_events : Seq(EventIds), event : Nat,
   handler : [Handlers -> HandlerRecord], handlers : 0 .. MaxHandlers,
   current : 0 .. MaxHandlers, events_enabled : BOOLEAN, errors : Nat,
   pump : BOOLEAN, detach_after_drain : BOOLEAN, draining : BOOLEAN,
   drive_active : BOOLEAN]

LuaFrames ==
  [at : {"lua"}, thread : Threads, by : {"main", "lua", "run", "resume"},
   task : States \cup {None}, wait : WaitRecord \cup {None},
   outcome : {"none", "Success", "Failed", "Timeout"}, quiet : BOOLEAN]
WakeFrames ==
  [at : {"wake"}, state : States, todo : SUBSET Threads,
   after : {"none", "finish", "setup"}]
TickFrames == [at : Ticking, todo : SUBSET Threads]
StrandFrames == [at : {"strand"}, todo : SUBSET States]
WaitFrames == [at : Waiting, state : States]
DriveFrames == [at : {"pump", "drive_end", "throw"}]
Frames == LuaFrames \cup WakeFrames \cup TickFrames \cup StrandFrames
          \cup WaitFrames \cup DriveFrames

-----------------------------------------------------------------------------
(***************************************************************************)
(* The invariant.  Its parts speak of the core, of the core and the stack  *)
(* s, the coroutines l and the history g.                                  *)
(***************************************************************************)

isReady(c, x) == \E i \in DOMAIN c.ready : c.ready[i] = x

\* The indexes of waits agree with each other and with the states; a notification is
\* about a state that is over; a coroutine waits for the Task it runs, if any.
Waits(c) ==
  /\ \A t \in Threads : c.waiters[t] = None \/ c.notifications[t] = None
  /\ c.waitBindings = {t \in Threads : registration(c, t) # None}
  /\ \A x \in States : c.st[x].waiters = Cardinality(waitersOf(c, x))
  /\ \A x \in States : c.st[x].waiters > 0 \/ c.st[x].handles > 0 => x \in c.live
  /\ \A t \in Threads : c.notifications[t] # None
                          => isTerminalState(c, c.notifications[t].dependency)
  /\ \A t \in c.waitBindings :
       LET r == registration(c, t) IN
       /\ r.task \in {None, t} /\ (r.task # None => t \in c.running_tasks)
       /\ r.expired => r.timed

\* What is pending was sent and not answered; what was never created or was withdrawn
\* is nowhere; the tasks that are Running are those the scheduler knows of; nobody holds
\* a raw request.
Requested(c) ==
  /\ c.pending_requests = Cardinality({x \in c.pending : c.st[x].kind # "Raw"})
  /\ \A x \in c.pending : /\ x \in c.live /\ c.st[x].status = "Pending"
                          /\ c.st[x].kind \in RequestKinds /\ ~isReady(c, x)
  /\ \A x \in States : c.st[x].kind = "none" => c.st[x] = NoState /\ x \notin c.live
  /\ \A x \in Requests : x >= c.next => c.st[x].kind = "none"
  /\ \A x \in States \ c.live :
       ~isTerminalState(c, x) => c.st[x].status = "Pending" /\ ~isReady(c, x)
  /\ \A x \in States : c.st[x].status = "Running" <=> x \in c.running_tasks
  /\ \A x \in States : c.st[x].kind = "Raw" => c.st[x].handles = 0 /\ c.st[x].waiters = 0

\* A failure is reported at most once, by a state that is over; one of a Task only if
\* nobody saw it, and together with the state.
Reported(c) ==
  /\ c.errors <= Cardinality({x \in States : c.st[x].reports > 0})
  /\ \A x \in States :
       LET s == c.st[x] IN
       /\ s.reports > 0 => s.reports = 1 /\ isTerminalState(c, x)
       /\ s.kind = "Task" /\ s.status = "Failed" /\ x \notin c.live
            => s.observed \/ s.teardown \/ s.reports = 1
       /\ s.kind = "Task" /\ s.reports > 0 => x \notin c.live /\ ~s.observed

Ascends(s) == \A i, j \in DOMAIN s : i < j => s[i] < s[j]
inQueue(c, h, x) == \E i \in DOMAIN c.handler[h].queue : c.handler[h].queue[i] = x
eventOf(c, h, x) == c.st[x].kind = "EventTask" /\ c.st[x].handler = h
\* The update has been handed to a handler.
isBound(c, x) == c.st[x].kind = "EventTask" \/ \E h \in Handlers : inQueue(c, h, x)

\* Updates are bound in the order of their arrival.
Arrivals(c) ==
  /\ \A x \in States : c.st[x].kind = "EventTask" =>
       x \in EventIds /\ c.st[x].handler \in 1 .. c.handlers
  /\ \A x \in EventIds : c.st[x].kind \in {"none", "EventTask"}
  /\ Ascends(c.deferred_events)
  /\ \A i \in DOMAIN c.deferred_events :
       /\ c.deferred_events[i] < c.event
       /\ \A x \in EventIds : isBound(c, x) => x < c.deferred_events[i]
  /\ \A x \in EventIds : isBound(c, x) => x < c.event
  /\ c.current <= c.handlers

\* The updates a handler has still to see are younger than those it has seen, nobody
\* else will see them, and only a serial handler that is at work has any.
Queues(c) ==
  \A h \in Handlers :
    /\ Ascends(c.handler[h].queue)
    /\ \A x \in EventIds : inQueue(c, h, x) =>
         /\ c.st[x].kind = "none"
         /\ \A k \in Handlers \ {h} : ~inQueue(c, k, x)
         /\ \A y \in EventIds : eventOf(c, h, y) => y < x
    /\ c.handler[h].queue # <<>> => c.handler[h].active
    /\ c.handler[h].active => ~c.handler[h].concurrent
    /\ h > c.handlers => ~c.handler[h].active

\* A serial handler is at work as long as its last task is, and the ones before it
\* are over.
OneAtATime(c) ==
  \A h \in Handlers : ~c.handler[h].concurrent =>
    \A x \in EventIds : eventOf(c, h, x) =>
      /\ ~isTerminalState(c, x) => c.handler[h].active
      /\ \A y \in EventIds : x < y /\ eventOf(c, h, y) => isTerminalState(c, x)

Serial(c) == Arrivals(c) /\ Queues(c) /\ OneAtATime(c)

CoreInv(c) == c \in Core /\ Waits(c) /\ Requested(c) /\ Reported(c) /\ Serial(c)

\* The main thread is at the bottom, with its blocking wait above it if it waits; a
\* coroutine is on the stack once and runs its own Task or none.
Shape(s) ==
  /\ s \in Seq(Frames) /\ Len(s) > 0
  /\ \A i \in DOMAIN s : (s[i].at = "lua" /\ s[i].thread = Main) <=> i = 1
  /\ \A i, j \in DOMAIN s :
       s[i].at = "lua" /\ s[j].at = "lua" /\ s[i].thread = s[j].thread => i = j
  /\ \A i \in DOMAIN s : s[i].at \in Waiting => i = 2
  /\ \A i \in DOMAIN s : s[i].at = "lua" =>
       /\ s[i].task \in {None, s[i].thread}
       /\ s[i].by \in {"main", "lua"} => s[i].task = None /\ ~s[i].quiet
       /\ s[i].by = "resume" => s[i].wait # None /\ s[i].outcome # "none"

isOn(s, t) == \E i \in DOMAIN s : s[i].at = "lua" /\ s[i].thread = t
runs(s, x) == \E i \in DOMAIN s : s[i].at = "lua" /\ s[i].thread = x /\ s[i].task = x

\* What runs does not wait; a Task that is Running runs or waits, except for those in F;
\* a coroutine of a request that is Pending has not been started.
Placed(c, s, l, F) ==
  /\ l \in [Threads -> {"fresh", "live", "dead"}]
  /\ \A t \in c.waitBindings : ~isOn(s, t)
  /\ \A x \in c.running_tasks \ F :
       (x \in c.waitBindings /\ registration(c, x).task = x) \/ runs(s, x)
  /\ \A i \in DOMAIN s :
       s[i].at = "lua" /\ s[i].task # None => c.st[s[i].task].status # "Pending"
  /\ \A x \in States :
       /\ c.st[x].status = "Pending" => l[x] = "fresh"
       /\ l[x] = "fresh" => x \notin c.waitBindings /\ ~isOn(s, x)

\* wake() is called for states that are over, and who is over and held by nobody is
\* ready to be woken and retired, except for those in E.
Retiring(c, s, E) ==
  /\ \A i \in DOMAIN s : s[i].at = "wake" => isTerminalState(c, s[i].state)
  /\ \A x \in c.live \ E :
       isTerminalState(c, x) /\ c.st[x].handles = 0 /\ c.st[x].waiters = 0 => isReady(c, x)

leased(s, x) == Len(s) >= 2 /\ s[2].at \in Waiting /\ s[2].state = x

\* A state has the handle it was created with, until that is collected, and the lease
\* of the blocking wait.
Leases(c, s) ==
  \A x \in States :
    IF leased(s, x) THEN c.st[x].handles \in 1 .. 2 ELSE c.st[x].handles \in 0 .. 1

wakes(s, x, t) ==
  \E i \in DOMAIN s : s[i].at = "wake" /\ s[i].state = x /\ t \in s[i].todo

\* Whoever waits for a state that is over will be reached, except for the states in F.
Reaching(c, s, g, F) ==
  \A t \in Threads :
    c.waiters[t] # None =>
      LET x == c.waiters[t].dependency IN
      isTerminalState(c, x) /\ x \notin F => isReady(c, x) \/ t \in g \/ wakes(s, x, t)

Honest(c, s) ==
  \A i \in DOMAIN s : s[i].at = "lua" /\ s[i].by = "resume" =>
    LET w == s[i].wait
        r == c.st[w.dependency]
    IN /\ s[i].outcome = "Success" => r.status \in {"Resolved", "Done"}
       /\ s[i].outcome = "Failed" => r.status = "Failed" /\ r.observed
       /\ s[i].outcome = "Timeout" => w.timed /\ w.expired

StackInv(c, s, l, g, E, F) ==
  Shape(s) /\ Placed(c, s, l, F) /\ Retiring(c, s, E) /\ Reaching(c, s, g, F) /\ Honest(c, s)

Sound(c, s, l, g, E, F) == CoreInv(c) /\ StackInv(c, s, l, g, E, F) /\ Leases(c, s)

\* The state that wake() retires next.
woken(s) == IF s[Len(s)].at = "wake" THEN {s[Len(s)].state} ELSE {}

SchedulerInv == Sound(core, stack, lua, lost, woken(stack), {})

-----------------------------------------------------------------------------
(***************************************************************************)
(* Types and finiteness.                                                   *)
(***************************************************************************)

LEMMA ThreadsFinite ==
  /\ IsFiniteSet(States) /\ IsFiniteSet(Threads) /\ IsFiniteSet(Requests)
  /\ \A S \in SUBSET States : IsFiniteSet(S) /\ Cardinality(S) \in Nat
  /\ \A S \in SUBSET Threads : IsFiniteSet(S) /\ Cardinality(S) \in Nat
<1>1. IsFiniteSet(Requests) /\ IsFiniteSet(EventIds)
      BY FS_Interval, BoundsAssumption DEF Requests, EventIds
<1>2. IsFiniteSet(States)
      BY <1>1, FS_Union DEF States
<1>3. IsFiniteSet(States \cup Coroutines)
      BY <1>2, FS_Union, ThreadsAssumption
<1>4. IsFiniteSet({Main})
      BY FS_Singleton
<1>5. IsFiniteSet(Threads)
      BY <1>3, <1>4, FS_Union DEF Threads
<1> QED
      BY <1>1, <1>2, <1>5, FS_Subset, FS_CardinalityType

LEMMA StateKinds ==
  /\ States \subseteq Nat \ {0} /\ Requests \subseteq States /\ EventIds \subseteq States
  /\ States \subseteq Threads /\ Requests \cap EventIds = {}
  /\ Main \in Threads /\ Main \notin States /\ None \notin States /\ None \notin Threads
  /\ None \notin WaitRecord
      BY BoundsAssumption, ThreadsAssumption DEF States, Requests, EventIds, Threads

LEMMA CoreTypes ==
  ASSUME NEW c \in Core
  PROVE  /\ c.st \in [States -> StateRecord] /\ c.live \subseteq States /\ c.next \in Nat \ {0}
         /\ c.pending \subseteq Requests /\ c.pending_requests \in Int
         /\ c.waiters \in [Threads -> WaitRecord \cup {None}]
         /\ c.notifications \in [Threads -> WaitRecord \cup {None}]
         /\ c.waitBindings \subseteq Threads /\ c.running_tasks \subseteq States
         /\ c.ready \in Seq(States) /\ c.deferred_events \in Seq(EventIds)
         /\ c.event \in Nat /\ c.handler \in [Handlers -> HandlerRecord]
         /\ c.handlers \in 0 .. MaxHandlers /\ c.current \in 0 .. MaxHandlers
         /\ c.events_enabled \in BOOLEAN /\ c.errors \in Nat
      BY DEF Core

LEMMA StateTypes ==
  ASSUME NEW c \in Core, NEW x \in States
  PROVE  /\ c.st[x] \in StateRecord
         /\ c.st[x].kind \in RequestKinds \cup {"none", "EventTask"}
         /\ c.st[x].status \in Statuses
         /\ c.st[x].handles \in Nat /\ c.st[x].waiters \in Nat
         /\ c.st[x].observed \in BOOLEAN /\ c.st[x].reports \in Nat
         /\ c.st[x].teardown \in BOOLEAN /\ c.st[x].handler \in 0 .. MaxHandlers
<1>1. c.st[x] \in StateRecord
      BY CoreTypes
<1> QED
      BY <1>1 DEF StateRecord

LEMMA RegistrationType ==
  ASSUME NEW c \in Core, NEW t \in Threads
  PROVE  /\ registration(c, t) \in WaitRecord \cup {None}
         /\ registration(c, t) # None => registration(c, t).dependency \in States
      BY CoreTypes DEF registration, WaitRecord

LEMMA FrameTypes ==
  ASSUME NEW s \in Seq(Frames), NEW i \in DOMAIN s
  PROVE  /\ s[i] \in Frames
         /\ s[i].at = "lua" => s[i] \in LuaFrames
         /\ s[i].at = "wake" => s[i] \in WakeFrames
         /\ s[i].at \in Ticking => s[i] \in TickFrames
         /\ s[i].at = "strand" => s[i] \in StrandFrames
         /\ s[i].at \in Waiting => s[i] \in WaitFrames
<1>1. s[i] \in Frames
      OBVIOUS
<1> QED
      BY <1>1 DEF Frames, LuaFrames, WakeFrames, TickFrames, StrandFrames, WaitFrames,
                  DriveFrames, Ticking, Draining, Waiting

-----------------------------------------------------------------------------
(***************************************************************************)
(* One state changes in what only its holders see.                         *)
(***************************************************************************)

put(c, x, r) == [c EXCEPT !.st[x] = r]

\* All but the states themselves is as it was.
SameElse(c, d) ==
  /\ d.live = c.live /\ d.next = c.next /\ d.pending = c.pending
  /\ d.pending_requests = c.pending_requests /\ d.waiters = c.waiters
  /\ d.notifications = c.notifications /\ d.waitBindings = c.waitBindings
  /\ d.running_tasks = c.running_tasks /\ d.ready = c.ready
  /\ d.deferred_events = c.deferred_events /\ d.event = c.event
  /\ d.handler = c.handler /\ d.handlers = c.handlers /\ d.current = c.current
  /\ d.events_enabled = c.events_enabled /\ d.errors = c.errors

LEMMA PutFields ==
  ASSUME NEW c \in Core, NEW x \in States, NEW r \in StateRecord
  PROVE  /\ put(c, x, r) \in Core /\ SameElse(c, put(c, x, r))
         /\ \A y \in States : put(c, x, r).st[y] = IF y = x THEN r ELSE c.st[y]
<1>1. PICK f \in [States -> StateRecord] : f = [c.st EXCEPT ![x] = r]
      BY CoreTypes
<1>2. \A y \in States : f[y] = IF y = x THEN r ELSE c.st[y]
      BY <1>1, CoreTypes
<1>3. put(c, x, r) = [c EXCEPT !.st = f]
      BY <1>1 DEF put
<1>4. [c EXCEPT !.st = f] \in Core /\ [c EXCEPT !.st = f].st = f
      BY DEF Core
<1>5. SameElse(c, [c EXCEPT !.st = f])
      BY DEF Core, SameElse
<1> QED
      BY <1>2, <1>3, <1>4, <1>5

\* What a step may do to a state that only its holders see: its handles, and whether
\* its failure was observed or came from closing the client.
Touches(c, d) ==
  /\ SameElse(c, d)
  /\ \A y \in States :
       /\ d.st[y].kind = c.st[y].kind /\ d.st[y].status = c.st[y].status
       /\ d.st[y].waiters = c.st[y].waiters /\ d.st[y].handler = c.st[y].handler
       /\ d.st[y].reports = c.st[y].reports
       /\ c.st[y].observed => d.st[y].observed
       /\ c.st[y].teardown => d.st[y].teardown
       /\ c.st[y].kind = "none" => d.st[y] = c.st[y]
       /\ d.st[y].handles > 0 => c.st[y].handles > 0
       /\ c.st[y].kind = "Task" /\ c.st[y].reports > 0 => d.st[y].observed = c.st[y].observed

LEMMA SameWaits ==
  ASSUME NEW c, NEW d, c.waiters = d.waiters, c.notifications = d.notifications
  PROVE  /\ \A t : registration(d, t) = registration(c, t)
         /\ \A x : waitersOf(d, x) = waitersOf(c, x)
      BY DEF registration, waitersOf

LEMMA TouchesWaits ==
  ASSUME NEW c \in Core, NEW d \in Core, Waits(c), Touches(c, d)
  PROVE  Waits(d)
<1>1. c.waiters = d.waiters /\ c.notifications = d.notifications /\ d.live = c.live
      /\ d.waitBindings = c.waitBindings /\ d.running_tasks = c.running_tasks
      BY DEF Touches, SameElse
<1>2. /\ \A t : registration(d, t) = registration(c, t)
      /\ \A x : waitersOf(d, x) = waitersOf(c, x)
      BY <1>1, SameWaits
<1>3. \A x \in States : /\ isTerminalState(d, x) = isTerminalState(c, x)
                        /\ d.st[x].waiters = c.st[x].waiters
                        /\ d.st[x].handles > 0 => c.st[x].handles > 0
      BY DEF Touches, isTerminalState
<1>4. \A t \in Threads :
        c.notifications[t] # None => c.notifications[t].dependency \in States
      BY CoreTypes DEF WaitRecord
<1>5. /\ \A t \in Threads : d.waiters[t] = None \/ d.notifications[t] = None
      /\ d.waitBindings = {t \in Threads : registration(d, t) # None}
      /\ \A x \in States : d.st[x].waiters = Cardinality(waitersOf(d, x))
      BY <1>1, <1>2, <1>3 DEF Waits
<1>6. \A x \in States : d.st[x].waiters > 0 \/ d.st[x].handles > 0 => x \in d.live
      BY <1>1, <1>3 DEF Waits
<1>7. \A t \in Threads : d.notifications[t] # None
                          => isTerminalState(d, d.notifications[t].dependency)
      BY <1>1, <1>3, <1>4 DEF Waits
<1>8. \A t \in d.waitBindings :
       LET r == registration(d, t) IN
       /\ r.task \in {None, t} /\ (r.task # None => t \in d.running_tasks)
       /\ r.expired => r.timed
      BY <1>1, <1>2 DEF Waits
<1> QED
      BY <1>5, <1>6, <1>7, <1>8 DEF Waits

LEMMA TouchesRequested ==
  ASSUME NEW c \in Core, NEW d \in Core, Requested(c), Touches(c, d)
  PROVE  Requested(d)
<1>1. /\ d.live = c.live /\ d.pending = c.pending /\ d.next = c.next
      /\ d.pending_requests = c.pending_requests
      /\ d.running_tasks = c.running_tasks /\ d.ready = c.ready
      BY DEF Touches, SameElse
<1>2. \A x \in States : /\ isTerminalState(d, x) = isTerminalState(c, x)
                        /\ isReady(d, x) = isReady(c, x)
                        /\ d.st[x].kind = c.st[x].kind /\ d.st[x].status = c.st[x].status
                        /\ c.st[x].kind = "none" => d.st[x] = c.st[x]
      BY <1>1 DEF Touches, isTerminalState, isReady
<1>5. \A x \in States :
        d.st[x].kind = "Raw" => d.st[x].handles = 0 /\ d.st[x].waiters = 0
  <2>1. \A x \in States : /\ d.st[x].kind = c.st[x].kind
                          /\ d.st[x].waiters = c.st[x].waiters
                          /\ d.st[x].handles > 0 => c.st[x].handles > 0
        BY DEF Touches
  <2> QED
        BY <2>1, StateTypes DEF Requested
<1>3. c.pending \subseteq States /\ Requests \subseteq States
      BY CoreTypes, StateKinds
<1>4. {x \in d.pending : d.st[x].kind # "Raw"} = {x \in c.pending : c.st[x].kind # "Raw"}
      BY <1>1, <1>2, <1>3
<1>6. \A x \in States : d.st[x].status = "Running" <=> x \in d.running_tasks
      BY <1>1, <1>2 DEF Requested
<1>7. \A x \in States : d.st[x].kind = "none" => d.st[x] = NoState /\ x \notin d.live
      BY <1>1, <1>2 DEF Requested
<1>8. \A x \in d.pending : /\ x \in d.live /\ d.st[x].status = "Pending"
                           /\ d.st[x].kind \in RequestKinds /\ ~isReady(d, x)
      BY <1>1, <1>2, <1>3 DEF Requested
<1>9. d.pending_requests = Cardinality({x \in d.pending : d.st[x].kind # "Raw"})
      BY <1>1, <1>4 DEF Requested
<1>10. \A x \in Requests : x >= d.next => d.st[x].kind = "none"
      BY <1>1, <1>2, <1>3 DEF Requested
<1>11. \A x \in States \ d.live :
         ~isTerminalState(d, x) => d.st[x].status = "Pending" /\ ~isReady(d, x)
      BY <1>1, <1>2 DEF Requested
<1> QED
      BY <1>5, <1>6, <1>7, <1>8, <1>9, <1>10, <1>11 DEF Requested

LEMMA TouchesReported ==
  ASSUME NEW c \in Core, NEW d \in Core, Reported(c), Touches(c, d)
  PROVE  Reported(d)
<1>1. d.live = c.live /\ d.errors = c.errors
      BY DEF Touches, SameElse
<1>2. {x \in States : d.st[x].reports > 0} = {x \in States : c.st[x].reports > 0}
      BY DEF Touches
<1>3. ASSUME NEW x \in States
      PROVE  LET s == d.st[x] IN
             /\ s.reports > 0 => s.reports = 1 /\ isTerminalState(d, x)
             /\ s.kind = "Task" /\ s.status = "Failed" /\ x \notin d.live
                  => s.observed \/ s.teardown \/ s.reports = 1
             /\ s.kind = "Task" /\ s.reports > 0 => x \notin d.live /\ ~s.observed
      BY <1>1, <1>3 DEF Touches, Reported, isTerminalState
<1> QED
      BY <1>1, <1>2, <1>3 DEF Reported

\* What the arrivals and queues depend on.
LEMMA SameSerial ==
  ASSUME NEW c \in Core, NEW d \in Core, Serial(c),
         d.deferred_events = c.deferred_events, d.event = c.event,
         d.handler = c.handler, d.handlers = c.handlers, d.current = c.current,
         \A y \in States : /\ d.st[y].kind = c.st[y].kind
                           /\ d.st[y].handler = c.st[y].handler
                           /\ isTerminalState(c, y) => isTerminalState(d, y)
  PROVE  Serial(d)
<1>1. EventIds \subseteq States
      BY StateKinds
<1>2. /\ \A h, x : inQueue(d, h, x) = inQueue(c, h, x)
      /\ \A h : \A x \in States : eventOf(d, h, x) = eventOf(c, h, x)
      /\ \A x \in States : isBound(d, x) = isBound(c, x)
      BY DEF inQueue, eventOf, isBound
<1>3. Arrivals(d)
      BY <1>1, <1>2 DEF Serial, Arrivals
<1>4. Queues(d)
      BY <1>1, <1>2 DEF Serial, Queues
<1>5. OneAtATime(d)
      BY <1>1, <1>2 DEF Serial, OneAtATime
<1> QED
      BY <1>3, <1>4, <1>5 DEF Serial

LEMMA TouchesCore ==
  ASSUME NEW c, NEW d \in Core, CoreInv(c), Touches(c, d)
  PROVE  CoreInv(d)
<1>1. c \in Core /\ Waits(c) /\ Requested(c) /\ Reported(c) /\ Serial(c)
      BY DEF CoreInv
<1>2. Serial(d)
      BY <1>1, SameSerial DEF Touches, SameElse, isTerminalState
<1> QED
      BY <1>1, <1>2, TouchesWaits, TouchesRequested, TouchesReported DEF CoreInv

LEMMA TouchesStack ==
  ASSUME NEW c \in Core, NEW d \in Core, Touches(c, d), NEW s, NEW l, NEW g, NEW E, NEW E2,
         NEW F, StackInv(c, s, l, g, E, F), E \subseteq E2,
         \A y \in c.live \ E2 : d.st[y].handles = 0 => c.st[y].handles = 0
  PROVE  StackInv(d, s, l, g, E2, F)
<1>1. d.live = c.live /\ d.waiters = c.waiters /\ d.notifications = c.notifications
      /\ d.waitBindings = c.waitBindings /\ d.running_tasks = c.running_tasks
      /\ d.ready = c.ready /\ c.live \subseteq States
      BY CoreTypes DEF Touches, SameElse
<1>2. \A t : registration(d, t) = registration(c, t)
      BY <1>1, SameWaits
<1>3. \A x \in States : /\ isTerminalState(d, x) = isTerminalState(c, x)
                        /\ isReady(d, x) = isReady(c, x)
                        /\ d.st[x].waiters = c.st[x].waiters
                        /\ d.st[x].status = c.st[x].status
                        /\ c.st[x].observed => d.st[x].observed
      BY <1>1 DEF Touches, isTerminalState, isReady
<1>4. Shape(s)
      BY DEF StackInv
<1>5. \A i \in DOMAIN s : /\ s[i].at = "wake" => s[i].state \in States
                          /\ s[i].at = "lua" /\ s[i].task # None => s[i].task \in States
                          /\ s[i].at = "lua" /\ s[i].by = "resume" => s[i].wait.dependency \in States
      BY <1>4, FrameTypes DEF Shape, LuaFrames, WakeFrames, WaitRecord
<1>6. Placed(d, s, l, F)
      BY <1>1, <1>2, <1>3, <1>5 DEF StackInv, Placed
<1>7. Retiring(d, s, E2)
      BY <1>1, <1>3, <1>5 DEF StackInv, Retiring
<1>8. \A t \in Threads : c.waiters[t] # None => c.waiters[t].dependency \in States
      BY CoreTypes DEF WaitRecord
<1>9. Reaching(d, s, g, F)
      BY <1>1, <1>3, <1>8 DEF StackInv, Reaching
<1>10. Honest(d, s)
      BY <1>3, <1>5 DEF StackInv, Honest
<1> QED
      BY <1>4, <1>6, <1>7, <1>9, <1>10 DEF StackInv

-----------------------------------------------------------------------------
(***************************************************************************)
(* retireState().                                                          *)
(***************************************************************************)

\* What retiring leaves alone.
Retires(c, d, x) ==
  /\ d.next = c.next /\ d.pending = c.pending
  /\ d.pending_requests = c.pending_requests /\ d.waiters = c.waiters
  /\ d.notifications = c.notifications /\ d.waitBindings = c.waitBindings
  /\ d.running_tasks = c.running_tasks /\ d.ready = c.ready
  /\ d.deferred_events = c.deferred_events /\ d.event = c.event
  /\ d.handler = c.handler /\ d.handlers = c.handlers /\ d.current = c.current
  /\ d.events_enabled = c.events_enabled
  /\ c.live \ {x} \subseteq d.live /\ d.live \subseteq c.live
  /\ \A y \in States :
       /\ d.st[y].kind = c.st[y].kind /\ d.st[y].status = c.st[y].status
       /\ d.st[y].handles = c.st[y].handles /\ d.st[y].waiters = c.st[y].waiters
       /\ d.st[y].handler = c.st[y].handler /\ d.st[y].observed = c.st[y].observed
       /\ d.st[y].teardown = c.st[y].teardown
       /\ y # x => d.st[y] = c.st[y]

collected(c, x) == isTerminalState(c, x) /\ c.st[x].handles = 0 /\ c.st[x].waiters = 0
abandoned(c, x) ==
  /\ c.st[x].kind = "Task" /\ c.st[x].status = "Failed"
  /\ ~c.st[x].teardown /\ ~c.st[x].observed /\ c.st[x].reports = 0

LEMMA RetireFields ==
  ASSUME NEW c \in Core, NEW x \in States
  PROVE  LET d == retireState(c, x)
             n == IF abandoned(c, x) THEN 1 ELSE 0
         IN /\ d \in Core /\ Retires(c, d, x)
            /\ ~collected(c, x) => d = c
            /\ collected(c, x) => /\ d.live = c.live \ {x} /\ d.errors = c.errors + n
                                  /\ d.st[x].reports = c.st[x].reports + n
<1> DEFINE d == retireState(c, x)
           n == IF abandoned(c, x) THEN 1 ELSE 0
           r == [c.st[x] EXCEPT !.reports = @ + n]
<1>1. ~collected(c, x) => d = c
      BY DEF collected, retireState
<1>2. Retires(c, c, x)
      BY DEF Retires
<1>3. ASSUME collected(c, x)
      PROVE  /\ d \in Core /\ Retires(c, d, x)
             /\ d.live = c.live \ {x} /\ d.errors = c.errors + n
             /\ d.st[x].reports = c.st[x].reports + n
  <2>1. d = [c EXCEPT !.live = @ \ {x}, !.errors = @ + n, !.st[x].reports = @ + n]
        BY <1>3 DEF collected, abandoned, retireState
  <2>2. n \in Nat /\ c.st[x] \in StateRecord /\ c.st[x].reports \in Nat
        BY StateTypes
  <2>3. /\ r \in StateRecord /\ r.reports = c.st[x].reports + n
        /\ r.kind = c.st[x].kind /\ r.status = c.st[x].status
        /\ r.handles = c.st[x].handles /\ r.waiters = c.st[x].waiters
        /\ r.handler = c.st[x].handler /\ r.observed = c.st[x].observed
        /\ r.teardown = c.st[x].teardown
        BY <2>2 DEF StateRecord
  <2>4. PICK f \in [States -> StateRecord] : f = [c.st EXCEPT ![x] = r]
        BY <2>3, CoreTypes
  <2>5. \A y \in States : f[y] = IF y = x THEN r ELSE c.st[y]
        BY <2>4, CoreTypes
  <2>6. d = [c EXCEPT !.live = c.live \ {x}, !.errors = c.errors + n, !.st = f]
        BY <2>1, <2>4
  <2>7. d.st = f /\ d.live = c.live \ {x} /\ d.errors = c.errors + n
        BY <2>6, <2>2 DEF Core
  <2>10. c.live \ {x} \in SUBSET States /\ c.errors + n \in Nat
        BY <2>2, CoreTypes
  <2>11. d \in Core
        BY <2>6, <2>10, ZenonT(40) DEF Core
  <2>8. /\ d.next = c.next /\ d.pending = c.pending
        /\ d.pending_requests = c.pending_requests /\ d.waiters = c.waiters
        /\ d.notifications = c.notifications /\ d.waitBindings = c.waitBindings
        /\ d.running_tasks = c.running_tasks /\ d.ready = c.ready
        /\ d.deferred_events = c.deferred_events /\ d.event = c.event
        /\ d.handler = c.handler /\ d.handlers = c.handlers /\ d.current = c.current
        /\ d.events_enabled = c.events_enabled
        BY <2>6 DEF Core
  <2>9. Retires(c, d, x)
        BY <2>3, <2>5, <2>7, <2>8 DEF Retires
  <2> QED
        BY <2>3, <2>5, <2>7, <2>9, <2>11
<1> QED
      BY <1>1, <1>2, <1>3

LEMMA RetireWaits ==
  ASSUME NEW c \in Core, NEW d \in Core, NEW x \in States, Waits(c), Retires(c, d, x),
         collected(c, x)
  PROVE  Waits(d)
<1>1. d.waiters = c.waiters /\ d.notifications = c.notifications
      /\ d.waitBindings = c.waitBindings /\ d.running_tasks = c.running_tasks
      /\ c.live \ {x} \subseteq d.live
      BY DEF Retires
<1>2. /\ \A t : registration(d, t) = registration(c, t)
      /\ \A y : waitersOf(d, y) = waitersOf(c, y)
      BY <1>1, SameWaits
<1>3. \A y \in States : /\ isTerminalState(d, y) = isTerminalState(c, y)
                        /\ d.st[y].waiters = c.st[y].waiters
                        /\ d.st[y].handles = c.st[y].handles
      BY DEF Retires, isTerminalState
<1>4. \A t \in Threads :
        c.notifications[t] # None => c.notifications[t].dependency \in States
      BY CoreTypes DEF WaitRecord
<1>5. /\ \A t \in Threads : d.waiters[t] = None \/ d.notifications[t] = None
      /\ d.waitBindings = {t \in Threads : registration(d, t) # None}
      /\ \A y \in States : d.st[y].waiters = Cardinality(waitersOf(d, y))
      BY <1>1, <1>2, <1>3 DEF Waits
<1>6. \A y \in States : d.st[y].waiters > 0 \/ d.st[y].handles > 0 => y \in d.live
      BY <1>1, <1>3 DEF Waits, collected
<1>7. \A t \in Threads : d.notifications[t] # None
                          => isTerminalState(d, d.notifications[t].dependency)
      BY <1>1, <1>3, <1>4 DEF Waits
<1>8. \A t \in d.waitBindings :
       LET r == registration(d, t) IN
       /\ r.task \in {None, t} /\ (r.task # None => t \in d.running_tasks)
       /\ r.expired => r.timed
      BY <1>1, <1>2 DEF Waits
<1> QED
      BY <1>5, <1>6, <1>7, <1>8 DEF Waits

LEMMA RetireRequested ==
  ASSUME NEW c \in Core, NEW d \in Core, NEW x \in States, Requested(c), Retires(c, d, x),
         collected(c, x)
  PROVE  Requested(d)
<1>1. /\ d.pending = c.pending /\ d.next = c.next
      /\ d.pending_requests = c.pending_requests
      /\ d.running_tasks = c.running_tasks /\ d.ready = c.ready
      /\ c.live \ {x} \subseteq d.live /\ d.live \subseteq c.live
      BY DEF Retires
<1>2. \A y \in States : /\ isTerminalState(d, y) = isTerminalState(c, y)
                        /\ isReady(d, y) = isReady(c, y)
                        /\ d.st[y].kind = c.st[y].kind /\ d.st[y].status = c.st[y].status
                        /\ y # x => d.st[y] = c.st[y]
      BY <1>1 DEF Retires, isTerminalState, isReady
<1>3. c.pending \subseteq States /\ Requests \subseteq States
      BY CoreTypes, StateKinds
<1>4. {y \in d.pending : d.st[y].kind # "Raw"} = {y \in c.pending : c.st[y].kind # "Raw"}
      BY <1>1, <1>2, <1>3
<1>5. isTerminalState(c, x) /\ c.st[x].kind # "none" /\ x \notin c.pending
      BY DEF collected, Requested, isTerminalState, NoState
<1>6. d.pending_requests = Cardinality({y \in d.pending : d.st[y].kind # "Raw"})
      BY <1>1, <1>4 DEF Requested
<1>7. \A y \in d.pending : /\ y \in d.live /\ d.st[y].status = "Pending"
                           /\ d.st[y].kind \in RequestKinds /\ ~isReady(d, y)
      BY <1>1, <1>2, <1>3, <1>5 DEF Requested
<1>8. /\ \A y \in States : d.st[y].kind = "none" => d.st[y] = NoState /\ y \notin d.live
      /\ \A y \in Requests : y >= d.next => d.st[y].kind = "none"
      BY <1>1, <1>2, <1>3, <1>5 DEF Requested
<1>9. \A y \in States \ d.live :
        ~isTerminalState(d, y) => d.st[y].status = "Pending" /\ ~isReady(d, y)
      BY <1>1, <1>2, <1>5 DEF Requested
<1>10. \A y \in States : d.st[y].status = "Running" <=> y \in d.running_tasks
      BY <1>1, <1>2 DEF Requested
<1>11. \A y \in States :
        d.st[y].kind = "Raw" => d.st[y].handles = 0 /\ d.st[y].waiters = 0
      BY DEF Requested, Retires
<1> QED
      BY <1>6, <1>7, <1>8, <1>9, <1>10, <1>11 DEF Requested

LEMMA RetireReported ==
  ASSUME NEW c \in Core, NEW x \in States, Reported(c), collected(c, x)
  PROVE  Reported(retireState(c, x))
<1> DEFINE d == retireState(c, x)
           n == IF abandoned(c, x) THEN 1 ELSE 0
           Old == {y \in States : c.st[y].reports > 0}
           New == {y \in States : d.st[y].reports > 0}
<1>1. /\ Retires(c, d, x) /\ d \in Core
      /\ d.live = c.live \ {x} /\ d.errors = c.errors + n
      /\ d.st[x].reports = c.st[x].reports + n
      BY RetireFields
<1>2. \A y \in States : y # x => d.st[y] = c.st[y]
      BY <1>1 DEF Retires
<1>3. /\ isTerminalState(d, x) /\ d.st[x].kind = c.st[x].kind
      /\ d.st[x].status = c.st[x].status
      /\ d.st[x].observed = c.st[x].observed /\ d.st[x].teardown = c.st[x].teardown
      BY <1>1 DEF Retires, collected, isTerminalState
<1>4. Old \in SUBSET States /\ Cardinality(Old) \in Nat /\ IsFiniteSet(Old)
      BY ThreadsFinite
<1>5. d.errors <= Cardinality(New)
  <2>1. c.errors <= Cardinality(Old) /\ c.errors \in Nat /\ c.st[x].reports \in Nat
        BY StateTypes, CoreTypes DEF Reported
  <2>2. CASE abandoned(c, x)
    <3>1. c.st[x].reports = 0 /\ n = 1
          BY <2>2 DEF abandoned
    <3>2. x \notin Old /\ New = Old \cup {x}
          BY <3>1, <1>1, <1>2
    <3>3. Cardinality(New) = Cardinality(Old) + 1
          BY <3>2, <1>4, FS_AddElement
    <3> QED
          BY <3>1, <3>3, <2>1, <1>1, <1>4
  <2>3. CASE ~abandoned(c, x)
    <3>1. n = 0 /\ New = Old
          BY <2>3, <2>1, <1>1, <1>2
    <3>2. d.errors = c.errors
          BY <3>1, <2>1, <1>1
    <3> HIDE DEF d, n, Old, New
    <3> QED
          BY <3>1, <3>2, <2>1
  <2> QED
        BY <2>2, <2>3
<1>6. ASSUME NEW y \in States
      PROVE  LET s == d.st[y] IN
             /\ s.reports > 0 => s.reports = 1 /\ isTerminalState(d, y)
             /\ s.kind = "Task" /\ s.status = "Failed" /\ y \notin d.live
                  => s.observed \/ s.teardown \/ s.reports = 1
             /\ s.kind = "Task" /\ s.reports > 0 => y \notin d.live /\ ~s.observed
  <2>1. CASE y # x
        BY <2>1, <1>1, <1>2 DEF Reported, isTerminalState
  <2>2. CASE y = x
    <3>1. CASE abandoned(c, x)
          BY <3>1, <2>2, <1>1, <1>3, StateTypes DEF abandoned
    <3>2. CASE ~abandoned(c, x)
      <4>1. d.st[x].reports = c.st[x].reports /\ c.st[x].reports \in Nat
            BY <3>2, <1>1, StateTypes
      <4>2. /\ c.st[x].reports > 0 => c.st[x].reports = 1
            /\ c.st[x].kind = "Task" /\ c.st[x].reports > 0 => ~c.st[x].observed
            BY DEF Reported
      <4> QED
            BY <3>2, <4>1, <4>2, <2>2, <1>1, <1>3 DEF abandoned
    <3> QED
          BY <3>1, <3>2
  <2> QED
        BY <2>1, <2>2
<1> QED
      BY <1>5, <1>6 DEF Reported

LEMMA RetireStack ==
  ASSUME NEW c \in Core, NEW d \in Core, NEW x \in States, Retires(c, d, x),
         d.live = c.live \ {x} \/ (d = c /\ ~collected(c, x)),
         NEW s, NEW l, NEW g, NEW E, NEW F, StackInv(c, s, l, g, E, F)
  PROVE  StackInv(d, s, l, g, E \ {x}, F)
<1>1. d.live \subseteq c.live /\ d.waiters = c.waiters /\ d.notifications = c.notifications
      /\ d.waitBindings = c.waitBindings /\ d.running_tasks = c.running_tasks
      /\ d.ready = c.ready /\ c.live \subseteq States
      BY CoreTypes DEF Retires
<1>2. \A t : registration(d, t) = registration(c, t)
      BY <1>1, SameWaits
<1>3. \A y \in States : /\ isTerminalState(d, y) = isTerminalState(c, y)
                        /\ isReady(d, y) = isReady(c, y)
                        /\ d.st[y].waiters = c.st[y].waiters
                        /\ d.st[y].handles = c.st[y].handles
                        /\ d.st[y].status = c.st[y].status
                        /\ d.st[y].observed = c.st[y].observed
      BY <1>1 DEF Retires, isTerminalState, isReady
<1>4. Shape(s)
      BY DEF StackInv
<1>5. \A i \in DOMAIN s : /\ s[i].at = "wake" => s[i].state \in States
                          /\ s[i].at = "lua" /\ s[i].task # None => s[i].task \in States
                          /\ s[i].at = "lua" /\ s[i].by = "resume" => s[i].wait.dependency \in States
      BY <1>4, FrameTypes DEF Shape, LuaFrames, WakeFrames, WaitRecord
<1>6. Placed(d, s, l, F)
      BY <1>1, <1>2, <1>3, <1>5 DEF StackInv, Placed
<1>7. Retiring(d, s, E \ {x})
  <2>1. \A y \in d.live \ (E \ {x}) :
          isTerminalState(d, y) /\ d.st[y].handles = 0 /\ d.st[y].waiters = 0 => y # x
        BY <1>3 DEF collected
  <2> QED
        BY <2>1, <1>1, <1>3, <1>5 DEF StackInv, Retiring
<1>8. \A t \in Threads : c.waiters[t] # None => c.waiters[t].dependency \in States
      BY CoreTypes DEF WaitRecord
<1>9. Reaching(d, s, g, F)
      BY <1>1, <1>3, <1>8 DEF StackInv, Reaching
<1>10. Honest(d, s)
      BY <1>3, <1>5 DEF StackInv, Honest
<1> QED
      BY <1>4, <1>6, <1>7, <1>9, <1>10 DEF StackInv

\* retireState() keeps the invariant, and whoever waited to be retired is done with.
LEMMA RetireSound ==
  ASSUME NEW c, NEW x \in States, NEW s, NEW l, NEW g, NEW E, NEW F,
         Sound(c, s, l, g, E, F)
  PROVE  Sound(retireState(c, x), s, l, g, E \ {x}, F)
<1> DEFINE d == retireState(c, x)
<1>1. CoreInv(c) /\ c \in Core /\ StackInv(c, s, l, g, E, F) /\ Leases(c, s)
      BY DEF Sound, CoreInv
<1>2. /\ d \in Core /\ Retires(c, d, x) /\ (~collected(c, x) => d = c)
      /\ collected(c, x) => d.live = c.live \ {x}
      BY <1>1, RetireFields
<1>3. StackInv(d, s, l, g, E \ {x}, F)
      BY <1>1, <1>2, RetireStack
<1>5. Leases(d, s)
      BY <1>1, <1>2 DEF Leases, Retires
<1>4. CoreInv(d)
  <2>1. CASE collected(c, x)
    <3>1. Waits(d) /\ Requested(d) /\ Reported(d)
          BY <2>1, <1>1, <1>2, RetireWaits, RetireRequested, RetireReported DEF CoreInv
    <3>2. Serial(d)
          BY <1>1, <1>2, SameSerial DEF CoreInv, Retires, isTerminalState
    <3> QED
          BY <3>1, <3>2, <1>2 DEF CoreInv
  <2>2. CASE ~collected(c, x)
        BY <2>2, <1>1, <1>2
  <2> QED
        BY <2>1, <2>2
<1> QED
      BY <1>3, <1>4, <1>5 DEF Sound

-----------------------------------------------------------------------------
(***************************************************************************)
(* Frames that the invariant says nothing of.                              *)
(***************************************************************************)

isPlain(f) == f.at \notin {"lua", "wake"}

\* s and s2 have the same frames of coroutines and of wake(), at the same places.
SameCalls(s, s2) ==
  /\ \A i \in DOMAIN s : isPlain(s[i]) \/ (i \in DOMAIN s2 /\ s2[i] = s[i])
  /\ \A i \in DOMAIN s2 : isPlain(s2[i]) \/ (i \in DOMAIN s /\ s[i] = s2[i])

LEMMA PlainStack ==
  ASSUME NEW c \in Core, NEW s, NEW s2 \in Seq(Frames), NEW l, NEW g, NEW E, NEW F,
         StackInv(c, s, l, g, E, F), SameCalls(s, s2), Len(s2) > 0,
         \A i \in DOMAIN s2 : s2[i].at \in Waiting => i = 2
  PROVE  StackInv(c, s2, l, g, E, F)
<1>1. Shape(s) /\ s \in Seq(Frames) /\ Len(s) \in DOMAIN s
      BY DEF StackInv, Shape
<1>2. \A i \in DOMAIN s2 : s2[i].at \in {"lua", "wake"} => i \in DOMAIN s /\ s[i] = s2[i]
      BY DEF SameCalls, isPlain
<1>3. \A i \in DOMAIN s : s[i].at \in {"lua", "wake"} => i \in DOMAIN s2 /\ s[i] = s2[i]
      BY DEF SameCalls, isPlain
<1>4. Shape(s2)
  <2>1. \A i \in DOMAIN s2 : (s2[i].at = "lua" /\ s2[i].thread = Main) <=> i = 1
    <3>1. 1 \in DOMAIN s2 /\ 1 \in DOMAIN s /\ s[1].at = "lua" /\ s[1].thread = Main
          BY <1>1 DEF Shape
    <3>2. s2[1] = s[1]
          BY <3>1, <1>3
    <3> QED
          BY <3>1, <3>2, <1>1, <1>2 DEF Shape
  <2>2. \A i, j \in DOMAIN s2 :
          s2[i].at = "lua" /\ s2[j].at = "lua" /\ s2[i].thread = s2[j].thread => i = j
        BY <1>1, <1>2 DEF Shape
  <2>3. \A i \in DOMAIN s2 : s2[i].at = "lua" =>
          /\ s2[i].task \in {None, s2[i].thread}
          /\ s2[i].by \in {"main", "lua"} => s2[i].task = None /\ ~s2[i].quiet
          /\ s2[i].by = "resume" => s2[i].wait # None /\ s2[i].outcome # "none"
        BY <1>1, <1>2 DEF Shape
  <2> QED
        BY <2>1, <2>2, <2>3 DEF Shape
<1>5. /\ \A t : isOn(s2, t) = isOn(s, t)
      /\ \A t : runs(s2, t) = runs(s, t)
      /\ \A x, t : wakes(s2, x, t) = wakes(s, x, t)
      BY <1>2, <1>3 DEF isOn, runs, wakes
<1>6. Placed(c, s2, l, F)
      BY <1>2, <1>5 DEF StackInv, Placed
<1>7. Retiring(c, s2, E)
      BY <1>1, <1>2 DEF StackInv, Retiring
<1>8. Reaching(c, s2, g, F)
      BY <1>5 DEF StackInv, Reaching
<1>9. Honest(c, s2)
      BY <1>2 DEF StackInv, Honest
<1> QED
      BY <1>4, <1>6, <1>7, <1>8, <1>9 DEF StackInv

\* What lies on the stack after each of its operations.
LEMMA PopFields ==
  ASSUME NEW s \in Seq(Frames), Len(s) > 0
  PROVE  /\ Pop(s) \in Seq(Frames) /\ Len(Pop(s)) = Len(s) - 1
         /\ \A i \in 1 .. Len(s) - 1 : Pop(s)[i] = s[i]
<1>1. Len(s) - 1 \in Nat /\ Len(s) - 1 <= Len(s) /\ Len(s) \in Nat
      OBVIOUS
<1>2. Pop(s) = [i \in 1 .. Len(s) - 1 |-> s[i]]
      BY <1>1 DEF Pop
<1>3. \A i \in 1 .. Len(s) - 1 : s[i] \in Frames
      BY <1>1
<1> QED
      BY <1>1, <1>2, <1>3

LEMMA SwapFields ==
  ASSUME NEW s \in Seq(Frames), Len(s) > 0, NEW f \in Frames
  PROVE  /\ Swap(s, f) \in Seq(Frames) /\ Len(Swap(s, f)) = Len(s)
         /\ Swap(s, f)[Len(s)] = f
         /\ \A i \in 1 .. Len(s) - 1 : Swap(s, f)[i] = s[i]
      BY DEF Swap

LEMMA AppendFields ==
  ASSUME NEW s \in Seq(Frames), NEW f \in Frames
  PROVE  /\ Append(s, f) \in Seq(Frames) /\ Len(Append(s, f)) = Len(s) + 1
         /\ Append(s, f)[Len(s) + 1] = f
         /\ \A i \in 1 .. Len(s) : Append(s, f)[i] = s[i]
      OBVIOUS

LEMMA SoundShape ==
  ASSUME NEW c, NEW s, NEW l, NEW g, NEW E, NEW F, Sound(c, s, l, g, E, F)
  PROVE  /\ c \in Core /\ CoreInv(c) /\ StackInv(c, s, l, g, E, F) /\ Leases(c, s)
         /\ Shape(s) /\ s \in Seq(Frames) /\ Len(s) \in Nat /\ Len(s) > 0
         /\ DOMAIN s = 1 .. Len(s) /\ s[1].at = "lua"
      BY DEF Sound, StackInv, CoreInv, Shape

LEMMA PushPlain ==
  ASSUME NEW c, NEW s, NEW l, NEW g, NEW E, NEW F, Sound(c, s, l, g, E, F),
         NEW f \in Frames, f.at \notin {"lua", "wake"} \cup Waiting
  PROVE  Sound(c, Append(s, f), l, g, E, F)
<1> DEFINE s2 == Append(s, f)
<1>1. /\ c \in Core /\ CoreInv(c) /\ StackInv(c, s, l, g, E, F) /\ Leases(c, s)
      /\ Shape(s) /\ s \in Seq(Frames) /\ Len(s) \in Nat /\ Len(s) > 0
      BY SoundShape
<1>2. /\ s2 \in Seq(Frames) /\ Len(s2) = Len(s) + 1 /\ s2[Len(s) + 1] = f
      /\ \A i \in 1 .. Len(s) : s2[i] = s[i]
      BY <1>1, AppendFields
<1>3. SameCalls(s, s2)
      BY <1>1, <1>2 DEF SameCalls, isPlain
<1>4. \A i \in DOMAIN s2 : s2[i].at \in Waiting => i = 2
      BY <1>1, <1>2 DEF Shape
<1> HIDE DEF s2
<1>5. StackInv(c, s2, l, g, E, F)
      BY <1>1, <1>2, <1>3, <1>4, PlainStack
<1>6. \A x : leased(s2, x) = leased(s, x)
      BY <1>1, <1>2 DEF leased
<1> QED
      BY <1>1, <1>5, <1>6 DEF Sound, Leases, s2

LEMMA PopPlain ==
  ASSUME NEW c, NEW s, NEW l, NEW g, NEW E, NEW F, Sound(c, s, l, g, E, F),
         s[Len(s)].at \notin {"lua", "wake"} \cup Waiting
  PROVE  Sound(c, Pop(s), l, g, E, F)
<1> DEFINE s2 == Pop(s)
<1>1. /\ c \in Core /\ CoreInv(c) /\ StackInv(c, s, l, g, E, F) /\ Leases(c, s)
      /\ Shape(s) /\ s \in Seq(Frames) /\ Len(s) \in Nat /\ Len(s) > 0 /\ s[1].at = "lua"
      BY SoundShape
<1>2. /\ s2 \in Seq(Frames) /\ Len(s2) = Len(s) - 1
      /\ \A i \in 1 .. Len(s) - 1 : s2[i] = s[i]
      BY <1>1, PopFields
<1>3. SameCalls(s, s2)
      BY <1>1, <1>2 DEF SameCalls, isPlain
<1>4. Len(s2) > 0 /\ \A i \in DOMAIN s2 : s2[i].at \in Waiting => i = 2
      BY <1>1, <1>2 DEF Shape
<1> HIDE DEF s2
<1>5. StackInv(c, s2, l, g, E, F)
      BY <1>1, <1>2, <1>3, <1>4, PlainStack
<1>6. \A x : leased(s2, x) = leased(s, x)
      BY <1>1, <1>2 DEF leased
<1> QED
      BY <1>1, <1>5, <1>6 DEF Sound, Leases, s2

LEMMA SwapPlain ==
  ASSUME NEW c, NEW s, NEW l, NEW g, NEW E, NEW F, Sound(c, s, l, g, E, F),
         NEW f \in Frames, f.at \notin {"lua", "wake"}, s[Len(s)].at \notin {"lua", "wake"},
         \/ f.at \notin Waiting /\ s[Len(s)].at \notin Waiting
         \/ f.at \in Waiting /\ s[Len(s)].at \in Waiting /\ f.state = s[Len(s)].state
  PROVE  Sound(c, Swap(s, f), l, g, E, F)
<1> DEFINE s2 == Swap(s, f)
<1>1. /\ c \in Core /\ CoreInv(c) /\ StackInv(c, s, l, g, E, F) /\ Leases(c, s)
      /\ Shape(s) /\ s \in Seq(Frames) /\ Len(s) \in Nat /\ Len(s) > 0
      BY SoundShape
<1>2. /\ s2 \in Seq(Frames) /\ Len(s2) = Len(s) /\ s2[Len(s)] = f
      /\ \A i \in 1 .. Len(s) - 1 : s2[i] = s[i]
      BY <1>1, SwapFields
<1>3. SameCalls(s, s2)
      BY <1>1, <1>2 DEF SameCalls, isPlain
<1>4. \A i \in DOMAIN s2 : s2[i].at \in Waiting => i = 2
      BY <1>1, <1>2 DEF Shape
<1> HIDE DEF s2
<1>5. StackInv(c, s2, l, g, E, F)
      BY <1>1, <1>2, <1>3, <1>4, PlainStack
<1>6. \A x : leased(s2, x) = leased(s, x)
      BY <1>1, <1>2 DEF leased
<1> QED
      BY <1>1, <1>5, <1>6 DEF Sound, Leases, s2

-----------------------------------------------------------------------------
(***************************************************************************)
(* Steps on the core that touch neither states nor waits.                  *)
(***************************************************************************)

SameStates(c, d) ==
  /\ d.st = c.st /\ d.live = c.live /\ d.next = c.next /\ d.pending = c.pending
  /\ d.pending_requests = c.pending_requests /\ d.waiters = c.waiters
  /\ d.notifications = c.notifications /\ d.waitBindings = c.waitBindings
  /\ d.running_tasks = c.running_tasks /\ d.ready = c.ready

SameEvents(c, d) ==
  /\ d.deferred_events = c.deferred_events /\ d.event = c.event
  /\ d.handler = c.handler /\ d.handlers = c.handlers /\ d.current = c.current

LEMMA QuietSound ==
  ASSUME NEW c, NEW d \in Core, NEW s, NEW l, NEW g, NEW E, NEW F, Sound(c, s, l, g, E, F),
         SameStates(c, d), d.errors <= c.errors, Serial(d)
  PROVE  Sound(d, s, l, g, E, F)
<1>1. /\ c \in Core /\ CoreInv(c) /\ StackInv(c, s, l, g, E, F) /\ Leases(c, s)
      BY SoundShape
<1>2. /\ \A t : registration(d, t) = registration(c, t)
      /\ \A x : waitersOf(d, x) = waitersOf(c, x)
      BY SameWaits DEF SameStates
<1>3. \A x : isTerminalState(d, x) = isTerminalState(c, x) /\ isReady(d, x) = isReady(c, x)
      BY DEF SameStates, isTerminalState, isReady
<1>4. Waits(d)
      BY <1>1, <1>2, <1>3 DEF CoreInv, Waits, SameStates
<1>5. Requested(d)
      BY <1>1, <1>3 DEF CoreInv, Requested, SameStates
<1>6. Reported(d)
  <2>1. c.errors \in Nat /\ d.errors \in Nat /\ d.st = c.st /\ d.live = c.live
        BY <1>1, CoreTypes DEF SameStates
  <2>2. Cardinality({x \in States : c.st[x].reports > 0}) \in Nat
        BY ThreadsFinite
  <2> QED
        BY <1>1, <1>3, <2>1, <2>2 DEF CoreInv, Reported
<1>7. Placed(d, s, l, F)
      BY <1>1, <1>2 DEF StackInv, Placed, SameStates
<1>8. Retiring(d, s, E)
      BY <1>1, <1>3 DEF StackInv, Retiring, SameStates
<1>9. Reaching(d, s, g, F)
      BY <1>1, <1>3 DEF StackInv, Reaching, SameStates
<1>10. Honest(d, s)
      BY <1>1 DEF StackInv, Honest, SameStates
<1>11. Leases(d, s)
      BY <1>1 DEF Leases, SameStates
<1> QED
      BY <1>1, <1>4, <1>5, <1>6, <1>7, <1>8, <1>9, <1>10, <1>11 DEF Sound, CoreInv, StackInv

LEMMA FlagsSound ==
  ASSUME NEW c, NEW d \in Core, NEW s, NEW l, NEW g, NEW E, NEW F, Sound(c, s, l, g, E, F),
         SameStates(c, d), SameEvents(c, d), d.errors <= c.errors
  PROVE  Sound(d, s, l, g, E, F)
<1>1. c \in Core /\ Serial(c)
      BY SoundShape DEF CoreInv
<1>2. Serial(d)
      BY <1>1, SameSerial DEF SameStates, SameEvents, isTerminalState
<1> QED
      BY <1>2, QuietSound

-----------------------------------------------------------------------------
(***************************************************************************)
(* Entering and leaving a coroutine.                                       *)
(***************************************************************************)

LEMMA PopLua ==
  ASSUME NEW s, Shape(s), s[Len(s)].at = "lua", s[Len(s)].thread # Main
  PROVE  /\ Shape(Pop(s)) /\ Len(Pop(s)) = Len(s) - 1
         /\ \A i \in DOMAIN Pop(s) : i \in DOMAIN s /\ Pop(s)[i] = s[i]
         /\ \A t : isOn(Pop(s), t) <=> isOn(s, t) /\ t # s[Len(s)].thread
         /\ \A t : t # s[Len(s)].thread => runs(Pop(s), t) = runs(s, t)
         /\ \A x : leased(Pop(s), x) = leased(s, x)
         /\ \A x, t : wakes(Pop(s), x, t) = wakes(s, x, t)
<1> DEFINE s2 == Pop(s)
<1>1. s \in Seq(Frames) /\ Len(s) \in Nat /\ Len(s) > 0 /\ DOMAIN s = 1 .. Len(s)
      BY DEF Shape
<1>2. /\ s2 \in Seq(Frames) /\ Len(s2) = Len(s) - 1
      /\ \A i \in 1 .. Len(s) - 1 : s2[i] = s[i]
      BY <1>1, PopFields
<1>3. Len(s) # 1
      BY <1>1 DEF Shape
<1>4. Len(s2) > 0 /\ DOMAIN s2 = 1 .. Len(s) - 1
      BY <1>1, <1>2, <1>3
<1>5. \A i \in DOMAIN s2 : i \in DOMAIN s /\ s2[i] = s[i]
      BY <1>1, <1>2, <1>4
<1>6. \A i \in DOMAIN s : i \in DOMAIN s2 \/ i = Len(s)
      BY <1>1, <1>4
<1> HIDE DEF s2
<1>7. Shape(s2)
      BY <1>2, <1>4, <1>5 DEF Shape
<1>8. \A t : isOn(s2, t) <=> isOn(s, t) /\ t # s[Len(s)].thread
  <2>1. \A i \in DOMAIN s2 : s[i].at = "lua" => s[i].thread # s[Len(s)].thread
        BY <1>1, <1>4 DEF Shape
  <2> QED
        BY <2>1, <1>5, <1>6 DEF isOn
<1>9. \A t : t # s[Len(s)].thread => runs(s2, t) = runs(s, t)
      BY <1>5, <1>6 DEF runs
<1>10. \A x : leased(s2, x) = leased(s, x)
      BY <1>1, <1>2 DEF leased, Waiting
<1>11. \A x, t : wakes(s2, x, t) = wakes(s, x, t)
      BY <1>5, <1>6 DEF wakes
<1> QED
      BY <1>2, <1>5, <1>7, <1>8, <1>9, <1>10, <1>11 DEF s2

LEMMA PushLua ==
  ASSUME NEW s, Shape(s), NEW f \in LuaFrames, f.thread # Main, ~isOn(s, f.thread),
         f.task \in {None, f.thread},
         f.by \in {"main", "lua"} => f.task = None /\ ~f.quiet,
         f.by = "resume" => f.wait # None /\ f.outcome # "none"
  PROVE  /\ Shape(Append(s, f)) /\ Len(Append(s, f)) = Len(s) + 1
         /\ Append(s, f)[Len(s) + 1] = f
         /\ \A i \in DOMAIN Append(s, f) :
              i = Len(s) + 1 \/ (i \in DOMAIN s /\ Append(s, f)[i] = s[i])
         /\ \A t : isOn(Append(s, f), t) <=> isOn(s, t) \/ t = f.thread
         /\ \A t : runs(s, t) => runs(Append(s, f), t)
         /\ f.task = f.thread => runs(Append(s, f), f.thread)
         /\ \A x : leased(Append(s, f), x) = leased(s, x)
         /\ \A x, t : wakes(Append(s, f), x, t) = wakes(s, x, t)
<1> DEFINE s2 == Append(s, f)
<1>1. s \in Seq(Frames) /\ Len(s) \in Nat /\ Len(s) > 0 /\ DOMAIN s = 1 .. Len(s)
      BY DEF Shape
<1>2. f \in Frames /\ f.at = "lua"
      BY DEF Frames, LuaFrames
<1>3. /\ s2 \in Seq(Frames) /\ Len(s2) = Len(s) + 1 /\ s2[Len(s) + 1] = f
      /\ \A i \in 1 .. Len(s) : s2[i] = s[i]
      BY <1>1, <1>2, AppendFields
<1>4. DOMAIN s2 = 1 .. Len(s) + 1
      BY <1>1, <1>3
<1>5. /\ \A i \in DOMAIN s2 : i = Len(s) + 1 \/ (i \in DOMAIN s /\ s2[i] = s[i])
      /\ \A i \in DOMAIN s : i \in DOMAIN s2 /\ s2[i] = s[i]
      /\ Len(s) + 1 \in DOMAIN s2 /\ Len(s) + 1 # 1
      BY <1>1, <1>3, <1>4
<1> HIDE DEF s2
<1>6. Shape(s2)
  <2>1. \A i \in DOMAIN s2 : (s2[i].at = "lua" /\ s2[i].thread = Main) <=> i = 1
        BY <1>1, <1>3, <1>5 DEF Shape
  <2>2. \A i, j \in DOMAIN s2 :
          s2[i].at = "lua" /\ s2[j].at = "lua" /\ s2[i].thread = s2[j].thread => i = j
        BY <1>3, <1>5 DEF Shape, isOn
  <2>3. \A i \in DOMAIN s2 : s2[i].at \in Waiting => i = 2
        BY <1>2, <1>3, <1>5 DEF Shape, Waiting
  <2>4. \A i \in DOMAIN s2 : s2[i].at = "lua" =>
          /\ s2[i].task \in {None, s2[i].thread}
          /\ s2[i].by \in {"main", "lua"} => s2[i].task = None /\ ~s2[i].quiet
          /\ s2[i].by = "resume" => s2[i].wait # None /\ s2[i].outcome # "none"
        BY <1>3, <1>5 DEF Shape
  <2> QED
        BY <1>1, <1>3, <2>1, <2>2, <2>3, <2>4 DEF Shape
<1>7. \A t : isOn(s2, t) <=> isOn(s, t) \/ t = f.thread
      BY <1>2, <1>3, <1>5 DEF isOn
<1>8. /\ \A t : runs(s, t) => runs(s2, t)
      /\ f.task = f.thread => runs(s2, f.thread)
      BY <1>2, <1>3, <1>5 DEF runs
<1>9. \A x : leased(s2, x) = leased(s, x)
      BY <1>1, <1>2, <1>3 DEF leased, Waiting
<1>10. \A x, t : wakes(s2, x, t) = wakes(s, x, t)
      BY <1>2, <1>3, <1>5 DEF wakes
<1> QED
      BY <1>3, <1>5, <1>6, <1>7, <1>8, <1>9, <1>10 DEF s2

\* A coroutine begins to wait: beginYield().
Registers(c, d, t, x) ==
  /\ d.notifications = c.notifications /\ d.waitBindings = c.waitBindings \cup {t}
  /\ \A u \in Threads \ {t} : d.waiters[u] = c.waiters[u]
  /\ d.waiters[t] # None /\ d.waiters[t].dependency = x /\ ~d.waiters[t].expired
  /\ d.waiters[t].task = IF t \in c.running_tasks THEN t ELSE None
  /\ d.live = c.live /\ d.next = c.next /\ d.pending = c.pending
  /\ d.pending_requests = c.pending_requests
  /\ d.running_tasks = c.running_tasks /\ d.ready = c.ready
  /\ d.errors = c.errors /\ SameEvents(c, d)
  /\ \A y \in States :
       /\ d.st[y].kind = c.st[y].kind /\ d.st[y].status = c.st[y].status
       /\ d.st[y].handles = c.st[y].handles /\ d.st[y].handler = c.st[y].handler
       /\ d.st[y].waiters = IF y = x THEN c.st[y].waiters + 1 ELSE c.st[y].waiters
       /\ d.st[y].observed = c.st[y].observed
       /\ d.st[y].teardown = c.st[y].teardown
       /\ d.st[y].reports = c.st[y].reports
       /\ y # x => d.st[y] = c.st[y]

LEMMA RegisterFields ==
  ASSUME NEW c \in Core, NEW t \in Threads, NEW x \in States, NEW timed \in BOOLEAN
  PROVE  /\ register(c, t, x, timed) \in Core
         /\ Registers(c, register(c, t, x, timed), t, x)
<1> DEFINE d == register(c, t, x, timed)
           w == [dependency |-> x, timed |-> timed, expired |-> FALSE,
                 task |-> IF t \in c.running_tasks THEN t ELSE None]
           r == [c.st[x] EXCEPT !.waiters = @ + 1]
<1>1. w \in WaitRecord /\ w # None
  <2>1. (IF t \in c.running_tasks THEN t ELSE None) \in States \cup {None}
        BY CoreTypes
  <2>2. w \in WaitRecord
        BY <2>1 DEF WaitRecord
  <2> QED
        BY <2>2, StateKinds
<1>2. c.st[x] \in StateRecord /\ c.st[x].waiters \in Nat
      BY StateTypes
<1>3. /\ r \in StateRecord /\ r.waiters = c.st[x].waiters + 1
      /\ r.kind = c.st[x].kind /\ r.status = c.st[x].status
      /\ r.handles = c.st[x].handles /\ r.handler = c.st[x].handler
      /\ r.observed = c.st[x].observed /\ r.teardown = c.st[x].teardown
      /\ r.reports = c.st[x].reports
      BY <1>2 DEF StateRecord
<1>4. PICK f \in [States -> StateRecord] : f = [c.st EXCEPT ![x] = r]
      BY <1>3, CoreTypes
<1>5. \A y \in States : f[y] = IF y = x THEN r ELSE c.st[y]
      BY <1>4, CoreTypes
<1>6. PICK v \in [Threads -> WaitRecord \cup {None}] : v = [c.waiters EXCEPT ![t] = w]
      BY <1>1, CoreTypes
<1>7. d = [c EXCEPT !.waiters = v, !.waitBindings = c.waitBindings \cup {t}, !.st = f]
      BY <1>4, <1>6 DEF register
<1>8. d.st = f /\ d.waiters = v /\ d.waitBindings = c.waitBindings \cup {t}
      BY <1>7 DEF Core
<1>9. c.waitBindings \cup {t} \in SUBSET Threads
      BY CoreTypes
<1>10. d \in Core
      BY <1>7, <1>9, ZenonT(40) DEF Core
<1>11. /\ d.live = c.live /\ d.next = c.next /\ d.pending = c.pending
       /\ d.pending_requests = c.pending_requests
       /\ d.running_tasks = c.running_tasks /\ d.ready = c.ready
       /\ d.errors = c.errors /\ d.notifications = c.notifications
      BY <1>7 DEF Core
<1>12. SameEvents(c, d)
      BY <1>7 DEF Core, SameEvents
<1>13. w.dependency = x /\ w.task = (IF t \in c.running_tasks THEN t ELSE None)
       /\ ~w.expired
      OBVIOUS
<1>14. v[t] = w /\ \A u \in Threads \ {t} : v[u] = c.waiters[u]
      BY <1>6, CoreTypes
<1> HIDE DEF d, w, r
<1>15. Registers(c, d, t, x)
      BY <1>1, <1>3, <1>5, <1>8, <1>11, <1>12, <1>13, <1>14 DEF Registers
<1> QED
      BY <1>10, <1>15 DEF d

LEMMA RegisterWaits ==
  ASSUME NEW c \in Core, NEW t \in Threads, NEW x \in States, NEW timed \in BOOLEAN,
         Waits(c), t \notin c.waitBindings, x \in c.live
  PROVE  /\ Waits(register(c, t, x, timed))
         /\ registration(register(c, t, x, timed), t).task
              = IF t \in c.running_tasks THEN t ELSE None
         /\ \A u \in Threads \ {t} :
              registration(register(c, t, x, timed), u) = registration(c, u)
<1> DEFINE d == register(c, t, x, timed)
           w == d.waiters[t]
<1>0. d \in Core /\ Registers(c, d, t, x)
      BY RegisterFields
<1> HIDE DEF d
<1>1. /\ w # None
      /\ d.waitBindings = c.waitBindings \cup {t}
      /\ d.notifications = c.notifications
      /\ d.live = c.live /\ d.running_tasks = c.running_tasks
      /\ \A y \in States :
           /\ d.st[y].status = c.st[y].status /\ d.st[y].handles = c.st[y].handles
           /\ d.st[y].waiters = IF y = x THEN c.st[y].waiters + 1 ELSE c.st[y].waiters
      BY <1>0 DEF Registers
<1>2. w.dependency = x /\ w.task = (IF t \in c.running_tasks THEN t ELSE None)
      /\ ~w.expired
      BY <1>0 DEF Registers
<1>3. /\ d.waiters[t] = w /\ \A u \in Threads \ {t} : d.waiters[u] = c.waiters[u]
      BY <1>0 DEF Registers
<1> HIDE DEF w
<1>4. registration(c, t) = None /\ c.waiters[t] = None /\ c.notifications[t] = None
      BY DEF Waits, registration
<1>5. registration(d, t) = w
      BY <1>1, <1>3 DEF registration
<1>6. \A u \in Threads \ {t} : registration(d, u) = registration(c, u)
      BY <1>1, <1>3 DEF registration
<1>7. /\ \A u \in Threads : d.waiters[u] = None \/ d.notifications[u] = None
      /\ d.waitBindings = {u \in Threads : registration(d, u) # None}
      BY <1>1, <1>3, <1>4, <1>5, <1>6 DEF Waits
<1>8. /\ waitersOf(d, x) = waitersOf(c, x) \cup {t} /\ t \notin waitersOf(c, x)
      /\ \A y \in States \ {x} : waitersOf(d, y) = waitersOf(c, y)
      BY <1>1, <1>2, <1>4, <1>5, <1>6 DEF waitersOf
<1>9. Cardinality(waitersOf(d, x)) = Cardinality(waitersOf(c, x)) + 1
  <2>1. waitersOf(c, x) \in SUBSET Threads
        BY DEF waitersOf
  <2> QED
        BY <2>1, <1>8, ThreadsFinite, FS_AddElement
<1>10. ASSUME NEW y \in States
       PROVE  d.st[y].waiters = Cardinality(waitersOf(d, y))
  <2>1. CASE y = x
        BY <2>1, <1>1, <1>9 DEF Waits
  <2>2. CASE y # x
        BY <2>2, <1>1, <1>8 DEF Waits
  <2> QED
        BY <2>1, <2>2
<1>11. \A y \in States : d.st[y].waiters > 0 \/ d.st[y].handles > 0 => y \in d.live
      BY <1>1 DEF Waits
<1>12. \A y \in States : isTerminalState(d, y) = isTerminalState(c, y)
      BY <1>1 DEF isTerminalState
<1>13. \A u \in Threads : d.notifications[u] # None
                           => isTerminalState(d, d.notifications[u].dependency)
  <2>1. \A u \in Threads :
          c.notifications[u] # None => c.notifications[u].dependency \in States
        BY CoreTypes DEF WaitRecord
  <2> QED
        BY <2>1, <1>1, <1>12 DEF Waits
<1>14. \A u \in d.waitBindings :
        LET r == registration(d, u) IN
        /\ r.task \in {None, u} /\ (r.task # None => u \in d.running_tasks)
        /\ r.expired => r.timed
  <2>1. ASSUME NEW u \in c.waitBindings, u # t
        PROVE  LET r == registration(d, u) IN
               /\ r.task \in {None, u} /\ (r.task # None => u \in d.running_tasks)
               /\ r.expired => r.timed
        BY <2>1, <1>1, <1>6, CoreTypes DEF Waits
  <2> QED
        BY <2>1, <1>1, <1>2, <1>5
<1> QED
      BY <1>2, <1>5, <1>6, <1>7, <1>10, <1>11, <1>13, <1>14 DEF Waits, d

\* The coroutine at the top waits and yields.
LEMMA YieldSound ==
  ASSUME NEW c, NEW s, NEW l, NEW g, Sound(c, s, l, g, {}, {}),
         s[Len(s)].at = "lua", s[Len(s)].thread # Main,
         NEW x \in c.live, ~isTerminalState(c, x), c.st[x].kind # "Raw",
         NEW timed \in BOOLEAN
  PROVE  Sound(register(c, s[Len(s)].thread, x, timed), Pop(s), l, g, {}, {})
<1> DEFINE t == s[Len(s)].thread
           d == register(c, t, x, timed)
           s2 == Pop(s)
<1>1. /\ c \in Core /\ Waits(c) /\ Requested(c) /\ Reported(c) /\ Serial(c)
      /\ StackInv(c, s, l, g, {}, {}) /\ Leases(c, s) /\ Shape(s)
      /\ s \in Seq(Frames) /\ Len(s) \in DOMAIN s /\ DOMAIN s = 1 .. Len(s)
      BY SoundShape DEF CoreInv
<1>2. x \in States /\ t \in Threads
      BY <1>1, CoreTypes, FrameTypes DEF LuaFrames
<1>3. isOn(s, t) /\ t \notin c.waitBindings
      BY <1>1 DEF isOn, StackInv, Placed
<1>4. /\ Shape(s2)
      /\ \A i \in DOMAIN s2 : i \in DOMAIN s /\ s2[i] = s[i]
      /\ \A u : isOn(s2, u) <=> isOn(s, u) /\ u # t
      /\ \A u : u # t => runs(s2, u) = runs(s, u)
      /\ \A y : leased(s2, y) = leased(s, y)
      /\ \A y, u : wakes(s2, y, u) = wakes(s, y, u)
      BY <1>1, PopLua
<1>0. d \in Core /\ Registers(c, d, t, x)
      BY <1>1, <1>2, RegisterFields
<1>7. /\ Waits(d)
      /\ registration(d, t).task = IF t \in c.running_tasks THEN t ELSE None
      /\ \A u \in Threads \ {t} : registration(d, u) = registration(c, u)
      BY <1>1, <1>2, <1>3, RegisterWaits
<1> HIDE DEF d, s2, t
<1>5. /\ d \in Core
      /\ \A u \in Threads \ {t} : d.waiters[u] = c.waiters[u]
      /\ d.waiters[t].dependency = x
      /\ d.waitBindings = c.waitBindings \cup {t}
      /\ \A y \in States :
           /\ d.st[y].kind = c.st[y].kind /\ d.st[y].status = c.st[y].status
           /\ d.st[y].handles = c.st[y].handles /\ d.st[y].handler = c.st[y].handler
           /\ d.st[y].waiters = IF y = x THEN c.st[y].waiters + 1 ELSE c.st[y].waiters
           /\ d.st[y].observed = c.st[y].observed
           /\ d.st[y].teardown = c.st[y].teardown
           /\ d.st[y].reports = c.st[y].reports
           /\ y # x => d.st[y] = c.st[y]
      BY <1>0 DEF Registers
<1>6. /\ d.live = c.live /\ d.next = c.next /\ d.pending = c.pending
      /\ d.pending_requests = c.pending_requests
      /\ d.running_tasks = c.running_tasks /\ d.ready = c.ready
      /\ d.errors = c.errors /\ SameEvents(c, d)
      BY <1>0 DEF Registers
<1>8. \A y \in States : /\ isTerminalState(d, y) = isTerminalState(c, y)
                        /\ isReady(d, y) = isReady(c, y)
      BY <1>5, <1>6 DEF isTerminalState, isReady
<1>9. c.pending \subseteq States /\ Requests \subseteq States
      BY <1>1, CoreTypes, StateKinds
<1>10. Requested(d)
  <2>1. {y \in d.pending : d.st[y].kind # "Raw"} = {y \in c.pending : c.st[y].kind # "Raw"}
        BY <1>5, <1>6, <1>9
  <2>2. c.st[x].kind # "none"
        BY <1>1, <1>2 DEF Requested
  <2>3. \A y \in States : d.st[y].kind = "none" => d.st[y] = NoState /\ y \notin d.live
        BY <2>2, <1>1, <1>5, <1>6 DEF Requested
  <2>4. d.pending_requests = Cardinality({y \in d.pending : d.st[y].kind # "Raw"})
        BY <2>1, <1>1, <1>6 DEF Requested
  <2>5. \A y \in d.pending : /\ y \in d.live /\ d.st[y].status = "Pending"
                             /\ d.st[y].kind \in RequestKinds /\ ~isReady(d, y)
        BY <1>1, <1>5, <1>6, <1>8, <1>9 DEF Requested
  <2>6. \A y \in Requests : y >= d.next => d.st[y].kind = "none"
        BY <1>1, <1>5, <1>6, <1>9 DEF Requested
  <2>7. \A y \in States \ d.live :
          ~isTerminalState(d, y) => d.st[y].status = "Pending" /\ ~isReady(d, y)
        BY <1>1, <1>5, <1>6, <1>8 DEF Requested
  <2>8. \A y \in States : d.st[y].status = "Running" <=> y \in d.running_tasks
        BY <1>1, <1>5, <1>6 DEF Requested
  <2>9. \A y \in States :
          d.st[y].kind = "Raw" => d.st[y].handles = 0 /\ d.st[y].waiters = 0
        BY <1>1, <1>5 DEF Requested
  <2> QED
        BY <2>3, <2>4, <2>5, <2>6, <2>7, <2>8, <2>9 DEF Requested
<1>11. Reported(d)
  <2>1. {y \in States : d.st[y].reports > 0} = {y \in States : c.st[y].reports > 0}
        BY <1>5
  <2>2. d.errors <= Cardinality({y \in States : d.st[y].reports > 0})
        BY <2>1, <1>1, <1>6 DEF Reported
  <2>3. ASSUME NEW y \in States
        PROVE  LET r == d.st[y] IN
               /\ r.reports > 0 => r.reports = 1 /\ isTerminalState(d, y)
               /\ r.kind = "Task" /\ r.status = "Failed" /\ y \notin d.live
                    => r.observed \/ r.teardown \/ r.reports = 1
               /\ r.kind = "Task" /\ r.reports > 0 => y \notin d.live /\ ~r.observed
        BY <1>1, <1>5, <1>6, <1>8 DEF Reported
  <2> QED
        BY <2>2, <2>3 DEF Reported
<1>12. Serial(d)
      BY <1>1, <1>5, <1>6, <1>8, SameSerial DEF SameEvents
<1>13. Placed(d, s2, l, {})
  <2>1. ASSUME NEW y \in d.running_tasks
        PROVE  (y \in d.waitBindings /\ registration(d, y).task = y) \/ runs(s2, y)
    <3>1. CASE y = t
          BY <3>1, <1>5, <1>6, <1>7
    <3>2. CASE y # t
      <4>1. y \in Threads
            BY <1>5, CoreTypes, StateKinds
      <4> QED
            BY <4>1, <3>2, <1>1, <1>4, <1>5, <1>6, <1>7 DEF StackInv, Placed
    <3> QED
          BY <3>1, <3>2
  <2>2. \A i \in DOMAIN s2 :
          s2[i].at = "lua" /\ s2[i].task # None => d.st[s2[i].task].status # "Pending"
    <3>1. \A i \in DOMAIN s : s[i].at = "lua" /\ s[i].task # None => s[i].task \in States
          BY <1>1, FrameTypes DEF LuaFrames
    <3> QED
          BY <3>1, <1>1, <1>4, <1>5 DEF StackInv, Placed
  <2>3. \A y \in States :
          /\ d.st[y].status = "Pending" => l[y] = "fresh"
          /\ l[y] = "fresh" => y \notin d.waitBindings /\ ~isOn(s2, y)
        BY <1>1, <1>3, <1>4, <1>5 DEF StackInv, Placed
  <2> QED
        BY <2>1, <2>2, <2>3, <1>1, <1>4, <1>5 DEF StackInv, Placed
<1>14. Retiring(d, s2, {})
  <2>1. \A i \in DOMAIN s : s[i].at = "wake" => s[i].state \in States
        BY <1>1, FrameTypes DEF WakeFrames
  <2>2. \A y \in States : d.st[y].waiters = 0 => c.st[y].waiters = 0
        BY <1>1, <1>5, StateTypes
  <2>3. c.live \subseteq States
        BY <1>1, CoreTypes
  <2> QED
        BY <2>1, <2>2, <2>3, <1>1, <1>4, <1>5, <1>6, <1>8 DEF StackInv, Retiring
<1>15. Reaching(d, s2, g, {})
  <2>1. \A u \in Threads : c.waiters[u] # None => c.waiters[u].dependency \in States
        BY <1>1, CoreTypes DEF WaitRecord
  <2> QED
        BY <2>1, <1>1, <1>2, <1>4, <1>5, <1>8 DEF StackInv, Reaching
<1>16. Honest(d, s2)
  <2>1. \A i \in DOMAIN s : s[i].at = "lua" /\ s[i].by = "resume"
                              => s[i].wait.dependency \in States
        BY <1>1, FrameTypes DEF LuaFrames, WaitRecord, Shape
  <2> QED
        BY <2>1, <1>1, <1>4, <1>5 DEF StackInv, Honest
<1>17. Leases(d, s2)
      BY <1>1, <1>4, <1>5 DEF Leases
<1>18. Sound(d, s2, l, g, {}, {})
      BY <1>4, <1>5, <1>7, <1>10, <1>11, <1>12, <1>13, <1>14, <1>15, <1>16, <1>17
      DEF Sound, CoreInv, StackInv
<1> QED
      BY <1>18 DEF d, s2, t

LEMMA WeakenSound ==
  ASSUME NEW c, NEW s, NEW l, NEW g, NEW E, NEW F, Sound(c, s, l, g, E, F),
         NEW g2, NEW E2, NEW F2, g \subseteq g2, E \subseteq E2, F \subseteq F2
  PROVE  Sound(c, s, l, g2, E2, F2)
<1>1. CoreInv(c) /\ StackInv(c, s, l, g, E, F) /\ Leases(c, s) /\ Shape(s)
      BY SoundShape
<1>2. Placed(c, s, l, F2)
      BY <1>1 DEF StackInv, Placed
<1>3. Retiring(c, s, E2)
      BY <1>1 DEF StackInv, Retiring
<1>4. Reaching(c, s, g2, F2)
      BY <1>1 DEF StackInv, Reaching
<1> QED
      BY <1>1, <1>2, <1>3, <1>4 DEF Sound, StackInv

\* Only those who still wait need be remembered.
LEMMA GhostSound ==
  ASSUME NEW c, NEW s, NEW l, NEW g, NEW E, NEW F, Sound(c, s, l, g, E, F)
  PROVE  Sound(c, s, l, g \cap {t \in Threads : c.waiters[t] # None}, E, F)
<1>1. CoreInv(c) /\ StackInv(c, s, l, g, E, F) /\ Leases(c, s) /\ Shape(s)
      BY SoundShape
<1>2. Reaching(c, s, g \cap {t \in Threads : c.waiters[t] # None}, F)
      BY <1>1 DEF StackInv, Reaching
<1> QED
      BY <1>1, <1>2 DEF Sound, StackInv

\* A state that is over and that nobody waits for needs nothing more, and one that
\* is not over has not needed it yet.
LEMMA ExemptSound ==
  ASSUME NEW c, NEW s, NEW l, NEW g, NEW E, NEW F, Sound(c, s, l, g, E, F),
         NEW x \in F, x \in States,
         isTerminalState(c, x),
         \A t \in Threads : c.waiters[t] # None /\ c.waiters[t].dependency = x
                              => isReady(c, x) \/ t \in g \/ wakes(s, x, t)
  PROVE  Sound(c, s, l, g, E, F \ {x})
<1>1. CoreInv(c) /\ StackInv(c, s, l, g, E, F) /\ Leases(c, s) /\ Shape(s)
      BY SoundShape
<1>2. x \notin c.running_tasks
      BY <1>1 DEF CoreInv, Requested, isTerminalState
<1>3. Placed(c, s, l, F \ {x})
      BY <1>1, <1>2 DEF StackInv, Placed
<1>4. Reaching(c, s, g, F \ {x})
      BY <1>1 DEF StackInv, Reaching
<1> QED
      BY <1>1, <1>3, <1>4 DEF Sound, StackInv

\* The coroutine at the top ends; its Task, if that is still Running, is to be ended
\* with it.
LEMMA LeaveSound ==
  ASSUME NEW c, NEW s, NEW l, NEW g, NEW E, Sound(c, s, l, g, E, {}),
         s[Len(s)].at = "lua", s[Len(s)].thread # Main
  PROVE  Sound(c, Pop(s), [l EXCEPT ![s[Len(s)].thread] = "dead"], g, E,
               {s[Len(s)].task} \cap c.running_tasks)
<1> DEFINE t == s[Len(s)].thread
           s2 == Pop(s)
           l2 == [l EXCEPT ![t] = "dead"]
           F == {s[Len(s)].task} \cap c.running_tasks
<1>1. /\ c \in Core /\ CoreInv(c) /\ StackInv(c, s, l, g, E, {}) /\ Leases(c, s) /\ Shape(s)
      /\ s \in Seq(Frames) /\ Len(s) \in DOMAIN s /\ DOMAIN s = 1 .. Len(s)
      BY SoundShape
<1>2. t \in Threads /\ s[Len(s)].task \in {None, t}
      BY <1>1, FrameTypes DEF LuaFrames, Shape
<1>3. isOn(s, t)
      BY <1>1 DEF isOn
<1>4. /\ Shape(s2)
      /\ \A i \in DOMAIN s2 : i \in DOMAIN s /\ s2[i] = s[i]
      /\ \A u : isOn(s2, u) <=> isOn(s, u) /\ u # t
      /\ \A u : u # t => runs(s2, u) = runs(s, u)
      /\ \A y : leased(s2, y) = leased(s, y)
      /\ \A y, u : wakes(s2, y, u) = wakes(s, y, u)
      BY <1>1, PopLua
<1>5. l2 \in [Threads -> {"fresh", "live", "dead"}] /\ l2[t] = "dead"
      /\ \A u \in Threads : u # t => l2[u] = l[u]
      BY <1>1, <1>2 DEF StackInv, Placed
<1>6. \A y \in c.running_tasks : y # t \/ (y \in F) \/ ~runs(s, y)
  <2>1. \A i \in DOMAIN s : s[i].at = "lua" /\ s[i].thread = t => i = Len(s)
        BY <1>1 DEF Shape
  <2> QED
        BY <2>1 DEF runs
<1>7. \A y \in c.running_tasks \ F :
        (y \in c.waitBindings /\ registration(c, y).task = y) \/ runs(s2, y)
      BY <1>1, <1>4, <1>6 DEF StackInv, Placed
<1>8. \A x \in States :
        /\ c.st[x].status = "Pending" => l2[x] = "fresh"
        /\ l2[x] = "fresh" => x \notin c.waitBindings /\ ~isOn(s2, x)
      BY <1>1, <1>3, <1>4, <1>5, StateKinds DEF StackInv, Placed
<1> HIDE DEF s2, l2, F, t
<1>9. Placed(c, s2, l2, F)
      BY <1>1, <1>4, <1>5, <1>7, <1>8 DEF StackInv, Placed
<1>10. Retiring(c, s2, E)
      BY <1>1, <1>4 DEF StackInv, Retiring
<1>11. Reaching(c, s2, g, F)
      BY <1>1, <1>4 DEF StackInv, Reaching
<1>12. Honest(c, s2)
      BY <1>1, <1>4 DEF StackInv, Honest
<1>13. Leases(c, s2)
      BY <1>1, <1>4 DEF Leases
<1>14. Sound(c, s2, l2, g, E, F)
      BY <1>1, <1>4, <1>9, <1>10, <1>11, <1>12, <1>13 DEF Sound, StackInv
<1> QED
      BY <1>14 DEF s2, l2, F, t

\* Lua enters a coroutine that does not wait.
LEMMA EnterSound ==
  ASSUME NEW c, NEW s, NEW l, NEW g, NEW E, NEW F, Sound(c, s, l, g, E, F),
         NEW f \in LuaFrames, f.thread # Main, ~isOn(s, f.thread), f.by = "lua",
         f.task = None, ~f.quiet, f.thread \notin c.waitBindings,
         f.thread \in States => l[f.thread] # "fresh"
  PROVE  Sound(c, Append(s, f), [l EXCEPT ![f.thread] = "live"], g, E, F)
<1> DEFINE t == f.thread
           s2 == Append(s, f)
           l2 == [l EXCEPT ![t] = "live"]
<1>1. /\ c \in Core /\ CoreInv(c) /\ StackInv(c, s, l, g, E, F) /\ Leases(c, s) /\ Shape(s)
      BY SoundShape
<1>2. t \in Threads /\ f.at = "lua"
      BY DEF LuaFrames
<1>4. /\ Shape(s2) /\ Len(s2) = Len(s) + 1 /\ s2[Len(s) + 1] = f
      /\ \A i \in DOMAIN s2 : i = Len(s) + 1 \/ (i \in DOMAIN s /\ s2[i] = s[i])
      /\ \A u : isOn(s2, u) <=> isOn(s, u) \/ u = t
      /\ \A u : runs(s, u) => runs(s2, u)
      /\ \A y : leased(s2, y) = leased(s, y)
      /\ \A y, u : wakes(s2, y, u) = wakes(s, y, u)
      BY <1>1, PushLua
<1>5. l2 \in [Threads -> {"fresh", "live", "dead"}] /\ l2[t] = "live"
      /\ \A u \in Threads : u # t => l2[u] = l[u]
      BY <1>1, <1>2 DEF StackInv, Placed
<1> HIDE DEF s2, l2, t
<1>8. \A x \in States :
        /\ c.st[x].status = "Pending" => l2[x] = "fresh"
        /\ l2[x] = "fresh" => x \notin c.waitBindings /\ ~isOn(s2, x)
      BY <1>1, <1>4, <1>5, StateKinds DEF StackInv, Placed, t
<1>9. Placed(c, s2, l2, F)
      BY <1>1, <1>4, <1>5, <1>8 DEF StackInv, Placed, t
<1>10. Retiring(c, s2, E)
      BY <1>1, <1>2, <1>4 DEF StackInv, Retiring
<1>11. Reaching(c, s2, g, F)
      BY <1>1, <1>4 DEF StackInv, Reaching
<1>12. Honest(c, s2)
      BY <1>1, <1>4 DEF StackInv, Honest
<1>13. Leases(c, s2)
      BY <1>1, <1>4 DEF Leases
<1>14. Sound(c, s2, l2, g, E, F)
      BY <1>1, <1>4, <1>9, <1>10, <1>11, <1>12, <1>13 DEF Sound, StackInv
<1> QED
      BY <1>14 DEF s2, l2, t

-----------------------------------------------------------------------------
(***************************************************************************)
(* removeRegistration() up to its retireState().                           *)
(***************************************************************************)

unwait(c, t, x) ==
  [c EXCEPT !.waiters[t] = None,
            !.notifications[t] = IF c.waiters[t] # None THEN @ ELSE None,
            !.waitBindings = @ \ {t},
            !.st[x].waiters = @ - 1]

Unregisters(c, d, t, x) ==
  /\ d.waiters[t] = None /\ d.notifications[t] = None
  /\ d.waitBindings = c.waitBindings \ {t}
  /\ \A u \in Threads \ {t} : d.waiters[u] = c.waiters[u]
                              /\ d.notifications[u] = c.notifications[u]
  /\ d.live = c.live /\ d.next = c.next /\ d.pending = c.pending
  /\ d.pending_requests = c.pending_requests
  /\ d.running_tasks = c.running_tasks /\ d.ready = c.ready
  /\ d.errors = c.errors /\ SameEvents(c, d)
  /\ \A y \in States :
       /\ d.st[y].kind = c.st[y].kind /\ d.st[y].status = c.st[y].status
       /\ d.st[y].handles = c.st[y].handles /\ d.st[y].handler = c.st[y].handler
       /\ d.st[y].waiters = IF y = x THEN c.st[y].waiters - 1 ELSE c.st[y].waiters
       /\ d.st[y].observed = c.st[y].observed
       /\ d.st[y].teardown = c.st[y].teardown
       /\ d.st[y].reports = c.st[y].reports
       /\ y # x => d.st[y] = c.st[y]

LEMMA WaiterCounted ==
  ASSUME NEW c \in Core, Waits(c), NEW t \in Threads, registration(c, t) # None
  PROVE  LET x == registration(c, t).dependency IN
         /\ x \in States /\ t \in waitersOf(c, x) /\ c.st[x].waiters > 0 /\ x \in c.live
         /\ t \in c.waitBindings
<1> DEFINE x == registration(c, t).dependency
<1>1. x \in States
      BY RegistrationType
<1>2. t \in waitersOf(c, x) /\ waitersOf(c, x) \in SUBSET Threads
      BY DEF waitersOf
<1> HIDE DEF x
<1>3. Cardinality(waitersOf(c, x)) # 0 /\ Cardinality(waitersOf(c, x)) \in Nat
      BY <1>2, ThreadsFinite, FS_EmptySet
<1>4. c.st[x].waiters = Cardinality(waitersOf(c, x))
      BY <1>1 DEF Waits
<1>5. t \in c.waitBindings
      BY DEF Waits
<1> QED
      BY <1>1, <1>2, <1>3, <1>4, <1>5 DEF x, Waits

LEMMA UnwaitFields ==
  ASSUME NEW c \in Core, Waits(c), NEW t \in Threads, NEW x \in States,
         registration(c, t) # None, c.st[x].waiters > 0
  PROVE  unwait(c, t, x) \in Core /\ Unregisters(c, unwait(c, t, x), t, x)
<1> DEFINE d == unwait(c, t, x)
           r == [c.st[x] EXCEPT !.waiters = @ - 1]
           b == IF c.waiters[t] # None THEN c.notifications[t] ELSE None
<1>1. c.st[x] \in StateRecord /\ c.st[x].waiters \in Nat
      BY StateTypes
<1>2. c.st[x].waiters - 1 \in Nat
      BY <1>1
<1>3. /\ r \in StateRecord /\ r.waiters = c.st[x].waiters - 1
      /\ r.kind = c.st[x].kind /\ r.status = c.st[x].status
      /\ r.handles = c.st[x].handles /\ r.handler = c.st[x].handler
      /\ r.observed = c.st[x].observed /\ r.teardown = c.st[x].teardown
      /\ r.reports = c.st[x].reports
      BY <1>1, <1>2 DEF StateRecord
<1>4. PICK f \in [States -> StateRecord] : f = [c.st EXCEPT ![x] = r]
      BY <1>3, CoreTypes
<1>5. \A y \in States : f[y] = IF y = x THEN r ELSE c.st[y]
      BY <1>4, CoreTypes
<1>6. PICK v \in [Threads -> WaitRecord \cup {None}] : v = [c.waiters EXCEPT ![t] = None]
      BY CoreTypes
<1>7. b = None
      BY DEF Waits
<1>8. PICK w \in [Threads -> WaitRecord \cup {None}] : w = [c.notifications EXCEPT ![t] = b]
      BY <1>7, CoreTypes
<1>9. d = [c EXCEPT !.waiters = v, !.notifications = w,
                    !.waitBindings = c.waitBindings \ {t}, !.st = f]
      BY <1>4, <1>6, <1>8 DEF unwait
<1>10. c.waitBindings \ {t} \in SUBSET Threads
      BY CoreTypes
<1>11. d \in Core
      BY <1>9, <1>10, ZenonT(40) DEF Core
<1>12. d.st = f /\ d.waiters = v /\ d.notifications = w
       /\ d.waitBindings = c.waitBindings \ {t}
      BY <1>9 DEF Core
<1>13. /\ d.live = c.live /\ d.next = c.next /\ d.pending = c.pending
       /\ d.pending_requests = c.pending_requests
       /\ d.running_tasks = c.running_tasks /\ d.ready = c.ready
       /\ d.errors = c.errors
      BY <1>9 DEF Core
<1>14. SameEvents(c, d)
      BY <1>9 DEF Core, SameEvents
<1>15. /\ v[t] = None /\ w[t] = None
       /\ \A u \in Threads \ {t} : v[u] = c.waiters[u] /\ w[u] = c.notifications[u]
      BY <1>6, <1>7, <1>8, CoreTypes
<1> HIDE DEF d, r
<1>16. Unregisters(c, d, t, x)
      BY <1>3, <1>5, <1>12, <1>13, <1>14, <1>15 DEF Unregisters
<1> QED
      BY <1>11, <1>16 DEF d

LEMMA RemoveIs ==
  ASSUME NEW c, NEW t, registration(c, t) # None
  PROVE  removeRegistration(c, t) =
           retireState(unwait(c, t, registration(c, t).dependency),
                       registration(c, t).dependency)
      BY DEF removeRegistration, unwait

LEMMA UnwaitWaits ==
  ASSUME NEW c \in Core, Waits(c), NEW t \in Threads, registration(c, t) # None,
         NEW x \in States, x = registration(c, t).dependency,
         NEW d \in Core, Unregisters(c, d, t, x)
  PROVE  Waits(d) /\ \A u \in Threads \ {t} : registration(d, u) = registration(c, u)
<1>1. /\ d.waiters[t] = None /\ d.notifications[t] = None
      /\ d.waitBindings = c.waitBindings \ {t}
      /\ \A u \in Threads \ {t} : d.waiters[u] = c.waiters[u]
                                  /\ d.notifications[u] = c.notifications[u]
      /\ d.live = c.live /\ d.running_tasks = c.running_tasks
      BY DEF Unregisters
<1>2. \A y \in States :
        /\ d.st[y].status = c.st[y].status /\ d.st[y].handles = c.st[y].handles
        /\ d.st[y].waiters = IF y = x THEN c.st[y].waiters - 1 ELSE c.st[y].waiters
      BY DEF Unregisters
<1>3. registration(d, t) = None
      BY <1>1 DEF registration
<1>4. \A u \in Threads \ {t} : registration(d, u) = registration(c, u)
      BY <1>1 DEF registration
<1>5. /\ \A u \in Threads : d.waiters[u] = None \/ d.notifications[u] = None
      /\ d.waitBindings = {u \in Threads : registration(d, u) # None}
      BY <1>1, <1>3, <1>4 DEF Waits
<1>6. /\ waitersOf(d, x) = waitersOf(c, x) \ {t} /\ t \in waitersOf(c, x)
      /\ \A y \in States \ {x} : waitersOf(d, y) = waitersOf(c, y)
      BY <1>3, <1>4 DEF waitersOf
<1>7. Cardinality(waitersOf(d, x)) = Cardinality(waitersOf(c, x)) - 1
  <2>1. waitersOf(c, x) \in SUBSET Threads
        BY DEF waitersOf
  <2> QED
        BY <2>1, <1>6, ThreadsFinite, FS_RemoveElement
<1>8. ASSUME NEW y \in States
      PROVE  d.st[y].waiters = Cardinality(waitersOf(d, y))
  <2>1. CASE y = x
        BY <2>1, <1>2, <1>7 DEF Waits
  <2>2. CASE y # x
        BY <2>2, <1>2, <1>6 DEF Waits
  <2> QED
        BY <2>1, <2>2
<1>9. \A y \in States : d.st[y].waiters > 0 \/ d.st[y].handles > 0 => y \in d.live
      BY <1>1, <1>2, StateTypes DEF Waits
<1>10. \A u \in Threads : d.notifications[u] # None
                           => isTerminalState(d, d.notifications[u].dependency)
  <2>1. \A u \in Threads :
          c.notifications[u] # None => c.notifications[u].dependency \in States
        BY CoreTypes DEF WaitRecord
  <2> QED
        BY <2>1, <1>1, <1>2 DEF Waits, isTerminalState
<1>11. \A u \in d.waitBindings :
        LET r == registration(d, u) IN
        /\ r.task \in {None, u} /\ (r.task # None => u \in d.running_tasks)
        /\ r.expired => r.timed
  <2>1. d.waitBindings \subseteq Threads \ {t} /\ d.waitBindings \subseteq c.waitBindings
        BY <1>1, CoreTypes
  <2> QED
        BY <2>1, <1>1, <1>4 DEF Waits
<1> QED
      BY <1>4, <1>5, <1>8, <1>9, <1>10, <1>11 DEF Waits

LEMMA UnwaitRequested ==
  ASSUME NEW c \in Core, Requested(c), NEW t \in Threads, NEW x \in States,
         c.st[x].waiters > 0, x \in c.live,
         NEW d \in Core, Unregisters(c, d, t, x)
  PROVE  Requested(d)
<1>5. \A y \in States :
        /\ d.st[y].kind = c.st[y].kind /\ d.st[y].status = c.st[y].status
        /\ d.st[y].handles = c.st[y].handles
        /\ y # x => d.st[y] = c.st[y]
      BY DEF Unregisters
<1>6. /\ d.live = c.live /\ d.next = c.next /\ d.pending = c.pending
      /\ d.pending_requests = c.pending_requests
      /\ d.running_tasks = c.running_tasks /\ d.ready = c.ready
      BY DEF Unregisters
<1>8. \A y \in States : /\ isTerminalState(d, y) = isTerminalState(c, y)
                        /\ isReady(d, y) = isReady(c, y)
      BY <1>5, <1>6 DEF isTerminalState, isReady
<1>9. c.pending \subseteq States /\ Requests \subseteq States
      BY CoreTypes, StateKinds
<1>2. c.st[x].kind # "none" /\ c.st[x].kind # "Raw"
      BY DEF Requested
<1>3. {y \in d.pending : d.st[y].kind # "Raw"} = {y \in c.pending : c.st[y].kind # "Raw"}
      BY <1>5, <1>6, <1>9
<1>4. \A y \in States : d.st[y].kind = "none" => d.st[y] = NoState /\ y \notin d.live
      BY <1>2, <1>5, <1>6 DEF Requested
<1>10. d.pending_requests = Cardinality({y \in d.pending : d.st[y].kind # "Raw"})
      BY <1>3, <1>6 DEF Requested
<1>11. \A y \in d.pending : /\ y \in d.live /\ d.st[y].status = "Pending"
                            /\ d.st[y].kind \in RequestKinds /\ ~isReady(d, y)
      BY <1>5, <1>6, <1>8, <1>9 DEF Requested
<1>12. \A y \in Requests : y >= d.next => d.st[y].kind = "none"
      BY <1>5, <1>6, <1>9 DEF Requested
<1>13. \A y \in States \ d.live :
        ~isTerminalState(d, y) => d.st[y].status = "Pending" /\ ~isReady(d, y)
      BY <1>5, <1>6, <1>8 DEF Requested
<1>14. \A y \in States : d.st[y].status = "Running" <=> y \in d.running_tasks
      BY <1>5, <1>6 DEF Requested
<1>15. \A y \in States :
        d.st[y].kind = "Raw" => d.st[y].handles = 0 /\ d.st[y].waiters = 0
      BY <1>2, <1>5 DEF Requested
<1> QED
      BY <1>4, <1>10, <1>11, <1>12, <1>13, <1>14, <1>15 DEF Requested

LEMMA UnwaitReported ==
  ASSUME NEW c \in Core, Reported(c), NEW t \in Threads, NEW x \in States,
         NEW d \in Core, Unregisters(c, d, t, x)
  PROVE  Reported(d)
<1>1. d.live = c.live /\ d.errors = c.errors
      BY DEF Unregisters
<1>2. \A y \in States :
        /\ d.st[y].kind = c.st[y].kind /\ d.st[y].status = c.st[y].status
        /\ d.st[y].observed = c.st[y].observed /\ d.st[y].teardown = c.st[y].teardown
        /\ d.st[y].reports = c.st[y].reports
        /\ isTerminalState(d, y) = isTerminalState(c, y)
      BY DEF Unregisters, isTerminalState
<1>3. {y \in States : d.st[y].reports > 0} = {y \in States : c.st[y].reports > 0}
      BY <1>2
<1>4. d.errors <= Cardinality({y \in States : d.st[y].reports > 0})
      BY <1>3, <1>1 DEF Reported
<1>5. ASSUME NEW y \in States
      PROVE  LET r == d.st[y] IN
             /\ r.reports > 0 => r.reports = 1 /\ isTerminalState(d, y)
             /\ r.kind = "Task" /\ r.status = "Failed" /\ y \notin d.live
                  => r.observed \/ r.teardown \/ r.reports = 1
             /\ r.kind = "Task" /\ r.reports > 0 => y \notin d.live /\ ~r.observed
      BY <1>1, <1>2 DEF Reported
<1> QED
      BY <1>4, <1>5 DEF Reported

\* A coroutine stops waiting and runs: f is its frame.
LEMMA EnterWaiterSound ==
  ASSUME NEW c, NEW s, NEW l, NEW g, NEW E, NEW F,
         NEW t, NEW f \in LuaFrames, t = f.thread, Sound(c, s, l, g \cup {t}, E, F),
         registration(c, t) # None, f.task \in {None, registration(c, t).task},
         f.by \in {"lua", "resume"}, f.by = "lua" => f.task = None /\ ~f.quiet,
         f.by = "resume" => f.wait # None /\ f.outcome # "none", Honest(c, Append(s, f)),
         NEW l2, l2 = l \/ l2 = [l EXCEPT ![t] = "live"],
         NEW F2, registration(c, t).task \in F2 \cup {None, f.task}
  PROVE  Sound(removeRegistration(c, t), Append(s, f), l2, g,
               E \ {registration(c, t).dependency}, F \cup F2)
<1> DEFINE r == registration(c, t)
           x == r.dependency
           d == unwait(c, t, x)
           s2 == Append(s, f)
<1>1. /\ c \in Core /\ CoreInv(c) /\ Shape(s) /\ Leases(c, s)
      /\ StackInv(c, s, l, g \cup {t}, E, F)
      /\ Waits(c) /\ Requested(c) /\ Reported(c) /\ Serial(c)
      BY SoundShape DEF CoreInv
<1>2. t \in Threads /\ f.at = "lua"
      BY DEF LuaFrames
<1>3. x \in States /\ c.st[x].waiters > 0 /\ x \in c.live /\ t \in c.waitBindings
      BY <1>1, <1>2, WaiterCounted
<1>4. d \in Core /\ Unregisters(c, d, t, x)
      BY <1>1, <1>2, <1>3, UnwaitFields
<1>5. removeRegistration(c, t) = retireState(d, x)
      BY RemoveIs
<1>6. ~isOn(s, t) /\ t # Main
  <2>1. ~isOn(s, t)
        BY <1>1, <1>3 DEF StackInv, Placed
  <2>2. isOn(s, Main)
        BY <1>1 DEF isOn, Shape
  <2> QED
        BY <2>1, <2>2
<1>7. r.task \in {None, t} /\ (r.task # None => t \in c.running_tasks)
      BY <1>1, <1>3 DEF Waits
<1>8. /\ Shape(s2) /\ Len(s2) = Len(s) + 1 /\ s2[Len(s) + 1] = f
      /\ \A i \in DOMAIN s2 : i = Len(s) + 1 \/ (i \in DOMAIN s /\ s2[i] = s[i])
      /\ \A u : isOn(s2, u) <=> isOn(s, u) \/ u = t
      /\ \A u : runs(s, u) => runs(s2, u)
      /\ f.task = f.thread => runs(s2, f.thread)
      /\ \A y : leased(s2, y) = leased(s, y)
      /\ \A y, u : wakes(s2, y, u) = wakes(s, y, u)
      BY <1>1, <1>6, <1>7, PushLua
<1>9. Waits(d) /\ \A u \in Threads \ {t} : registration(d, u) = registration(c, u)
      BY <1>1, <1>2, <1>3, <1>4, UnwaitWaits
<1>10. Requested(d) /\ Reported(d)
      BY <1>1, <1>2, <1>3, <1>4, UnwaitRequested, UnwaitReported
<1>11. Serial(d)
  <2>1. \A y \in States : /\ d.st[y].kind = c.st[y].kind
                          /\ d.st[y].handler = c.st[y].handler
                          /\ isTerminalState(c, y) => isTerminalState(d, y)
        BY <1>4 DEF Unregisters, isTerminalState
  <2>2. SameEvents(c, d)
        BY <1>4 DEF Unregisters
  <2> QED
        BY <2>1, <2>2, <1>1, <1>4, SameSerial DEF SameEvents
<1>12. /\ l2 \in [Threads -> {"fresh", "live", "dead"}]
       /\ t \in States => l2[t] # "fresh"
       /\ \A u \in Threads : u # t => l2[u] = l[u]
  <2>1. l \in [Threads -> {"fresh", "live", "dead"}] /\ (t \in States => l[t] # "fresh")
        BY <1>1, <1>3 DEF StackInv, Placed
  <2> QED
        BY <2>1, <1>2
<1> HIDE DEF d, s2, x, r
<1>13. /\ d.waitBindings = c.waitBindings \ {t} /\ d.running_tasks = c.running_tasks
       /\ d.live = c.live /\ d.ready = c.ready
       /\ \A u \in Threads \ {t} : d.waiters[u] = c.waiters[u]
       /\ d.waiters[t] = None
       /\ \A y \in States :
            /\ d.st[y].status = c.st[y].status /\ d.st[y].handles = c.st[y].handles
            /\ d.st[y].waiters = IF y = x THEN c.st[y].waiters - 1 ELSE c.st[y].waiters
            /\ d.st[y].observed = c.st[y].observed
      BY <1>4 DEF Unregisters
<1>14. \A y \in States : /\ isTerminalState(d, y) = isTerminalState(c, y)
                         /\ isReady(d, y) = isReady(c, y)
      BY <1>13 DEF isTerminalState, isReady
<1>15. Placed(d, s2, l2, F \cup F2)
  <2>1. \A u \in d.waitBindings : ~isOn(s2, u)
        BY <1>1, <1>8, <1>13 DEF StackInv, Placed
  <2>2. ASSUME NEW y \in d.running_tasks \ (F \cup F2)
        PROVE  (y \in d.waitBindings /\ registration(d, y).task = y) \/ runs(s2, y)
    <3>1. CASE y = t
      <4>1. runs(s, t) \/ r.task = t
            BY <3>1, <2>2, <1>1, <1>13 DEF StackInv, Placed, r
      <4>2. r.task = t => f.task = t
            BY <3>1, <2>2, <1>2, StateKinds DEF r
      <4> QED
            BY <3>1, <4>1, <4>2, <1>8
    <3>2. CASE y # t
      <4>1. y \in Threads
            BY <1>13, <1>1, CoreTypes, StateKinds
      <4> QED
            BY <4>1, <3>2, <2>2, <1>1, <1>8, <1>9, <1>13 DEF StackInv, Placed
    <3> QED
          BY <3>1, <3>2
  <2>3. \A i \in DOMAIN s2 :
          s2[i].at = "lua" /\ s2[i].task # None => d.st[s2[i].task].status # "Pending"
    <3>1. \A i \in DOMAIN s : s[i].at = "lua" /\ s[i].task # None => s[i].task \in States
          BY <1>1, FrameTypes DEF LuaFrames, Shape
    <3>2. f.task # None => f.task \in c.running_tasks
          BY <1>7 DEF r
    <3>3. \A y \in c.running_tasks : y \in States /\ c.st[y].status = "Running"
          BY <1>1, CoreTypes DEF Requested
    <3> QED
          BY <3>1, <3>2, <3>3, <1>1, <1>8, <1>13 DEF StackInv, Placed
  <2>4. \A y \in States :
          /\ d.st[y].status = "Pending" => l2[y] = "fresh"
          /\ l2[y] = "fresh" => y \notin d.waitBindings /\ ~isOn(s2, y)
    <3>1. ASSUME NEW y \in States, y = t
          PROVE  d.st[y].status # "Pending" /\ l2[y] # "fresh"
          BY <3>1, <1>1, <1>3, <1>12, <1>13 DEF StackInv, Placed
    <3>2. ASSUME NEW y \in States, y # t
          PROVE  /\ d.st[y].status = "Pending" => l2[y] = "fresh"
                 /\ l2[y] = "fresh" => y \notin d.waitBindings /\ ~isOn(s2, y)
          BY <3>2, <1>1, <1>8, <1>12, <1>13, StateKinds DEF StackInv, Placed
    <3> QED
          BY <3>1, <3>2
  <2> QED
        BY <2>1, <2>2, <2>3, <2>4, <1>12 DEF Placed
<1>16. Retiring(d, s2, E \cup {x})
  <2>1. \A i \in DOMAIN s : s[i].at = "wake" => s[i].state \in States
        BY <1>1, FrameTypes DEF WakeFrames, Shape
  <2>2. c.live \subseteq States
        BY <1>1, CoreTypes
  <2> QED
        BY <2>1, <2>2, <1>1, <1>2, <1>8, <1>13, <1>14 DEF StackInv, Retiring
<1>17. Reaching(d, s2, g, F \cup F2)
  <2>1. \A u \in Threads : c.waiters[u] # None => c.waiters[u].dependency \in States
        BY <1>1, CoreTypes DEF WaitRecord
  <2> QED
        BY <2>1, <1>1, <1>8, <1>13, <1>14 DEF StackInv, Reaching
<1>18. Honest(d, s2)
  <2>1. \A i \in DOMAIN s2 : s2[i].at = "lua" /\ s2[i].by = "resume"
                              => s2[i].wait.dependency \in States
        BY <1>8, FrameTypes DEF LuaFrames, WaitRecord, Shape
  <2> QED
        BY <2>1, <1>13 DEF Honest, s2
<1>19. Leases(d, s2)
      BY <1>1, <1>8, <1>13 DEF Leases
<1>20. Sound(d, s2, l2, g, E \cup {x}, F \cup F2)
      BY <1>4, <1>8, <1>9, <1>10, <1>11, <1>15, <1>16, <1>17, <1>18, <1>19
      DEF Sound, CoreInv, StackInv
<1>21. Sound(retireState(d, x), s2, l2, g, (E \cup {x}) \ {x}, F \cup F2)
      BY <1>3, <1>20, RetireSound
<1>22. (E \cup {x}) \ {x} = E \ {x}
      OBVIOUS
<1> QED
      BY <1>5, <1>21, <1>22 DEF r, x, s2

-----------------------------------------------------------------------------
(***************************************************************************)
(* The frames of wake().                                                   *)
(***************************************************************************)

\* wake(x) begins: all who wait for x will be reached, and x is about to be retired.
LEMMA WakePushSound ==
  ASSUME NEW c, NEW s, NEW l, NEW g, NEW x \in States, Sound(c, s, l, g, {x}, {x}),
         isTerminalState(c, x), NEW after \in {"none", "finish", "setup"}
  PROVE  Sound(c, Append(s, WakeFrame(c, x, after)), l, g, {x}, {})
<1> DEFINE f == WakeFrame(c, x, after)
           s2 == Append(s, f)
<1>1. /\ c \in Core /\ CoreInv(c) /\ StackInv(c, s, l, g, {x}, {x}) /\ Leases(c, s)
      /\ Shape(s) /\ s \in Seq(Frames) /\ Len(s) \in Nat /\ Len(s) > 0
      BY SoundShape
<1>2. f \in Frames /\ f.at = "wake" /\ f.state = x /\ f.todo = waitersOf(c, x)
  <2>1. waitersOf(c, x) \in SUBSET Threads
        BY DEF waitersOf
  <2> QED
        BY <2>1 DEF WakeFrame, Frames, WakeFrames
<1> HIDE DEF f
<1>3. /\ s2 \in Seq(Frames) /\ Len(s2) = Len(s) + 1 /\ s2[Len(s) + 1] = f
      /\ \A i \in 1 .. Len(s) : s2[i] = s[i]
      BY <1>1, <1>2, AppendFields
<1> HIDE DEF s2
<1>4. /\ \A i \in DOMAIN s2 : i = Len(s) + 1 \/ (i \in DOMAIN s /\ s2[i] = s[i])
      /\ \A i \in DOMAIN s : i \in DOMAIN s2 /\ s2[i] = s[i]
      /\ Len(s) + 1 \in DOMAIN s2 /\ Len(s) + 1 # 1 /\ 1 \in DOMAIN s
      BY <1>1, <1>3
<1>5. Shape(s2)
  <2>1. \A i \in DOMAIN s2 : (s2[i].at = "lua" /\ s2[i].thread = Main) <=> i = 1
        BY <1>1, <1>2, <1>3, <1>4 DEF Shape
  <2>2. \A i, j \in DOMAIN s2 :
          s2[i].at = "lua" /\ s2[j].at = "lua" /\ s2[i].thread = s2[j].thread => i = j
        BY <1>1, <1>2, <1>3, <1>4 DEF Shape
  <2>3. \A i \in DOMAIN s2 : s2[i].at \in Waiting => i = 2
        BY <1>1, <1>2, <1>3, <1>4 DEF Shape, Waiting
  <2>4. \A i \in DOMAIN s2 : s2[i].at = "lua" =>
          /\ s2[i].task \in {None, s2[i].thread}
          /\ s2[i].by \in {"main", "lua"} => s2[i].task = None /\ ~s2[i].quiet
          /\ s2[i].by = "resume" => s2[i].wait # None /\ s2[i].outcome # "none"
        BY <1>1, <1>2, <1>3, <1>4 DEF Shape
  <2> QED
        BY <1>1, <1>3, <2>1, <2>2, <2>3, <2>4 DEF Shape
<1>6. /\ \A t : isOn(s2, t) = isOn(s, t)
      /\ \A t : runs(s2, t) = runs(s, t)
      BY <1>2, <1>3, <1>4 DEF isOn, runs
<1>7. /\ \A y, t : wakes(s, y, t) => wakes(s2, y, t)
      /\ \A t \in waitersOf(c, x) : wakes(s2, x, t)
      BY <1>2, <1>3, <1>4 DEF wakes
<1>8. \A y : leased(s2, y) = leased(s, y)
      BY <1>1, <1>2, <1>3 DEF leased, Waiting
<1>9. x \notin c.running_tasks
      BY <1>1 DEF CoreInv, Requested, isTerminalState
<1>10. Placed(c, s2, l, {})
  <2>1. \A i \in DOMAIN s2 : s2[i].at = "lua" => i \in DOMAIN s /\ s2[i] = s[i]
        BY <1>2, <1>3, <1>4
  <2> QED
        BY <2>1, <1>1, <1>6, <1>9 DEF StackInv, Placed
<1>11. Retiring(c, s2, {x})
      BY <1>1, <1>2, <1>3, <1>4 DEF StackInv, Retiring
<1>12. Reaching(c, s2, g, {})
  <2>1. \A t \in Threads : c.waiters[t] # None /\ c.waiters[t].dependency = x
                             => t \in waitersOf(c, x)
        BY DEF waitersOf, registration
  <2> QED
        BY <2>1, <1>1, <1>7 DEF StackInv, Reaching
<1>13. Honest(c, s2)
      BY <1>1, <1>2, <1>3, <1>4 DEF StackInv, Honest
<1>14. Leases(c, s2)
      BY <1>1, <1>8 DEF Leases
<1>15. Sound(c, s2, l, g, {x}, {})
      BY <1>1, <1>5, <1>10, <1>11, <1>12, <1>13, <1>14 DEF Sound, StackInv
<1> QED
      BY <1>15 DEF s2, f

\* wake(x) is over.
LEMMA WakePopSound ==
  ASSUME NEW c, NEW s, NEW l, NEW g, NEW E, NEW F, Sound(c, s, l, g, E, F),
         s[Len(s)].at = "wake", s[Len(s)].todo = {}
  PROVE  Sound(c, Pop(s), l, g, E, F)
<1> DEFINE s2 == Pop(s)
<1>1. /\ c \in Core /\ CoreInv(c) /\ StackInv(c, s, l, g, E, F) /\ Leases(c, s)
      /\ Shape(s) /\ s \in Seq(Frames) /\ Len(s) \in Nat /\ Len(s) > 0 /\ s[1].at = "lua"
      BY SoundShape
<1>2. /\ s2 \in Seq(Frames) /\ Len(s2) = Len(s) - 1
      /\ \A i \in 1 .. Len(s) - 1 : s2[i] = s[i]
      BY <1>1, PopFields
<1> HIDE DEF s2
<1>3. Len(s) # 1 /\ Len(s2) > 0
      BY <1>1, <1>2
<1>4. /\ \A i \in DOMAIN s2 : i \in DOMAIN s /\ s2[i] = s[i]
      /\ \A i \in DOMAIN s : i = Len(s) \/ (i \in DOMAIN s2 /\ s2[i] = s[i])
      /\ 1 \in DOMAIN s2 /\ DOMAIN s2 = 1 .. Len(s2)
      BY <1>1, <1>2, <1>3
<1>5. Shape(s2)
      BY <1>1, <1>2, <1>3, <1>4 DEF Shape
<1>6. /\ \A t : isOn(s2, t) = isOn(s, t)
      /\ \A t : runs(s2, t) = runs(s, t)
      /\ \A y, t : wakes(s2, y, t) = wakes(s, y, t)
      BY <1>1, <1>4 DEF isOn, runs, wakes
<1>8. \A y : leased(s2, y) = leased(s, y)
      BY <1>1, <1>2, <1>3, <1>4 DEF leased, Waiting
<1>10. Placed(c, s2, l, F)
      BY <1>1, <1>4, <1>6 DEF StackInv, Placed
<1>11. Retiring(c, s2, E)
      BY <1>1, <1>4 DEF StackInv, Retiring
<1>12. Reaching(c, s2, g, F)
      BY <1>1, <1>6 DEF StackInv, Reaching
<1>13. Honest(c, s2)
      BY <1>1, <1>4 DEF StackInv, Honest
<1>14. Leases(c, s2)
      BY <1>1, <1>8 DEF Leases
<1>15. Sound(c, s2, l, g, E, F)
      BY <1>1, <1>5, <1>10, <1>11, <1>12, <1>13, <1>14 DEF Sound, StackInv
<1> QED
      BY <1>15 DEF s2

\* wake(x) takes the next of its coroutines.
LEMMA WakeNextSound ==
  ASSUME NEW c, NEW s, NEW l, NEW g, NEW E, NEW F, Sound(c, s, l, g, E, F),
         s[Len(s)].at = "wake", NEW t, NEW g2, g \subseteq g2,
         c.waiters[t] # None /\ c.waiters[t].dependency = s[Len(s)].state => t \in g2
  PROVE  /\ Sound(c, Swap(s, [s[Len(s)] EXCEPT !.todo = @ \ {t}]), l, g2, E, F)
         /\ woken(Swap(s, [s[Len(s)] EXCEPT !.todo = @ \ {t}])) = woken(s)
<1> DEFINE f == s[Len(s)]
           f2 == [f EXCEPT !.todo = @ \ {t}]
           s2 == Swap(s, f2)
<1>1. /\ c \in Core /\ CoreInv(c) /\ StackInv(c, s, l, g, E, F) /\ Leases(c, s)
      /\ Shape(s) /\ s \in Seq(Frames) /\ Len(s) \in Nat /\ Len(s) > 0 /\ s[1].at = "lua"
      /\ Len(s) \in DOMAIN s
      BY SoundShape
<1>2. f \in WakeFrames
      BY <1>1, FrameTypes
<1>3. f2 \in WakeFrames /\ f2.at = "wake" /\ f2.state = f.state /\ f2.todo = f.todo \ {t}
      BY <1>2 DEF WakeFrames
<1> HIDE DEF f2
<1>4. /\ s2 \in Seq(Frames) /\ Len(s2) = Len(s) /\ s2[Len(s)] = f2
      /\ \A i \in 1 .. Len(s) - 1 : s2[i] = s[i]
      BY <1>1, <1>3, SwapFields DEF Frames
<1>5. DOMAIN s2 = DOMAIN s /\ \A i \in DOMAIN s : i = Len(s) \/ s2[i] = s[i]
      BY <1>1, <1>4
<1>6. woken(s2) = woken(s)
      BY <1>3, <1>4 DEF woken, f
<1> HIDE DEF s2
<1>7. Shape(s2)
  <2>1. \A i \in DOMAIN s2 : s2[i].at \in {"lua"} \cup Waiting => s2[i] = s[i]
        BY <1>3, <1>4, <1>5 DEF Waiting
  <2>2. \A i \in DOMAIN s : s[i].at = "lua" => s2[i] = s[i]
        BY <1>5
  <2> QED
        BY <2>1, <2>2, <1>1, <1>4, <1>5 DEF Shape
<1>8. /\ \A u : isOn(s2, u) = isOn(s, u)
      /\ \A u : runs(s2, u) = runs(s, u)
      BY <1>3, <1>4, <1>5 DEF isOn, runs
<1>9. \A y, u : wakes(s, y, u) => wakes(s2, y, u) \/ (y = f.state /\ u = t)
      BY <1>3, <1>4, <1>5 DEF wakes
<1>10. \A y : leased(s2, y) = leased(s, y)
      BY <1>1, <1>3, <1>4, <1>5 DEF leased, Waiting
<1>11. \A i \in DOMAIN s2 : s2[i].at = "lua" => s2[i] = s[i]
      BY <1>3, <1>4, <1>5
<1>12. Placed(c, s2, l, F)
      BY <1>1, <1>5, <1>8, <1>11 DEF StackInv, Placed
<1>13. Retiring(c, s2, E)
      BY <1>1, <1>3, <1>4, <1>5 DEF StackInv, Retiring
<1>14. Reaching(c, s2, g2, F)
      BY <1>1, <1>9 DEF StackInv, Reaching
<1>15. Honest(c, s2)
      BY <1>1, <1>5, <1>11 DEF StackInv, Honest
<1>16. Leases(c, s2)
      BY <1>1, <1>10 DEF Leases
<1>17. Sound(c, s2, l, g2, E, F)
      BY <1>1, <1>7, <1>12, <1>13, <1>14, <1>15, <1>16 DEF Sound, StackInv
<1> QED
      BY <1>6, <1>17 DEF s2, f2

\* wake(x), for a state that is over.
LEMMA WakeSound ==
  ASSUME NEW c, NEW s, NEW l, NEW g, NEW x \in States, Sound(c, s, l, g, {x}, {x}),
         isTerminalState(c, x), NEW after \in {"none", "finish", "setup"},
         wake(c, s, x, after)
  PROVE  Sound(core', stack', l, g, woken(stack'), {})
<1>1. s \in Seq(Frames) /\ Len(s) \in Nat
      BY SoundShape
<1>2. CASE after = "none" /\ waitersOf(c, x) = {}
  <2>1. core' = retireState(c, x) /\ stack' = s
        BY <1>2 DEF wake
  <2>2. \A t \in Threads : ~(c.waiters[t] # None /\ c.waiters[t].dependency = x)
        BY <1>2 DEF waitersOf, registration
  <2>3. Sound(c, s, l, g, {x}, {x} \ {x})
        BY <2>2, ExemptSound
  <2>4. Sound(retireState(c, x), s, l, g, {x} \ {x}, {x} \ {x})
        BY <2>3, RetireSound
  <2>5. {x} \ {x} \subseteq woken(s) /\ {x} \ {x} \subseteq {}
        OBVIOUS
  <2>6. Sound(retireState(c, x), s, l, g, woken(s), {})
        BY <2>4, <2>5, WeakenSound
  <2> QED
        BY <2>1, <2>6
<1>3. CASE ~(after = "none" /\ waitersOf(c, x) = {})
  <2> DEFINE f == WakeFrame(c, x, after)
             s2 == Append(s, f)
  <2>1. core' = c /\ stack' = s2
        BY <1>3 DEF wake
  <2>2. Sound(c, s2, l, g, {x}, {})
        BY WakePushSound
  <2>3. f \in Frames /\ f.at = "wake" /\ f.state = x
    <3>1. waitersOf(c, x) \in SUBSET Threads
          BY DEF waitersOf
    <3> QED
          BY <3>1 DEF WakeFrame, Frames, WakeFrames
  <2> HIDE DEF f
  <2>4. s2[Len(s2)] = f
        BY <1>1, <2>3, AppendFields
  <2>5. woken(s2) = {x}
        BY <2>3, <2>4 DEF woken
  <2> HIDE DEF s2
  <2> QED
        BY <2>1, <2>2, <2>5
<1> QED
      BY <1>2, <1>3

-----------------------------------------------------------------------------
(***************************************************************************)
(* The end of a task.                                                      *)
(***************************************************************************)

Ends(c, d, x, n) ==
  /\ d.running_tasks = c.running_tasks \ {x} /\ d.errors = c.errors + n
  /\ isTerminalState(d, x) /\ d.st[x].reports = c.st[x].reports + n
  /\ d.st[x].kind = c.st[x].kind /\ d.st[x].handles = c.st[x].handles
  /\ d.st[x].waiters = c.st[x].waiters /\ d.st[x].observed = c.st[x].observed
  /\ d.st[x].handler = c.st[x].handler /\ d.st[x].teardown = c.st[x].teardown
  /\ \A y \in States : y # x => d.st[y] = c.st[y]
  /\ d.live = c.live /\ d.next = c.next /\ d.pending = c.pending
  /\ d.pending_requests = c.pending_requests /\ d.waiters = c.waiters
  /\ d.notifications = c.notifications /\ d.waitBindings = c.waitBindings
  /\ d.ready = c.ready /\ SameEvents(c, d)
  /\ d.current = c.current /\ d.events_enabled = c.events_enabled

LEMMA EndTaskFields ==
  ASSUME NEW c \in Core, NEW x \in States, NEW failed \in BOOLEAN
  PROVE  /\ endTask(c, x, failed) \in Core
         /\ Ends(c, endTask(c, x, failed), x,
                 IF failed /\ c.st[x].kind = "EventTask" THEN 1 ELSE 0)
<1> DEFINE d == endTask(c, x, failed)
           n == IF failed /\ c.st[x].kind = "EventTask" THEN 1 ELSE 0
           status == IF failed THEN "Failed" ELSE "Done"
           q == [c.st[x] EXCEPT !.status = status]
           r == [q EXCEPT !.reports = @ + n]
<1>1. c.st[x] \in StateRecord /\ c.st[x].reports \in Nat /\ n \in Nat
      BY StateTypes
<1>2. status \in Statuses /\ status \in {"Done", "Failed"}
      BY DEF Statuses
<1>14. /\ q \in StateRecord /\ q.reports = c.st[x].reports /\ q.status = status
       /\ q.kind = c.st[x].kind /\ q.waiters = c.st[x].waiters
       /\ q.handles = c.st[x].handles /\ q.handler = c.st[x].handler
       /\ q.observed = c.st[x].observed /\ q.teardown = c.st[x].teardown
      BY <1>1, <1>2 DEF StateRecord
<1>15. q.reports + n \in Nat
      BY <1>1, <1>14
<1> HIDE DEF q
<1>3. /\ r \in StateRecord /\ r.reports = c.st[x].reports + n /\ r.status = status
      /\ r.kind = c.st[x].kind /\ r.waiters = c.st[x].waiters
      /\ r.handles = c.st[x].handles /\ r.handler = c.st[x].handler
      /\ r.observed = c.st[x].observed /\ r.teardown = c.st[x].teardown
      BY <1>14, <1>15 DEF StateRecord
<1>4. PICK f \in [States -> StateRecord] : f = [c.st EXCEPT ![x] = r]
      BY <1>3, CoreTypes
<1>5. \A y \in States : f[y] = IF y = x THEN r ELSE c.st[y]
      BY <1>4, CoreTypes
<1>6. [c.st EXCEPT ![x].status = status, ![x].reports = @ + n] = f
  <2>1. PICK f1 \in [States -> StateRecord] : f1 = [c.st EXCEPT ![x] = q]
        BY <1>14, CoreTypes
  <2>2. f1[x] = q
        BY <2>1, CoreTypes
  <2>3. [f1 EXCEPT ![x] = [f1[x] EXCEPT !.reports = @ + n]] = f
    <3>1. [f1 EXCEPT ![x] = r] = [c.st EXCEPT ![x] = r]
          BY <2>1, CoreTypes
    <3> QED
          BY <3>1, <2>2, <1>4
  <2> QED
        BY <2>1, <2>3 DEF q
<1>7. d = [c EXCEPT !.running_tasks = c.running_tasks \ {x}, !.errors = c.errors + n,
                    !.st = f]
      BY <1>6 DEF endTask
<1>8. c.running_tasks \ {x} \in SUBSET States /\ c.errors + n \in Nat
      BY <1>1, CoreTypes
<1> HIDE DEF r, n, status
<1>9. d \in Core
      BY <1>7, <1>8, ZenonT(40) DEF Core
<1>10. d.st = f /\ d.running_tasks = c.running_tasks \ {x} /\ d.errors = c.errors + n
      BY <1>7 DEF Core
<1>11. /\ d.live = c.live /\ d.next = c.next /\ d.pending = c.pending
       /\ d.pending_requests = c.pending_requests /\ d.waiters = c.waiters
       /\ d.notifications = c.notifications /\ d.waitBindings = c.waitBindings
       /\ d.ready = c.ready /\ d.current = c.current
       /\ d.events_enabled = c.events_enabled
      BY <1>7 DEF Core
<1>12. SameEvents(c, d)
      BY <1>7 DEF Core, SameEvents
<1> HIDE DEF d
<1>13. Ends(c, d, x, n)
      BY <1>2, <1>3, <1>5, <1>10, <1>11, <1>12 DEF Ends, isTerminalState
<1> QED
      BY <1>9, <1>13 DEF d, n

\* The same for a Task that Lua has torn from its wait.
LEMMA FailTaskFields ==
  ASSUME NEW c \in Core, NEW x \in States, ~isTerminalState(c, x)
  PROVE  LET d == failState([c EXCEPT !.running_tasks = @ \ {x}], x) IN
         d \in Core /\ Ends(c, d, x, 0)
<1> DEFINE b == [c EXCEPT !.running_tasks = @ \ {x}]
           d == failState(b, x)
           r == [c.st[x] EXCEPT !.status = "Failed"]
<1>1. c.st[x] \in StateRecord /\ c.st[x].reports \in Nat
      BY StateTypes
<1>3. /\ r \in StateRecord /\ r.reports = c.st[x].reports + 0 /\ r.status = "Failed"
      /\ r.kind = c.st[x].kind /\ r.waiters = c.st[x].waiters
      /\ r.handles = c.st[x].handles /\ r.handler = c.st[x].handler
      /\ r.observed = c.st[x].observed /\ r.teardown = c.st[x].teardown
      BY <1>1 DEF StateRecord, Statuses
<1>4. PICK f \in [States -> StateRecord] : f = [c.st EXCEPT ![x] = r]
      BY <1>3, CoreTypes
<1>5. \A y \in States : f[y] = IF y = x THEN r ELSE c.st[y]
      BY <1>4, CoreTypes
<1>6. b.st = c.st /\ ~isTerminalState(b, x)
      BY DEF Core, isTerminalState
<1>7. d = [b EXCEPT !.st = f]
      BY <1>4, <1>6 DEF failState
<1>14. d = [c EXCEPT !.running_tasks = c.running_tasks \ {x}, !.st = f]
      BY <1>7
<1>8. c.running_tasks \ {x} \in SUBSET States /\ c.errors = c.errors + 0
      BY <1>1, CoreTypes
<1> HIDE DEF r, b
<1>9. d \in Core
      BY <1>14, <1>8, ZenonT(40) DEF Core
<1>10. d.st = f /\ d.running_tasks = c.running_tasks \ {x} /\ d.errors = c.errors + 0
      BY <1>8, <1>14 DEF Core
<1>11. /\ d.live = c.live /\ d.next = c.next /\ d.pending = c.pending
       /\ d.pending_requests = c.pending_requests /\ d.waiters = c.waiters
       /\ d.notifications = c.notifications /\ d.waitBindings = c.waitBindings
       /\ d.ready = c.ready /\ d.current = c.current
       /\ d.events_enabled = c.events_enabled
      BY <1>14 DEF Core
<1>12. SameEvents(c, d)
      BY <1>14 DEF Core, SameEvents
<1> HIDE DEF d
<1>13. Ends(c, d, x, 0)
      BY <1>3, <1>5, <1>10, <1>11, <1>12 DEF Ends, isTerminalState
<1> QED
      BY <1>9, <1>13 DEF d, b

\* A running task that does not wait ends; its waiters are still to be woken, and then
\* it is to be retired.
LEMMA EndSound ==
  ASSUME NEW c, NEW s, NEW l, NEW g, NEW E, NEW F, Sound(c, s, l, g, E, F),
         NEW x \in c.running_tasks, registration(c, x) = None \/ registration(c, x).task # x,
         NEW n \in 0 .. 1, n = 1 => c.st[x].kind = "EventTask",
         NEW d \in Core, Ends(c, d, x, n)
  PROVE  Sound(d, s, l, g, E \cup {x}, F \cup {x})
<1>1. /\ c \in Core /\ CoreInv(c) /\ StackInv(c, s, l, g, E, F) /\ Leases(c, s)
      /\ Waits(c) /\ Requested(c) /\ Reported(c) /\ Serial(c) /\ Shape(s)
      BY SoundShape DEF CoreInv
<1>2. x \in States /\ c.st[x].status = "Running" /\ ~isTerminalState(c, x)
      BY <1>1, CoreTypes DEF Requested, isTerminalState
<1>3. x \in c.live /\ x \notin c.pending /\ c.st[x].reports = 0
      BY <1>1, <1>2, StateTypes DEF Requested, Reported
<1>4. /\ d.running_tasks = c.running_tasks \ {x} /\ d.errors = c.errors + n
      /\ d.live = c.live /\ d.next = c.next /\ d.pending = c.pending
      /\ d.pending_requests = c.pending_requests /\ d.waiters = c.waiters
      /\ d.notifications = c.notifications /\ d.waitBindings = c.waitBindings
      /\ d.ready = c.ready
      BY DEF Ends
<1>5. /\ isTerminalState(d, x) /\ d.st[x].reports = n
      /\ \A y \in States : y # x => d.st[y] = c.st[y]
      BY <1>2, <1>3 DEF Ends
<1>6. \A y \in States :
        /\ d.st[y].kind = c.st[y].kind /\ d.st[y].handles = c.st[y].handles
        /\ d.st[y].waiters = c.st[y].waiters /\ d.st[y].observed = c.st[y].observed
        /\ d.st[y].handler = c.st[y].handler /\ d.st[y].teardown = c.st[y].teardown
      BY <1>2 DEF Ends
<1>7. \A y \in States :
        /\ isTerminalState(c, y) => y # x /\ isTerminalState(d, y) /\ d.st[y] = c.st[y]
        /\ isTerminalState(d, y) => y = x \/ isTerminalState(c, y)
        /\ isReady(d, y) = isReady(c, y)
      BY <1>2, <1>4, <1>5 DEF isTerminalState, isReady
<1>8. \A t : registration(d, t) = registration(c, t)
      BY <1>4, SameWaits
<1>9. \A y : waitersOf(d, y) = waitersOf(c, y)
      BY <1>4, SameWaits
<1>10. Waits(d)
  <2>1. \A t \in Threads :
          c.notifications[t] # None => c.notifications[t].dependency \in States
        BY <1>1, CoreTypes DEF WaitRecord
  <2>2. /\ \A t \in Threads : d.waiters[t] = None \/ d.notifications[t] = None
        /\ d.waitBindings = {t \in Threads : registration(d, t) # None}
        /\ \A y \in States : d.st[y].waiters = Cardinality(waitersOf(d, y))
        BY <1>1, <1>4, <1>6, <1>8, <1>9 DEF Waits
  <2>3. \A y \in States : d.st[y].waiters > 0 \/ d.st[y].handles > 0 => y \in d.live
        BY <1>1, <1>4, <1>6 DEF Waits
  <2>4. \A t \in Threads : d.notifications[t] # None
                            => isTerminalState(d, d.notifications[t].dependency)
        BY <1>1, <1>4, <1>7, <2>1 DEF Waits
  <2>5. ASSUME NEW t \in d.waitBindings
        PROVE  LET r == registration(d, t) IN
               /\ r.task \in {None, t} /\ (r.task # None => t \in d.running_tasks)
               /\ r.expired => r.timed
    <3>1. registration(c, t) # None
          BY <1>1, <1>4 DEF Waits
    <3>2. LET r == registration(c, t) IN
          /\ r.task \in {None, t} /\ (r.task # None => t \in c.running_tasks)
          /\ r.expired => r.timed
          BY <1>1, <1>4 DEF Waits
    <3> QED
          BY <3>1, <3>2, <1>4, <1>8
  <2> QED
        BY <2>2, <2>3, <2>4, <2>5 DEF Waits
<1>11. Requested(d)
  <2>1. c.pending \subseteq States /\ Requests \subseteq States
        BY <1>1, CoreTypes, StateKinds
  <2>2. {y \in d.pending : d.st[y].kind # "Raw"} = {y \in c.pending : c.st[y].kind # "Raw"}
        BY <2>1, <1>4, <1>6
  <2>3. d.pending_requests = Cardinality({y \in d.pending : d.st[y].kind # "Raw"})
        BY <2>2, <1>1, <1>4 DEF Requested
  <2>4. \A y \in d.pending : /\ y \in d.live /\ d.st[y].status = "Pending"
                             /\ d.st[y].kind \in RequestKinds /\ ~isReady(d, y)
        BY <2>1, <1>1, <1>3, <1>4, <1>5, <1>7 DEF Requested
  <2>5. \A y \in States : d.st[y].kind = "none" => d.st[y] = NoState /\ y \notin d.live
        BY <1>1, <1>3, <1>4, <1>5, <1>6 DEF Requested
  <2>6. \A y \in Requests : y >= d.next => d.st[y].kind = "none"
        BY <2>1, <1>1, <1>4, <1>6 DEF Requested
  <2>7. \A y \in States \ d.live :
          ~isTerminalState(d, y) => d.st[y].status = "Pending" /\ ~isReady(d, y)
        BY <1>1, <1>4, <1>5, <1>7 DEF Requested
  <2>8. \A y \in States : d.st[y].status = "Running" <=> y \in d.running_tasks
        BY <1>1, <1>4, <1>5 DEF Requested, isTerminalState
  <2>9. \A y \in States :
          d.st[y].kind = "Raw" => d.st[y].handles = 0 /\ d.st[y].waiters = 0
        BY <1>1, <1>6 DEF Requested
  <2> QED
        BY <2>3, <2>4, <2>5, <2>6, <2>7, <2>8, <2>9 DEF Requested
<1>12. Reported(d)
  <2> DEFINE Old == {y \in States : c.st[y].reports > 0}
             New == {y \in States : d.st[y].reports > 0}
  <2>1. Old \in SUBSET States /\ IsFiniteSet(Old) /\ Cardinality(Old) \in Nat
        BY ThreadsFinite
  <2>2. c.errors <= Cardinality(Old) /\ c.errors \in Nat
        BY <1>1, CoreTypes DEF Reported
  <2>3. d.errors <= Cardinality(New)
    <3>1. CASE n = 1
      <4>1. x \notin Old /\ New = Old \cup {x}
            BY <3>1, <1>2, <1>3, <1>5
      <4>2. Cardinality(New) = Cardinality(Old) + 1
            BY <4>1, <2>1, FS_AddElement
      <4> HIDE DEF Old, New
      <4> QED
            BY <3>1, <4>2, <2>1, <2>2, <1>4
    <3>2. CASE n = 0
      <4>1. New = Old
            BY <3>2, <1>2, <1>3, <1>5
      <4> HIDE DEF Old, New
      <4> QED
            BY <3>2, <4>1, <2>1, <2>2, <1>4
    <3> QED
          BY <3>1, <3>2
  <2>4. ASSUME NEW y \in States
        PROVE  LET r == d.st[y] IN
               /\ r.reports > 0 => r.reports = 1 /\ isTerminalState(d, y)
               /\ r.kind = "Task" /\ r.status = "Failed" /\ y \notin d.live
                    => r.observed \/ r.teardown \/ r.reports = 1
               /\ r.kind = "Task" /\ r.reports > 0 => y \notin d.live /\ ~r.observed
    <3>1. CASE y = x
          BY <3>1, <1>3, <1>4, <1>5, <1>6
    <3>2. CASE y # x
          BY <3>2, <1>1, <1>4, <1>5, <1>7 DEF Reported
    <3> QED
          BY <3>1, <3>2
  <2> QED
        BY <2>3, <2>4 DEF Reported
<1>13. Serial(d)
      BY <1>1, <1>6, <1>7, SameSerial DEF Ends, SameEvents
<1>14. Placed(d, s, l, F \cup {x})
  <2>1. \A i \in DOMAIN s : s[i].at = "lua" /\ s[i].task # None => s[i].task \in States
        BY <1>1, FrameTypes DEF LuaFrames, Shape
  <2>2. \A y \in States : d.st[y].status = "Pending" => c.st[y].status = "Pending"
        BY <1>5 DEF isTerminalState
  <2>3. \A y \in States : c.st[y].status # "Pending" => d.st[y].status # "Pending"
        BY <2>2
  <2> QED
        BY <2>1, <2>2, <2>3, <1>1, <1>4, <1>8 DEF StackInv, Placed
<1>15. Retiring(d, s, E \cup {x})
  <2>1. \A i \in DOMAIN s : s[i].at = "wake" => s[i].state \in States
        BY <1>1, FrameTypes DEF WakeFrames, Shape
  <2>2. c.live \subseteq States
        BY <1>1, CoreTypes
  <2> QED
        BY <2>1, <2>2, <1>1, <1>4, <1>6, <1>7 DEF StackInv, Retiring
<1>16. Reaching(d, s, g, F \cup {x})
  <2>1. \A t \in Threads : c.waiters[t] # None => c.waiters[t].dependency \in States
        BY <1>1, CoreTypes DEF WaitRecord
  <2> QED
        BY <2>1, <1>1, <1>4, <1>7 DEF StackInv, Reaching
<1>17. Honest(d, s)
  <2>1. \A i \in DOMAIN s : s[i].at = "lua" /\ s[i].by = "resume"
          => s[i].wait.dependency \in States
        BY <1>1, FrameTypes DEF LuaFrames, WaitRecord, Shape
  <2>2. \A y \in States : /\ c.st[y].status \in {"Resolved", "Done"}
                               => d.st[y].status \in {"Resolved", "Done"}
                          /\ c.st[y].status = "Failed" => d.st[y].status = "Failed"
        BY <1>7 DEF isTerminalState
  <2> QED
        BY <2>1, <2>2, <1>1, <1>6 DEF StackInv, Honest
<1>18. Leases(d, s)
      BY <1>1, <1>6 DEF Leases
<1> QED
      BY <1>1, <1>10, <1>11, <1>12, <1>13, <1>14, <1>15, <1>16, <1>17, <1>18
      DEF Sound, CoreInv, StackInv

-----------------------------------------------------------------------------
(***************************************************************************)
(* Event tasks begin.                                                      *)
(***************************************************************************)

\* As a task of handler h begins: its update has had no task before.
Starts(c, d, x, h) ==
  /\ d.st[x].kind = "EventTask" /\ d.st[x].handler = h /\ d.st[x].status = "Pending"
  /\ d.st[x].handles = 0 /\ d.st[x].waiters = 0 /\ d.st[x].reports = 0
  /\ \A y \in States : y # x => d.st[y] = c.st[y]
  /\ d.live = c.live \cup {x} /\ d.ready = Append(c.ready, x)
  /\ d.next = c.next /\ d.pending = c.pending
  /\ d.pending_requests = c.pending_requests /\ d.waiters = c.waiters
  /\ d.notifications = c.notifications /\ d.waitBindings = c.waitBindings
  /\ d.running_tasks = c.running_tasks /\ d.errors = c.errors

LEMMA StartFields ==
  ASSUME NEW c \in Core, NEW x \in States, NEW h \in 0 .. MaxHandlers
  PROVE  /\ startEventTask(c, x, h) \in Core /\ Starts(c, startEventTask(c, x, h), x, h)
         /\ SameEvents(c, startEventTask(c, x, h))
         /\ startEventTask(c, x, h).events_enabled = c.events_enabled
<1> DEFINE d == startEventTask(c, x, h)
           r == [NoState EXCEPT !.kind = "EventTask", !.handles = 0, !.handler = h]
<1>1. /\ r \in StateRecord /\ r.kind = "EventTask" /\ r.handler = h /\ r.status = "Pending"
      /\ r.handles = 0 /\ r.waiters = 0 /\ r.reports = 0
      BY DEF NoState, StateRecord, Statuses
<1> HIDE DEF r
<1>2. PICK f \in [States -> StateRecord] : f = [c.st EXCEPT ![x] = r]
      BY <1>1, CoreTypes
<1>3. f[x] = r /\ \A y \in States : y # x => f[y] = c.st[y]
      BY <1>2, CoreTypes
<1>4. createState(c, x, "EventTask", 0, h) =
        [c EXCEPT !.st = f, !.live = c.live \cup {x},
                  !.pending = c.pending, !.pending_requests = c.pending_requests]
      BY <1>2 DEF createState, r
<1>5. createState(c, x, "EventTask", 0, h).ready = c.ready
      BY <1>4 DEF Core
<1>6. d = [c EXCEPT !.st = f, !.live = c.live \cup {x},
                    !.pending = c.pending, !.pending_requests = c.pending_requests,
                    !.ready = Append(c.ready, x)]
      BY <1>4, <1>5 DEF startEventTask
<1>7. c.live \cup {x} \in SUBSET States /\ Append(c.ready, x) \in Seq(States)
      BY CoreTypes
<1>8. d \in Core
      BY <1>6, <1>7, ZenonT(40) DEF Core
<1>9. d.st = f /\ d.live = c.live \cup {x} /\ d.ready = Append(c.ready, x)
      BY <1>6 DEF Core
<1>10. /\ d.next = c.next /\ d.pending = c.pending
       /\ d.pending_requests = c.pending_requests /\ d.waiters = c.waiters
       /\ d.notifications = c.notifications /\ d.waitBindings = c.waitBindings
       /\ d.running_tasks = c.running_tasks /\ d.errors = c.errors
      BY <1>6 DEF Core
<1>11. SameEvents(c, d) /\ d.events_enabled = c.events_enabled
      BY <1>6 DEF Core, SameEvents
<1> HIDE DEF d
<1>12. Starts(c, d, x, h)
      BY <1>1, <1>3, <1>9, <1>10 DEF Starts
<1> QED
      BY <1>8, <1>11, <1>12 DEF d

LEMMA AppendReady ==
  ASSUME NEW c \in Core, NEW d, NEW x, d.ready = Append(c.ready, x)
  PROVE  \A y : isReady(d, y) <=> isReady(c, y) \/ y = x
<1>1. c.ready \in Seq(States)
      BY CoreTypes
<1> DEFINE s == c.ready
           s2 == Append(s, x)
<1>2. /\ \A i \in DOMAIN s : i \in DOMAIN s2 /\ s2[i] = s[i]
      /\ \A i \in DOMAIN s2 : (i \in DOMAIN s /\ s2[i] = s[i]) \/ s2[i] = x
      /\ Len(s2) \in DOMAIN s2 /\ s2[Len(s2)] = x
      BY <1>1
<1> QED
      BY <1>2 DEF isReady

LEMMA StartSound ==
  ASSUME NEW c, NEW s, NEW l, NEW g, NEW E, NEW F, Sound(c, s, l, g, E, F),
         NEW x \in EventIds, c.st[x].kind = "none", NEW h,
         NEW d \in Core, Starts(c, d, x, h), Serial(d)
  PROVE  Sound(d, s, l, g, E, F)
<1>1. /\ c \in Core /\ CoreInv(c) /\ StackInv(c, s, l, g, E, F) /\ Leases(c, s)
      /\ Waits(c) /\ Requested(c) /\ Reported(c) /\ Shape(s)
      BY SoundShape DEF CoreInv
<1>2. x \in States /\ x \notin Requests
      BY StateKinds
<1>3. c.st[x] = NoState /\ x \notin c.live
      BY <1>1, <1>2 DEF Requested
<1>4. /\ c.st[x].status = "Pending" /\ c.st[x].handles = 0 /\ c.st[x].waiters = 0
      /\ c.st[x].reports = 0 /\ ~isTerminalState(c, x)
      BY <1>3 DEF NoState, isTerminalState
<1>5. /\ d.live = c.live \cup {x} /\ d.ready = Append(c.ready, x)
      /\ d.next = c.next /\ d.pending = c.pending
      /\ d.pending_requests = c.pending_requests /\ d.waiters = c.waiters
      /\ d.notifications = c.notifications /\ d.waitBindings = c.waitBindings
      /\ d.running_tasks = c.running_tasks /\ d.errors = c.errors
      /\ \A y \in States : y # x => d.st[y] = c.st[y]
      /\ d.st[x].kind = "EventTask" /\ d.st[x].reports = 0
      BY DEF Starts
<1>6. \A y \in States :
        /\ d.st[y].status = c.st[y].status /\ d.st[y].handles = c.st[y].handles
        /\ d.st[y].waiters = c.st[y].waiters /\ d.st[y].reports = c.st[y].reports
      BY <1>4 DEF Starts
<1>7. \A y \in States : /\ isTerminalState(d, y) = isTerminalState(c, y)
                        /\ isReady(d, y) <=> isReady(c, y) \/ y = x
      BY <1>1, <1>5, <1>6, AppendReady DEF isTerminalState
<1>8. \A t : registration(d, t) = registration(c, t)
      BY <1>5, SameWaits
<1>9. \A y : waitersOf(d, y) = waitersOf(c, y)
      BY <1>5, SameWaits
<1>10. Waits(d)
  <2>1. \A t \in Threads :
          c.notifications[t] # None => c.notifications[t].dependency \in States
        BY <1>1, CoreTypes DEF WaitRecord
  <2>2. /\ \A t \in Threads : d.waiters[t] = None \/ d.notifications[t] = None
        /\ d.waitBindings = {t \in Threads : registration(d, t) # None}
        /\ \A y \in States : d.st[y].waiters = Cardinality(waitersOf(d, y))
        BY <1>1, <1>5, <1>6, <1>8, <1>9 DEF Waits
  <2>3. \A y \in States : d.st[y].waiters > 0 \/ d.st[y].handles > 0 => y \in d.live
        BY <1>1, <1>5, <1>6 DEF Waits
  <2>4. \A t \in Threads : d.notifications[t] # None
                            => isTerminalState(d, d.notifications[t].dependency)
        BY <1>1, <1>5, <1>7, <2>1 DEF Waits
  <2>5. \A t \in d.waitBindings :
          LET r == registration(d, t) IN
          /\ r.task \in {None, t} /\ (r.task # None => t \in d.running_tasks)
          /\ r.expired => r.timed
        BY <1>1, <1>5, <1>8 DEF Waits
  <2> QED
        BY <2>2, <2>3, <2>4, <2>5 DEF Waits
<1>11. Requested(d)
  <2>1. c.pending \subseteq States /\ Requests \subseteq States /\ x \notin c.pending
        BY <1>1, <1>2, CoreTypes, StateKinds
  <2>2. {y \in d.pending : d.st[y].kind # "Raw"} = {y \in c.pending : c.st[y].kind # "Raw"}
        BY <2>1, <1>5
  <2>3. d.pending_requests = Cardinality({y \in d.pending : d.st[y].kind # "Raw"})
        BY <2>2, <1>1, <1>5 DEF Requested
  <2>4. \A y \in d.pending : /\ y \in d.live /\ d.st[y].status = "Pending"
                             /\ d.st[y].kind \in RequestKinds /\ ~isReady(d, y)
        BY <2>1, <1>1, <1>5, <1>7 DEF Requested
  <2>5. \A y \in States : d.st[y].kind = "none" => d.st[y] = NoState /\ y \notin d.live
        BY <1>1, <1>5 DEF Requested
  <2>6. \A y \in Requests : y >= d.next => d.st[y].kind = "none"
        BY <2>1, <1>1, <1>2, <1>5 DEF Requested
  <2>7. \A y \in States \ d.live :
          ~isTerminalState(d, y) => d.st[y].status = "Pending" /\ ~isReady(d, y)
        BY <1>1, <1>5, <1>7 DEF Requested
  <2>8. \A y \in States : d.st[y].status = "Running" <=> y \in d.running_tasks
        BY <1>1, <1>5, <1>6 DEF Requested
  <2>9. \A y \in States :
          d.st[y].kind = "Raw" => d.st[y].handles = 0 /\ d.st[y].waiters = 0
        BY <1>1, <1>5 DEF Requested
  <2> QED
        BY <2>3, <2>4, <2>5, <2>6, <2>7, <2>8, <2>9 DEF Requested
<1>12. Reported(d)
  <2>1. {y \in States : d.st[y].reports > 0} = {y \in States : c.st[y].reports > 0}
        BY <1>6
  <2>2. d.errors <= Cardinality({y \in States : d.st[y].reports > 0})
        BY <2>1, <1>1, <1>5 DEF Reported
  <2>3. ASSUME NEW y \in States
        PROVE  LET r == d.st[y] IN
               /\ r.reports > 0 => r.reports = 1 /\ isTerminalState(d, y)
               /\ r.kind = "Task" /\ r.status = "Failed" /\ y \notin d.live
                    => r.observed \/ r.teardown \/ r.reports = 1
               /\ r.kind = "Task" /\ r.reports > 0 => y \notin d.live /\ ~r.observed
    <3>1. CASE y = x
          BY <3>1, <1>5
    <3>2. CASE y # x
          BY <3>2, <1>1, <1>5, <1>7 DEF Reported
    <3> QED
          BY <3>1, <3>2
  <2> QED
        BY <2>2, <2>3 DEF Reported
<1>13. Placed(d, s, l, F)
  <2>1. \A i \in DOMAIN s : s[i].at = "lua" /\ s[i].task # None => s[i].task \in States
        BY <1>1, FrameTypes DEF LuaFrames, Shape
  <2> QED
        BY <2>1, <1>1, <1>5, <1>6, <1>8 DEF StackInv, Placed
<1>14. Retiring(d, s, E)
  <2>1. \A i \in DOMAIN s : s[i].at = "wake" => s[i].state \in States
        BY <1>1, FrameTypes DEF WakeFrames, Shape
  <2>2. c.live \subseteq States
        BY <1>1, CoreTypes
  <2>3. \A i \in DOMAIN s : s[i].at = "wake" => isTerminalState(d, s[i].state)
        BY <2>1, <1>1, <1>7 DEF StackInv, Retiring
  <2>4. ASSUME NEW y \in d.live \ E, isTerminalState(d, y), d.st[y].handles = 0,
               d.st[y].waiters = 0
        PROVE  isReady(d, y)
    <3>1. y \in States /\ isTerminalState(c, y)
          BY <2>2, <2>4, <1>2, <1>5, <1>7
    <3>2. y \in c.live
          BY <3>1, <2>4, <1>4, <1>5
    <3>3. c.st[y].handles = 0 /\ c.st[y].waiters = 0
          BY <3>1, <2>4, <1>6
    <3> QED
          BY <3>1, <3>2, <3>3, <2>4, <1>1, <1>7 DEF StackInv, Retiring
  <2> QED
        BY <2>3, <2>4 DEF Retiring
<1>15. Reaching(d, s, g, F)
  <2>1. \A t \in Threads : c.waiters[t] # None => c.waiters[t].dependency \in States
        BY <1>1, CoreTypes DEF WaitRecord
  <2> QED
        BY <2>1, <1>1, <1>5, <1>7 DEF StackInv, Reaching
<1>16. Honest(d, s)
  <2>1. \A i \in DOMAIN s : s[i].at = "lua" /\ s[i].by = "resume"
          => s[i].wait.dependency \in States
        BY <1>1, FrameTypes DEF LuaFrames, WaitRecord, Shape
  <2> QED
        BY <2>1, <1>1, <1>4, <1>5 DEF StackInv, Honest
<1>17. Leases(d, s)
      BY <1>1, <1>6 DEF Leases
<1> QED
      BY <1>1, <1>10, <1>11, <1>12, <1>13, <1>14, <1>15, <1>16, <1>17
      DEF Sound, CoreInv, StackInv

\* The updates a handler keeps, and whether it is at work.
putHandler(c, h, r) == [c EXCEPT !.handler = [c.handler EXCEPT ![h] = r]]

PutsHandler(c, d, h, r) ==
  /\ SameStates(c, d) /\ d.errors = c.errors
  /\ d.handler[h] = r /\ \A k \in Handlers \ {h} : d.handler[k] = c.handler[k]
  /\ d.deferred_events = c.deferred_events /\ d.event = c.event
  /\ d.handlers = c.handlers /\ d.current = c.current
  /\ d.events_enabled = c.events_enabled

LEMMA PutHandlerFields ==
  ASSUME NEW c \in Core, NEW h \in Handlers, NEW r \in HandlerRecord
  PROVE  putHandler(c, h, r) \in Core /\ PutsHandler(c, putHandler(c, h, r), h, r)
<1> DEFINE d == putHandler(c, h, r)
<1>1. PICK f \in [Handlers -> HandlerRecord] : f = [c.handler EXCEPT ![h] = r]
      BY CoreTypes
<1>2. f[h] = r /\ \A k \in Handlers \ {h} : f[k] = c.handler[k]
      BY <1>1, CoreTypes
<1>3. d = [c EXCEPT !.handler = f]
      BY <1>1 DEF putHandler
<1>4. d \in Core /\ d.handler = f
      BY <1>3 DEF Core
<1>5. SameStates(c, d) /\ d.errors = c.errors
      BY <1>3 DEF Core, SameStates
<1>6. /\ d.deferred_events = c.deferred_events /\ d.event = c.event
      /\ d.handlers = c.handlers /\ d.current = c.current
      /\ d.events_enabled = c.events_enabled
      BY <1>3 DEF Core
<1> QED
      BY <1>2, <1>4, <1>5, <1>6 DEF PutsHandler

LEMMA HandlerTypes ==
  ASSUME NEW c \in Core, NEW h \in Handlers
  PROVE  /\ c.handler[h] \in HandlerRecord
         /\ c.handler[h].concurrent \in BOOLEAN /\ c.handler[h].active \in BOOLEAN
         /\ c.handler[h].removed \in BOOLEAN /\ c.handler[h].queue \in Seq(EventIds)
<1>1. c.handler[h] \in HandlerRecord
      BY CoreTypes
<1> QED
      BY <1>1 DEF HandlerRecord

LEMMA AscendsTail ==
  ASSUME NEW s \in Seq(EventIds), s # <<>>, Ascends(s)
  PROVE  /\ Head(s) \in EventIds /\ Tail(s) \in Seq(EventIds) /\ Ascends(Tail(s))
         /\ \A i \in DOMAIN Tail(s) : Head(s) < Tail(s)[i]
                                      /\ \E j \in DOMAIN s : s[j] = Tail(s)[i]
         /\ \E j \in DOMAIN s : s[j] = Head(s)
<1>1. /\ DOMAIN Tail(s) = 1 .. Len(s) - 1 /\ Head(s) = s[1] /\ 1 \in DOMAIN s
      /\ \A i \in 1 .. Len(s) - 1 : Tail(s)[i] = s[i + 1] /\ i + 1 \in DOMAIN s
      /\ Head(s) \in EventIds /\ Tail(s) \in Seq(EventIds)
      OBVIOUS
<1> DEFINE r == Tail(s)
<1> HIDE DEF r
<1>2. ASSUME NEW i \in DOMAIN r, NEW j \in DOMAIN r, i < j
      PROVE  r[i] < r[j]
  <2>1. i \in Nat /\ j \in Nat /\ i + 1 < j + 1
        BY <1>1, <1>2 DEF r
  <2> QED
        BY <2>1, <1>1, <1>2 DEF r, Ascends
<1>3. \A i \in DOMAIN r : Head(s) < r[i] /\ \E j \in DOMAIN s : s[j] = r[i]
      BY <1>1 DEF Ascends, r
<1> QED
      BY <1>1, <1>2, <1>3 DEF r, Ascends

LEMMA AscendsAppend ==
  ASSUME NEW s \in Seq(EventIds), Ascends(s), NEW x \in EventIds,
         \A i \in DOMAIN s : s[i] < x
  PROVE  /\ Append(s, x) \in Seq(EventIds) /\ Append(s, x) # <<>> /\ Ascends(Append(s, x))
         /\ \A i \in DOMAIN Append(s, x) :
              Append(s, x)[i] = x \/ \E j \in DOMAIN s : s[j] = Append(s, x)[i]
<1> DEFINE r == Append(s, x)
<1>1. /\ DOMAIN s = 1 .. Len(s) /\ DOMAIN r = 1 .. Len(s) + 1 /\ r[Len(s) + 1] = x
      /\ \A i \in 1 .. Len(s) : r[i] = s[i] /\ Len(s) \in Nat
      /\ r \in Seq(EventIds) /\ r # <<>>
      OBVIOUS
<1> HIDE DEF r
<1>2. \A i \in DOMAIN r : (i \in DOMAIN s /\ r[i] = s[i]) \/ (i = Len(s) + 1 /\ r[i] = x)
      BY <1>1
<1>3. \A i \in DOMAIN s, j \in DOMAIN r : j < i => j \in DOMAIN s
      BY <1>1
<1>4. Ascends(r)
      BY <1>1, <1>2, <1>3 DEF Ascends
<1> QED
      BY <1>1, <1>2, <1>4 DEF r

\* Queues shrink, and a handler stops work when its tasks are over.
LEMMA ShrinkSerial ==
  ASSUME NEW c \in Core, NEW d \in Core, Serial(c), d.st = c.st,
         d.deferred_events = c.deferred_events, d.event = c.event,
         d.handlers = c.handlers, d.current \in {0, c.current},
         \A k \in Handlers :
           /\ d.handler[k].concurrent = c.handler[k].concurrent
           /\ \A y : inQueue(d, k, y) => inQueue(c, k, y)
           /\ Ascends(d.handler[k].queue)
           /\ d.handler[k].queue # <<>> => d.handler[k].active
           /\ d.handler[k].active => c.handler[k].active
           /\ c.handler[k].active /\ ~d.handler[k].active
                => \A y \in EventIds : eventOf(c, k, y) => isTerminalState(c, y)
  PROVE  Serial(d)
<1>1. Arrivals(c) /\ Queues(c) /\ OneAtATime(c)
      BY DEF Serial
<1>2. \A y : isBound(d, y) => isBound(c, y)
      BY DEF isBound
<1>3. /\ \A k, y : eventOf(d, k, y) = eventOf(c, k, y)
      /\ \A y : isTerminalState(d, y) = isTerminalState(c, y)
      BY DEF eventOf, isTerminalState
<1>4. Arrivals(d)
  <2>1. d.current <= d.handlers
        BY <1>1, CoreTypes DEF Arrivals
  <2> QED
        BY <2>1, <1>1, <1>2 DEF Arrivals
<1>5. Queues(d)
  <2>1. ASSUME NEW h \in Handlers
        PROVE  /\ Ascends(d.handler[h].queue)
               /\ \A x \in EventIds : inQueue(d, h, x) =>
                    /\ d.st[x].kind = "none"
                    /\ \A k \in Handlers \ {h} : ~inQueue(d, k, x)
                    /\ \A y \in EventIds : eventOf(d, h, y) => y < x
               /\ d.handler[h].queue # <<>> => d.handler[h].active
               /\ d.handler[h].active => ~d.handler[h].concurrent
               /\ h > d.handlers => ~d.handler[h].active
    <3>1. \A x \in EventIds : inQueue(d, h, x) =>
            /\ d.st[x].kind = "none"
            /\ \A k \in Handlers \ {h} : ~inQueue(d, k, x)
            /\ \A y \in EventIds : eventOf(d, h, y) => y < x
          BY <1>1, <1>3 DEF Queues
    <3> QED
          BY <3>1, <1>1 DEF Queues
  <2> QED
        BY <2>1 DEF Queues
<1>6. OneAtATime(d)
  <2>1. ASSUME NEW h \in Handlers, ~d.handler[h].concurrent, NEW x \in EventIds,
               eventOf(d, h, x)
        PROVE  /\ ~isTerminalState(d, x) => d.handler[h].active
               /\ \A y \in EventIds : x < y /\ eventOf(d, h, y) => isTerminalState(d, x)
        BY <2>1, <1>1, <1>3 DEF OneAtATime
  <2> QED
        BY <2>1 DEF OneAtATime
<1> QED
      BY <1>4, <1>5, <1>6 DEF Serial

\* The next update of a serial handler whose tasks are over.
LEMMA NextSerial ==
  ASSUME NEW c \in Core, NEW d \in Core, Serial(c), NEW h \in Handlers,
         ~c.handler[h].concurrent, c.handler[h].queue # <<>>,
         \A y \in EventIds : eventOf(c, h, y) => isTerminalState(c, y),
         Starts(c, d, Head(c.handler[h].queue), h),
         d.deferred_events = c.deferred_events, d.event = c.event,
         d.handlers = c.handlers, d.current = c.current,
         d.handler[h].queue = Tail(c.handler[h].queue),
         d.handler[h].active = c.handler[h].active,
         d.handler[h].concurrent = c.handler[h].concurrent,
         \A k \in Handlers \ {h} : d.handler[k] = c.handler[k]
  PROVE  Serial(d)
<1> DEFINE q == Head(c.handler[h].queue)
<1>1. Arrivals(c) /\ Queues(c) /\ OneAtATime(c)
      BY DEF Serial
<1>2. c.handler[h].queue \in Seq(EventIds) /\ Ascends(c.handler[h].queue)
      BY <1>1, HandlerTypes DEF Queues
<1>3. /\ q \in EventIds /\ Ascends(Tail(c.handler[h].queue)) /\ inQueue(c, h, q)
      /\ \A y : inQueue(d, h, y) => inQueue(c, h, y) /\ q < y
      BY <1>2, AscendsTail DEF inQueue
<1>4. q \in States /\ EventIds \subseteq States /\ q \in Int
      BY <1>3, StateKinds DEF EventIds
<1> HIDE DEF q
<1>5. /\ d.st[q].kind = "EventTask" /\ d.st[q].handler = h
      /\ \A y \in States : y # q => d.st[y] = c.st[y]
      BY DEF Starts, q
<1>6. \A k \in Handlers : \A y : inQueue(d, k, y) => inQueue(c, k, y)
  <2>1. \A k \in Handlers \ {h} : \A y : inQueue(d, k, y) => inQueue(c, k, y)
        BY DEF inQueue
  <2> QED
        BY <2>1, <1>3
<1>7. c.st[q].kind = "none" /\ \A k \in Handlers \ {h} : ~inQueue(c, k, q)
      BY <1>1, <1>3 DEF Queues
<1>8. /\ eventOf(d, h, q)
      /\ \A k \in Handlers, y \in States : eventOf(d, k, y)
           => eventOf(c, k, y) \/ (k = h /\ y = q)
      /\ \A y \in States : y # q => isTerminalState(d, y) = isTerminalState(c, y)
      BY <1>5 DEF eventOf, isTerminalState
<1>9. \A y \in EventIds : isBound(d, y) => isBound(c, y)
      BY <1>3, <1>4, <1>5, <1>6 DEF isBound
<1>10. c.handler[h].active /\ h \in 1 .. c.handlers
      BY <1>1, CoreTypes DEF Queues, Handlers
<1>11. Arrivals(d)
  <2>1. \A x \in States : d.st[x].kind = "EventTask" =>
         x \in EventIds /\ d.st[x].handler \in 1 .. d.handlers
        BY <1>1, <1>3, <1>5, <1>10 DEF Arrivals
  <2>2. \A x \in EventIds : d.st[x].kind \in {"none", "EventTask"}
        BY <1>1, <1>4, <1>5 DEF Arrivals
  <2> QED
        BY <2>1, <2>2, <1>1, <1>9 DEF Arrivals
<1>12. Queues(d)
  <2>1. ASSUME NEW k \in Handlers
        PROVE  /\ Ascends(d.handler[k].queue)
               /\ d.handler[k].queue # <<>> => d.handler[k].active
               /\ d.handler[k].active => ~d.handler[k].concurrent
               /\ k > d.handlers => ~d.handler[k].active
        BY <1>1, <1>3, <1>10 DEF Queues
  <2>2. ASSUME NEW k \in Handlers, NEW x \in EventIds, inQueue(d, k, x)
        PROVE  /\ d.st[x].kind = "none"
               /\ \A j \in Handlers \ {k} : ~inQueue(d, j, x)
               /\ \A y \in EventIds : eventOf(d, k, y) => y < x
    <3>1. inQueue(c, k, x)
          BY <2>2, <1>6
    <3>2. x # q /\ (k = h => q < x)
      <4>1. CASE k = h
            BY <4>1, <2>2, <1>3, <1>4 DEF EventIds
      <4>2. CASE k # h
            BY <4>2, <3>1, <1>7
      <4> QED
            BY <4>1, <4>2
    <3>3. /\ c.st[x].kind = "none"
          /\ \A j \in Handlers \ {k} : ~inQueue(c, j, x)
          /\ \A y \in EventIds : eventOf(c, k, y) => y < x
          BY <3>1, <1>1 DEF Queues
    <3> QED
          BY <3>2, <3>3, <1>4, <1>5, <1>6, <1>8
  <2> QED
        BY <2>1, <2>2 DEF Queues
<1>13. OneAtATime(d)
  <2>1. ASSUME NEW k \in Handlers, ~d.handler[k].concurrent, NEW x \in EventIds,
               eventOf(d, k, x)
        PROVE  /\ ~isTerminalState(d, x) => d.handler[k].active
               /\ \A y \in EventIds : x < y /\ eventOf(d, k, y) => isTerminalState(d, x)
    <3>1. CASE k = h /\ x = q
      <4>1. ASSUME NEW y \in EventIds, q < y, eventOf(d, h, y)
            PROVE  FALSE
        <5>1. y # q
              BY <4>1, <1>4
        <5>2. eventOf(c, h, y)
              BY <4>1, <5>1, <1>4, <1>8
        <5>3. y < q
              BY <5>2, <4>1, <1>1, <1>3 DEF Queues
        <5> QED
              BY <5>3, <4>1, <1>3 DEF EventIds
      <4> QED
            BY <4>1, <3>1, <1>10
    <3>2. CASE k = h /\ x # q
          BY <3>2, <2>1, <1>4, <1>8
    <3>3. CASE k # h
      <4>1. eventOf(c, k, x) /\ ~c.handler[k].concurrent
            BY <3>3, <2>1, <1>4, <1>8
      <4>2. x # q
            BY <4>1, <1>7 DEF eventOf
      <4>3. \A y \in EventIds : eventOf(d, k, y) => eventOf(c, k, y)
            BY <3>3, <1>4, <1>8
      <4> QED
            BY <4>1, <4>2, <4>3, <3>3, <1>1, <1>4, <1>8 DEF OneAtATime
    <3> QED
          BY <3>1, <3>2, <3>3
  <2> QED
        BY <2>1 DEF OneAtATime
<1> QED
      BY <1>11, <1>12, <1>13 DEF Serial
LEMMA FinishEventsSound ==
  ASSUME NEW c, NEW s, NEW l, NEW g, NEW E, NEW F, Sound(c, s, l, g, E, F),
         NEW x \in States, isTerminalState(c, x),
         c.st[x].kind = "EventTask" /\ ~c.handler[c.st[x].handler].concurrent =>
           \A y \in EventIds : eventOf(c, c.st[x].handler, y) => isTerminalState(c, y)
  PROVE  /\ Sound(finishSerializedEvent(c, x), s, l, g, E, F)
         /\ isTerminalState(finishSerializedEvent(c, x), x)
<1> DEFINE d == finishSerializedEvent(c, x)
           h == c.st[x].handler
           r == c.handler[h]
<1>1. /\ c \in Core /\ CoreInv(c) /\ Serial(c) /\ Requested(c)
      BY SoundShape DEF CoreInv
<1>2. CASE c.st[x].kind # "EventTask" \/ r.concurrent
  <2>1. d = c
        BY <1>2 DEF finishSerializedEvent
  <2> QED
        BY <2>1
<1>3. CASE c.st[x].kind = "EventTask" /\ ~r.concurrent
  <2>1. h \in Handlers /\ h \in 1 .. c.handlers
    <3>1. h \in 1 .. c.handlers /\ c.handlers \in 0 .. MaxHandlers
          BY <1>1, <1>3, CoreTypes DEF Serial, Arrivals
    <3> HIDE DEF h
    <3> QED
          BY <3>1, BoundsAssumption DEF Handlers
  <2>2. /\ r \in HandlerRecord /\ r.queue \in Seq(EventIds)
        BY <1>1, <2>1, HandlerTypes
  <2>3. \A y \in EventIds : eventOf(c, h, y) => isTerminalState(c, y)
        BY <1>3
  <2> HIDE DEF h
  <2>4. CASE r.removed \/ ~c.events_enabled
    <3> DEFINE r2 == [r EXCEPT !.active = FALSE, !.queue = <<>>]
    <3>1. d = putHandler(c, h, r2)
          BY <1>3, <2>4 DEF finishSerializedEvent, putHandler, h
    <3>2. /\ r2 \in HandlerRecord /\ r2.concurrent = r.concurrent /\ ~r2.active
          /\ r2.queue = <<>>
      <4>1. <<>> \in Seq(EventIds)
            OBVIOUS
      <4> QED
            BY <4>1, <2>2 DEF HandlerRecord
    <3> HIDE DEF r2, d
    <3>3. /\ d \in Core /\ SameStates(c, d) /\ d.errors = c.errors
          /\ d.handler[h] = r2 /\ \A k \in Handlers \ {h} : d.handler[k] = c.handler[k]
          /\ d.deferred_events = c.deferred_events /\ d.event = c.event
          /\ d.handlers = c.handlers /\ d.current = c.current
          BY <1>1, <2>1, <3>1, <3>2, PutHandlerFields DEF PutsHandler
    <3>4. Serial(d)
      <4>1. ASSUME NEW k \in Handlers, k # h
            PROVE  /\ d.handler[k].concurrent = c.handler[k].concurrent
                   /\ \A y : inQueue(d, k, y) => inQueue(c, k, y)
                   /\ Ascends(d.handler[k].queue)
                   /\ d.handler[k].queue # <<>> => d.handler[k].active
                   /\ d.handler[k].active => c.handler[k].active
                   /\ c.handler[k].active => d.handler[k].active
            BY <4>1, <3>3, <1>1 DEF inQueue, Serial, Queues
      <4>2. /\ d.handler[h].concurrent = c.handler[h].concurrent
            /\ \A y : inQueue(d, h, y) => inQueue(c, h, y)
            /\ Ascends(d.handler[h].queue)
            /\ d.handler[h].queue # <<>> => d.handler[h].active
            /\ ~d.handler[h].active
            BY <3>2, <3>3 DEF inQueue, Ascends
      <4>3. d.st = c.st
            BY <3>3 DEF SameStates
      <4> QED
            BY <4>1, <4>2, <4>3, <2>3, <3>3, <1>1, ShrinkSerial
    <3>5. Sound(d, s, l, g, E, F)
      <4>1. d.errors <= c.errors
            BY <3>3, <1>1, CoreTypes
      <4> QED
            BY <4>1, <3>3, <3>4, QuietSound
    <3>6. isTerminalState(d, x)
          BY <3>3 DEF SameStates, isTerminalState
    <3> QED
          BY <3>5, <3>6 DEF d
  <2>5. CASE ~(r.removed \/ ~c.events_enabled) /\ r.queue = <<>>
    <3> DEFINE r2 == [r EXCEPT !.active = FALSE]
    <3>1. d = putHandler(c, h, r2)
          BY <1>3, <2>5 DEF finishSerializedEvent, putHandler, h
    <3>2. /\ r2 \in HandlerRecord /\ r2.concurrent = r.concurrent /\ ~r2.active
          /\ r2.queue = <<>>
          BY <2>2, <2>5 DEF HandlerRecord
    <3> HIDE DEF r2, d
    <3>3. /\ d \in Core /\ SameStates(c, d) /\ d.errors = c.errors
          /\ d.handler[h] = r2 /\ \A k \in Handlers \ {h} : d.handler[k] = c.handler[k]
          /\ d.deferred_events = c.deferred_events /\ d.event = c.event
          /\ d.handlers = c.handlers /\ d.current = c.current
          BY <1>1, <2>1, <3>1, <3>2, PutHandlerFields DEF PutsHandler
    <3>4. Serial(d)
      <4>1. ASSUME NEW k \in Handlers, k # h
            PROVE  /\ d.handler[k].concurrent = c.handler[k].concurrent
                   /\ \A y : inQueue(d, k, y) => inQueue(c, k, y)
                   /\ Ascends(d.handler[k].queue)
                   /\ d.handler[k].queue # <<>> => d.handler[k].active
                   /\ d.handler[k].active => c.handler[k].active
                   /\ c.handler[k].active => d.handler[k].active
            BY <4>1, <3>3, <1>1 DEF inQueue, Serial, Queues
      <4>2. /\ d.handler[h].concurrent = c.handler[h].concurrent
            /\ \A y : inQueue(d, h, y) => inQueue(c, h, y)
            /\ Ascends(d.handler[h].queue)
            /\ d.handler[h].queue # <<>> => d.handler[h].active
            /\ ~d.handler[h].active
            BY <3>2, <3>3 DEF inQueue, Ascends
      <4>3. d.st = c.st
            BY <3>3 DEF SameStates
      <4> QED
            BY <4>1, <4>2, <4>3, <2>3, <3>3, <1>1, ShrinkSerial
    <3>5. Sound(d, s, l, g, E, F)
      <4>1. d.errors <= c.errors
            BY <3>3, <1>1, CoreTypes
      <4> QED
            BY <4>1, <3>3, <3>4, QuietSound
    <3>6. isTerminalState(d, x)
          BY <3>3 DEF SameStates, isTerminalState
    <3> QED
          BY <3>5, <3>6 DEF d
  <2>6. CASE ~(r.removed \/ ~c.events_enabled) /\ r.queue # <<>>
    <3> DEFINE r2 == [r EXCEPT !.queue = Tail(r.queue)]
               b == putHandler(c, h, r2)
               q == Head(r.queue)
    <3>1. d = startEventTask(b, q, h)
          BY <1>3, <2>6 DEF finishSerializedEvent, putHandler, h
    <3>2. Ascends(r.queue)
          BY <1>1, <2>1 DEF Serial, Queues
    <3>3. q \in EventIds /\ Tail(r.queue) \in Seq(EventIds) /\ inQueue(c, h, q)
          BY <2>2, <2>6, <3>2, AscendsTail DEF inQueue
    <3>4. /\ r2 \in HandlerRecord /\ r2.concurrent = r.concurrent /\ r2.active = r.active
          /\ r2.queue = Tail(r.queue)
          BY <2>2, <3>3 DEF HandlerRecord
    <3> HIDE DEF r2, q
    <3>5. /\ b \in Core /\ SameStates(c, b) /\ b.errors = c.errors
          /\ b.handler[h] = r2 /\ \A k \in Handlers \ {h} : b.handler[k] = c.handler[k]
          /\ b.deferred_events = c.deferred_events /\ b.event = c.event
          /\ b.handlers = c.handlers /\ b.current = c.current
          BY <1>1, <2>1, <3>4, PutHandlerFields DEF PutsHandler
    <3> HIDE DEF b, d
    <3>6. q \in States /\ c.st[q].kind = "none" /\ h \in 0 .. MaxHandlers
          BY <3>3, <1>1, <2>1, StateKinds DEF Serial, Queues, Handlers
    <3>7. d \in Core /\ Starts(b, d, q, h) /\ SameEvents(b, d)
          BY <3>1, <3>5, <3>6, StartFields
    <3>8. Starts(c, d, q, h)
          BY <3>5, <3>7 DEF Starts, SameStates
    <3>9. Serial(d)
          BY <1>1, <1>3, <2>1, <2>3, <2>6, <3>4, <3>5, <3>7, <3>8, NextSerial
          DEF SameEvents, q, h
    <3>10. Sound(d, s, l, g, E, F)
          BY <3>3, <3>6, <3>7, <3>8, <3>9, StartSound
    <3>11. x # q
          BY <1>3, <3>6
    <3>12. isTerminalState(d, x)
          BY <3>8, <3>11 DEF Starts, isTerminalState
    <3> QED
          BY <3>10, <3>12 DEF d
  <2> QED
        BY <2>4, <2>5, <2>6
<1> QED
      BY <1>2, <1>3

-----------------------------------------------------------------------------
(***************************************************************************)
(* Handlers come and go; updates arrive and are bound to them.             *)
(***************************************************************************)

LEMMA RemoveRegistrationSound ==
  ASSUME NEW c, NEW s, NEW l, NEW g, NEW E, NEW F, Sound(c, s, l, g, E, F)
  PROVE  LET d == removeEventRegistration(c) IN
         /\ Sound(d, s, l, g, E, F) /\ SameStates(c, d) /\ d.current = 0
         /\ d.handlers = c.handlers /\ d.deferred_events = c.deferred_events
         /\ d.event = c.event /\ d.errors = c.errors
<1> DEFINE d == removeEventRegistration(c)
           h == c.current
<1>1. c \in Core /\ Serial(c)
      BY SoundShape DEF CoreInv
<1>2. CASE h = 0
  <2>1. d = c
        BY <1>2 DEF removeEventRegistration
  <2> QED
        BY <2>1, <1>2 DEF SameStates
<1>3. CASE h # 0
  <2> DEFINE r == [c.handler[h] EXCEPT !.removed = TRUE, !.queue = <<>>]
             b == putHandler(c, h, r)
  <2>1. h \in Handlers
        BY <1>1, <1>3, CoreTypes, BoundsAssumption DEF Handlers
  <2> HIDE DEF h
  <2>2. c.handler[h] \in HandlerRecord
        BY <1>1, <2>1, HandlerTypes
  <2>3. /\ r \in HandlerRecord /\ r.concurrent = c.handler[h].concurrent
        /\ r.active = c.handler[h].active /\ r.queue = <<>>
    <3>1. <<>> \in Seq(EventIds)
          OBVIOUS
    <3> QED
          BY <3>1, <2>2 DEF HandlerRecord
  <2>4. d = [b EXCEPT !.current = 0]
        BY <1>3 DEF removeEventRegistration, putHandler, h
  <2> HIDE DEF r
  <2>5. b \in Core /\ PutsHandler(c, b, h, r)
        BY <1>1, <2>1, <2>3, PutHandlerFields
  <2> HIDE DEF b, d
  <2>6. d \in Core /\ d.current = 0
    <3>1. 0 \in 0 .. MaxHandlers
          BY BoundsAssumption
    <3> QED
          BY <3>1, <2>4, <2>5 DEF Core
  <2>7. SameStates(b, d) /\ d.handler = b.handler /\ d.handlers = b.handlers
        /\ d.deferred_events = b.deferred_events /\ d.event = b.event
        /\ d.errors = b.errors
        BY <2>4, <2>5 DEF Core, SameStates
  <2>8. /\ SameStates(c, d) /\ d.handlers = c.handlers
        /\ d.deferred_events = c.deferred_events /\ d.event = c.event
        /\ d.errors = c.errors
        /\ d.handler[h] = r /\ \A k \in Handlers \ {h} : d.handler[k] = c.handler[k]
        BY <2>5, <2>7 DEF PutsHandler, SameStates
  <2>9. Serial(d)
    <3>1. ASSUME NEW k \in Handlers, k # h
          PROVE  /\ d.handler[k].concurrent = c.handler[k].concurrent
                 /\ \A y : inQueue(d, k, y) => inQueue(c, k, y)
                 /\ Ascends(d.handler[k].queue)
                 /\ d.handler[k].queue # <<>> => d.handler[k].active
                 /\ d.handler[k].active = c.handler[k].active
          BY <3>1, <2>8, <1>1 DEF inQueue, Serial, Queues
    <3>2. /\ d.handler[h].concurrent = c.handler[h].concurrent
          /\ \A y : inQueue(d, h, y) => inQueue(c, h, y)
          /\ Ascends(d.handler[h].queue)
          /\ d.handler[h].queue # <<>> => d.handler[h].active
          /\ d.handler[h].active = c.handler[h].active
          BY <2>3, <2>8 DEF inQueue, Ascends
    <3>3. d.st = c.st
          BY <2>8 DEF SameStates
    <3> QED
          BY <3>1, <3>2, <3>3, <2>6, <2>8, <1>1, ShrinkSerial
  <2>10. Sound(d, s, l, g, E, F)
    <3>1. d.errors <= c.errors
          BY <2>8, <1>1, CoreTypes
    <3> QED
          BY <3>1, <2>6, <2>8, <2>9, QuietSound
  <2> QED
        BY <2>6, <2>8, <2>10 DEF d
<1> QED
      BY <1>2, <1>3

\* onEvent() registers a handler that nothing was bound to.
LEMMA RegisterHandlerSound ==
  ASSUME NEW c, NEW s, NEW l, NEW g, NEW E, NEW F, Sound(c, s, l, g, E, F),
         c.handlers < MaxHandlers, NEW concurrent \in BOOLEAN
  PROVE  Sound([c EXCEPT !.handlers = c.handlers + 1, !.current = c.handlers + 1,
                         !.handler[c.handlers + 1].concurrent = concurrent],
               s, l, g, E, F)
<1> DEFINE h == c.handlers + 1
           d == [c EXCEPT !.handlers = h, !.current = h, !.handler[h].concurrent = concurrent]
           r == [c.handler[h] EXCEPT !.concurrent = concurrent]
           b == putHandler(c, h, r)
<1>1. c \in Core /\ Serial(c)
      BY SoundShape DEF CoreInv
<1>2. h \in Handlers /\ h \in 0 .. MaxHandlers /\ h > c.handlers /\ h # 0
      BY <1>1, CoreTypes, BoundsAssumption DEF Handlers
<1> HIDE DEF h
<1>3. c.handler[h] \in HandlerRecord
      BY <1>1, <1>2, HandlerTypes
<1>4. /\ r \in HandlerRecord /\ r.concurrent = concurrent
      /\ r.active = c.handler[h].active /\ r.queue = c.handler[h].queue
      BY <1>3 DEF HandlerRecord
<1>5. d = [b EXCEPT !.handlers = h, !.current = h]
      BY DEF putHandler
<1> HIDE DEF r
<1>6. b \in Core /\ PutsHandler(c, b, h, r)
      BY <1>1, <1>2, <1>4, PutHandlerFields
<1> HIDE DEF b, d
<1>7. d \in Core /\ d.current = h /\ d.handlers = h
      BY <1>2, <1>5, <1>6 DEF Core
<1>8. SameStates(b, d) /\ d.handler = b.handler
      /\ d.deferred_events = b.deferred_events /\ d.event = b.event
      /\ d.errors = b.errors
      BY <1>5, <1>6 DEF Core, SameStates
<1>9. /\ SameStates(c, d) /\ d.deferred_events = c.deferred_events /\ d.event = c.event
      /\ d.errors = c.errors
      /\ d.handler[h] = r /\ \A k \in Handlers \ {h} : d.handler[k] = c.handler[k]
      BY <1>6, <1>8 DEF PutsHandler, SameStates
<1>10. d.st = c.st
      BY <1>9 DEF SameStates
<1>11. Arrivals(c) /\ Queues(c) /\ OneAtATime(c)
      BY <1>1 DEF Serial
<1>12. ~c.handler[h].active /\ c.handler[h].queue = <<>>
      BY <1>2, <1>11 DEF Queues
<1>13. \A k, y : inQueue(d, k, y) /\ k \in Handlers <=> inQueue(c, k, y) /\ k \in Handlers
  <2>1. \A k \in Handlers : d.handler[k].queue = c.handler[k].queue
        BY <1>4, <1>9
  <2> QED
        BY <2>1 DEF inQueue
<1>14. \A k \in Handlers : d.handler[k].active = c.handler[k].active
                           /\ d.handler[k].queue = c.handler[k].queue
                           /\ (k # h => d.handler[k].concurrent = c.handler[k].concurrent)
      BY <1>4, <1>9
<1>15. /\ \A k, y : eventOf(d, k, y) = eventOf(c, k, y)
       /\ \A y : isTerminalState(d, y) = isTerminalState(c, y)
       /\ \A y : isBound(d, y) = isBound(c, y)
      BY <1>10, <1>13 DEF eventOf, isTerminalState, isBound
<1>16. \A y \in EventIds : ~eventOf(c, h, y)
  <2>1. \A y \in EventIds : c.st[y].kind = "EventTask" => c.st[y].handler \in 1 .. c.handlers
        BY <1>11, StateKinds DEF Arrivals
  <2> QED
        BY <2>1, <1>1, <1>2, CoreTypes DEF eventOf
<1>17. Arrivals(d)
  <2>1. \A x \in States : d.st[x].kind = "EventTask" =>
         x \in EventIds /\ d.st[x].handler \in 1 .. d.handlers
        BY <1>1, <1>2, <1>7, <1>10, <1>11, CoreTypes DEF Arrivals, h
  <2>2. d.current <= d.handlers
        BY <1>2, <1>7
  <2> QED
        BY <2>1, <2>2, <1>9, <1>10, <1>11, <1>15 DEF Arrivals
<1>18. Queues(d)
  <2>1. ASSUME NEW k \in Handlers
        PROVE  /\ Ascends(d.handler[k].queue)
               /\ d.handler[k].queue # <<>> => d.handler[k].active
               /\ d.handler[k].active => ~d.handler[k].concurrent
               /\ k > d.handlers => ~d.handler[k].active
    <3>1. k > d.handlers => k > c.handlers
          BY <1>1, <1>2, <1>7, CoreTypes DEF Handlers
    <3> QED
          BY <3>1, <1>11, <1>12, <1>14 DEF Queues
  <2>2. ASSUME NEW k \in Handlers, NEW x \in EventIds, inQueue(d, k, x)
        PROVE  /\ d.st[x].kind = "none"
               /\ \A j \in Handlers \ {k} : ~inQueue(d, j, x)
               /\ \A y \in EventIds : eventOf(d, k, y) => y < x
    <3>1. inQueue(c, k, x)
          BY <2>2, <1>13
    <3> QED
          BY <3>1, <1>10, <1>11, <1>13, <1>15 DEF Queues
  <2> QED
        BY <2>1, <2>2 DEF Queues
<1>19. OneAtATime(d)
  <2>1. ASSUME NEW k \in Handlers, ~d.handler[k].concurrent, NEW x \in EventIds,
               eventOf(d, k, x)
        PROVE  /\ ~isTerminalState(d, x) => d.handler[k].active
               /\ \A y \in EventIds : x < y /\ eventOf(d, k, y) => isTerminalState(d, x)
    <3>1. k # h /\ eventOf(c, k, x)
          BY <2>1, <1>15, <1>16
    <3> QED
          BY <3>1, <2>1, <1>11, <1>14, <1>15 DEF OneAtATime
  <2> QED
        BY <2>1 DEF OneAtATime
<1>20. Serial(d)
      BY <1>17, <1>18, <1>19 DEF Serial
<1>21. Sound(d, s, l, g, E, F)
  <2>1. d.errors <= c.errors
        BY <1>9, <1>1, CoreTypes
  <2> QED
        BY <2>1, <1>7, <1>9, <1>20, QuietSound
<1> QED
      BY <1>21 DEF d, h

\* An update arrives while a handler is registered.
LEMMA UpdateSound ==
  ASSUME NEW c, NEW s, NEW l, NEW g, NEW E, NEW F, Sound(c, s, l, g, E, F),
         c.event \in EventIds
  PROVE  /\ Sound([c EXCEPT !.event = c.event + 1], s, l, g, E, F)
         /\ Sound([c EXCEPT !.event = c.event + 1,
                            !.deferred_events = Append(c.deferred_events, c.event)],
                  s, l, g, E, F)
<1> DEFINE d == [c EXCEPT !.event = c.event + 1]
           b == [c EXCEPT !.event = c.event + 1,
                          !.deferred_events = Append(c.deferred_events, c.event)]
           q == Append(c.deferred_events, c.event)
<1>1. c \in Core /\ Arrivals(c) /\ Queues(c) /\ OneAtATime(c)
      BY SoundShape DEF CoreInv, Serial
<1>2. c.event \in Nat /\ c.event + 1 \in Nat /\ c.deferred_events \in Seq(EventIds)
      BY <1>1, CoreTypes
<1>3. EventIds \subseteq Int
      BY DEF EventIds
<1>4. /\ q \in Seq(EventIds) /\ Ascends(q)
      /\ \A i \in DOMAIN q :
           q[i] = c.event \/ \E j \in DOMAIN c.deferred_events : c.deferred_events[j] = q[i]
      BY <1>1, <1>2, AscendsAppend DEF Arrivals
<1>5. d \in Core /\ b \in Core
      BY <1>1, <1>2, <1>4 DEF Core
<1>6. SameStates(c, d) /\ SameStates(c, b) /\ d.errors = c.errors /\ b.errors = c.errors
      BY <1>1 DEF Core, SameStates
<1>7. /\ d.event = c.event + 1 /\ b.event = c.event + 1
      /\ d.deferred_events = c.deferred_events /\ b.deferred_events = q
      /\ d.handler = c.handler /\ b.handler = c.handler
      /\ d.handlers = c.handlers /\ b.handlers = c.handlers
      /\ d.current = c.current /\ b.current = c.current
      BY <1>1, <1>2 DEF Core
<1>8. d.st = c.st /\ b.st = c.st
      BY <1>6 DEF SameStates
<1> HIDE DEF q
<1> SUFFICES ASSUME NEW e \in {d, b}
             PROVE  Sound(e, s, l, g, E, F)
      OBVIOUS
<1> HIDE DEF d, b
<1>9. /\ e \in Core /\ e.st = c.st /\ e.handler = c.handler /\ e.handlers = c.handlers
      /\ e.current = c.current /\ e.event = c.event + 1
      /\ e.deferred_events = c.deferred_events \/ e.deferred_events = q
      /\ SameStates(c, e) /\ e.errors = c.errors
      BY <1>5, <1>6, <1>7, <1>8
<1>10. /\ \A k, y : inQueue(e, k, y) = inQueue(c, k, y)
       /\ \A k, y : eventOf(e, k, y) = eventOf(c, k, y)
       /\ \A y : isTerminalState(e, y) = isTerminalState(c, y)
       /\ \A y : isBound(e, y) = isBound(c, y)
      BY <1>9 DEF inQueue, eventOf, isTerminalState, isBound
<1>11. Arrivals(e)
  <2>1. Ascends(e.deferred_events)
        BY <1>1, <1>4, <1>9 DEF Arrivals
  <2>2. ASSUME NEW i \in DOMAIN e.deferred_events
        PROVE  /\ e.deferred_events[i] < e.event
               /\ \A x \in EventIds : isBound(e, x) => x < e.deferred_events[i]
    <3>1. CASE e.deferred_events = c.deferred_events
      <4>2. i \in DOMAIN c.deferred_events
            BY <3>1, <2>2
      <4>3. c.deferred_events[i] \in EventIds /\ c.deferred_events[i] < c.event
            BY <4>2, <1>1, <1>2 DEF Arrivals
      <4>1. e.deferred_events[i] < c.event /\ e.deferred_events[i] \in Int
            BY <4>3, <3>1, <1>3
      <4> QED
            BY <4>1, <3>1, <2>2, <1>1, <1>2, <1>9, <1>10 DEF Arrivals
    <3>2. CASE e.deferred_events = q
      <4>1. CASE q[i] = c.event
            BY <4>1, <3>2, <1>1, <1>2, <1>9, <1>10 DEF Arrivals
      <4>2. CASE \E j \in DOMAIN c.deferred_events : c.deferred_events[j] = q[i]
        <5>1. q[i] < c.event /\ q[i] \in Int
              BY <4>2, <1>1, <1>2, <1>3 DEF Arrivals
        <5>2. \A x \in EventIds : isBound(c, x) => x < q[i]
              BY <4>2, <1>1 DEF Arrivals
        <5> QED
              BY <5>1, <5>2, <3>2, <1>2, <1>9, <1>10
      <4> QED
            BY <4>1, <4>2, <3>2, <2>2, <1>4
    <3> QED
          BY <3>1, <3>2, <1>9
  <2>3. \A x \in EventIds : isBound(e, x) => x < e.event
        BY <1>1, <1>2, <1>3, <1>9, <1>10 DEF Arrivals
  <2> QED
        BY <2>1, <2>2, <2>3, <1>1, <1>9 DEF Arrivals
<1>12. Queues(e)
      BY <1>1, <1>9, <1>10 DEF Queues
<1>13. OneAtATime(e)
      BY <1>1, <1>9, <1>10 DEF OneAtATime
<1>14. e.errors <= c.errors
      BY <1>1, <1>9, CoreTypes
<1> QED
      BY <1>9, <1>11, <1>12, <1>13, <1>14, QuietSound DEF Serial

\* The oldest deferred update, which nobody has been given.
isNext(c, x) ==
  /\ x \in EventIds /\ x < c.event
  /\ \A y \in EventIds : isBound(c, y) => y < x
  /\ \A i \in DOMAIN c.deferred_events : x < c.deferred_events[i]

LEMMA TailDeferredSound ==
  ASSUME NEW c, NEW s, NEW l, NEW g, NEW E, NEW F, Sound(c, s, l, g, E, F),
         c.deferred_events # <<>>
  PROVE  LET d == [c EXCEPT !.deferred_events = Tail(@)] IN
         Sound(d, s, l, g, E, F) /\ isNext(d, Head(c.deferred_events))
<1> DEFINE d == [c EXCEPT !.deferred_events = Tail(@)]
           q == c.deferred_events
           x == Head(q)
<1>1. c \in Core /\ Arrivals(c) /\ Queues(c) /\ OneAtATime(c)
      BY SoundShape DEF CoreInv, Serial
<1>2. /\ x \in EventIds /\ Tail(q) \in Seq(EventIds) /\ Ascends(Tail(q))
      /\ \A i \in DOMAIN Tail(q) : x < Tail(q)[i] /\ \E j \in DOMAIN q : q[j] = Tail(q)[i]
      /\ \E j \in DOMAIN q : q[j] = x
      BY <1>1, CoreTypes, AscendsTail DEF Arrivals
<1> HIDE DEF x
<1>3. d \in Core
      BY <1>1, <1>2 DEF Core
<1>4. /\ d.event = c.event /\ d.deferred_events = Tail(q) /\ d.handler = c.handler
      /\ d.handlers = c.handlers /\ d.current = c.current /\ d.errors = c.errors
      BY <1>1 DEF Core
<1>5. SameStates(c, d)
      BY <1>1 DEF Core, SameStates
<1> HIDE DEF d, q
<1>6. d.st = c.st
      BY <1>5 DEF SameStates
<1>7. /\ \A k, y : inQueue(d, k, y) = inQueue(c, k, y)
      /\ \A k, y : eventOf(d, k, y) = eventOf(c, k, y)
      /\ \A y : isTerminalState(d, y) = isTerminalState(c, y)
      /\ \A y : isBound(d, y) = isBound(c, y)
      BY <1>4, <1>6 DEF inQueue, eventOf, isTerminalState, isBound
<1>8. Arrivals(d)
  <2>1. ASSUME NEW i \in DOMAIN d.deferred_events
        PROVE  /\ d.deferred_events[i] < d.event
               /\ \A y \in EventIds : isBound(d, y) => y < d.deferred_events[i]
        BY <2>1, <1>1, <1>2, <1>4, <1>7 DEF Arrivals, q
  <2> QED
        BY <2>1, <1>1, <1>2, <1>4, <1>6, <1>7 DEF Arrivals
<1>9. Queues(d) /\ OneAtATime(d)
      BY <1>1, <1>4, <1>6, <1>7 DEF Queues, OneAtATime
<1>10. d.errors <= c.errors
      BY <1>1, <1>4, CoreTypes
<1>11. Sound(d, s, l, g, E, F)
      BY <1>3, <1>5, <1>8, <1>9, <1>10, QuietSound DEF Serial
<1>12. isNext(d, x)
      BY <1>1, <1>2, <1>4, <1>7 DEF isNext, Arrivals, q
<1> QED
      BY <1>11, <1>12 DEF d, x, q

LEMMA BindSerial ==
  ASSUME NEW c \in Core, NEW d \in Core, Serial(c), NEW x, isNext(c, x),
         NEW h \in Handlers, h <= c.handlers, Starts(c, d, x, h),
         c.handler[h].concurrent \/ ~c.handler[h].active,
         d.deferred_events = c.deferred_events, d.event = c.event,
         d.handlers = c.handlers, d.current = c.current,
         d.handler[h].queue = c.handler[h].queue,
         d.handler[h].active = ~c.handler[h].concurrent,
         d.handler[h].concurrent = c.handler[h].concurrent,
         \A k \in Handlers \ {h} : d.handler[k] = c.handler[k]
  PROVE  Serial(d)
<1>1. Arrivals(c) /\ Queues(c) /\ OneAtATime(c)
      BY DEF Serial
<1>2. /\ x \in EventIds /\ x < c.event /\ ~isBound(c, x)
      /\ \A y \in EventIds : isBound(c, y) => y < x
      /\ \A i \in DOMAIN c.deferred_events : x < c.deferred_events[i]
  <2>1. \A y \in EventIds : y \in Int
        BY DEF EventIds
  <2> QED
        BY <2>1 DEF isNext
<1>3. x \in States /\ EventIds \subseteq States
      BY <1>2, StateKinds
<1>4. /\ d.st[x].kind = "EventTask" /\ d.st[x].handler = h
      /\ \A y \in States : y # x => d.st[y] = c.st[y]
      BY DEF Starts
<1>5. \A k \in Handlers : d.handler[k].queue = c.handler[k].queue
                          /\ d.handler[k].concurrent = c.handler[k].concurrent
      OBVIOUS
<1>6. \A k \in Handlers : \A y : inQueue(d, k, y) = inQueue(c, k, y)
      BY <1>5 DEF inQueue
<1>7. c.st[x].kind # "EventTask" /\ \A k \in Handlers : ~inQueue(c, k, x)
      BY <1>2 DEF isBound
<1>8. /\ \A y \in States : y # x => isTerminalState(d, y) = isTerminalState(c, y)
      /\ eventOf(d, h, x)
      /\ \A k \in Handlers, y \in States :
           eventOf(d, k, y) => eventOf(c, k, y) \/ (k = h /\ y = x)
      BY <1>4 DEF isTerminalState, eventOf
<1>9. \A y \in EventIds : isBound(d, y) => isBound(c, y) \/ y = x
      BY <1>3, <1>4, <1>6 DEF isBound
<1>10. \A k \in Handlers : \A y \in States : eventOf(c, k, y) => isBound(c, y)
      BY DEF eventOf, isBound
<1>11. c.handler[h].queue = <<>> /\ \A y : ~inQueue(d, h, y)
  <2>1. c.handler[h].queue = <<>>
        BY <1>1, HandlerTypes DEF Queues
  <2> QED
        BY <2>1, <1>5 DEF inQueue
<1>12. h \in 1 .. c.handlers
      BY CoreTypes DEF Handlers
<1>13. Arrivals(d)
  <2>1. \A y \in States : d.st[y].kind = "EventTask" =>
         y \in EventIds /\ d.st[y].handler \in 1 .. d.handlers
        BY <1>1, <1>2, <1>4, <1>12 DEF Arrivals
  <2>2. \A y \in EventIds : d.st[y].kind \in {"none", "EventTask"}
        BY <1>1, <1>3, <1>4 DEF Arrivals
  <2>3. ASSUME NEW i \in DOMAIN d.deferred_events
        PROVE  /\ d.deferred_events[i] < d.event
               /\ \A y \in EventIds : isBound(d, y) => y < d.deferred_events[i]
        BY <2>3, <1>1, <1>2, <1>9 DEF Arrivals
  <2>4. \A y \in EventIds : isBound(d, y) => y < d.event
        BY <1>1, <1>2, <1>9 DEF Arrivals
  <2> QED
        BY <2>1, <2>2, <2>3, <2>4, <1>1 DEF Arrivals
<1>14. Queues(d)
  <2>1. ASSUME NEW k \in Handlers
        PROVE  /\ Ascends(d.handler[k].queue)
               /\ d.handler[k].queue # <<>> => d.handler[k].active
               /\ d.handler[k].active => ~d.handler[k].concurrent
               /\ k > d.handlers => ~d.handler[k].active
    <3>1. CASE k = h
      <4>1. ~(h > d.handlers)
            BY CoreTypes DEF Handlers
      <4> QED
            BY <4>1, <3>1, <1>1, <1>5, <1>11 DEF Queues
    <3>2. CASE k # h
          BY <3>2, <1>1 DEF Queues
    <3> QED
          BY <3>1, <3>2
  <2>2. ASSUME NEW k \in Handlers, NEW y \in EventIds, inQueue(d, k, y)
        PROVE  /\ d.st[y].kind = "none"
               /\ \A j \in Handlers \ {k} : ~inQueue(d, j, y)
               /\ \A z \in EventIds : eventOf(d, k, z) => z < y
    <3>1. k # h /\ inQueue(c, k, y) /\ y # x
          BY <2>2, <1>6, <1>7, <1>11
    <3>2. /\ c.st[y].kind = "none"
          /\ \A j \in Handlers \ {k} : ~inQueue(c, j, y)
          /\ \A z \in EventIds : eventOf(c, k, z) => z < y
          BY <3>1, <1>1 DEF Queues
    <3> QED
          BY <3>1, <3>2, <1>3, <1>4, <1>6, <1>8
  <2> QED
        BY <2>1, <2>2 DEF Queues
<1>15. OneAtATime(d)
  <2>1. ASSUME NEW k \in Handlers, ~d.handler[k].concurrent, NEW y \in EventIds,
               eventOf(d, k, y)
        PROVE  /\ ~isTerminalState(d, y) => d.handler[k].active
               /\ \A z \in EventIds : y < z /\ eventOf(d, k, z) => isTerminalState(d, y)
    <3>1. CASE k = h
      <4>1. ~c.handler[h].concurrent /\ d.handler[h].active /\ ~c.handler[h].active
            BY <3>1, <2>1
      <4>2. CASE y = x
        <5>1. \A z \in EventIds : eventOf(d, h, z) => z = x \/ z < x
              BY <1>2, <1>3, <1>8, <1>10
        <5>2. \A z \in EventIds : ~(x < z /\ (z = x \/ z < x))
              BY <1>2 DEF EventIds
        <5> QED
              BY <4>1, <4>2, <5>1, <5>2, <3>1
      <4>3. CASE y # x
        <5>1. eventOf(c, h, y)
              BY <4>3, <3>1, <2>1, <1>3, <1>8
        <5>2. isTerminalState(c, y)
              BY <5>1, <4>1, <1>1 DEF OneAtATime
        <5> QED
              BY <5>2, <4>3, <1>3, <1>8
      <4> QED
            BY <4>2, <4>3
    <3>2. CASE k # h
      <4>1. eventOf(c, k, y) /\ ~c.handler[k].concurrent
            BY <3>2, <2>1, <1>3, <1>8
      <4>2. y # x
            BY <4>1, <1>7 DEF eventOf
      <4>3. \A z \in EventIds : eventOf(d, k, z) => eventOf(c, k, z)
            BY <3>2, <1>3, <1>8
      <4> QED
            BY <4>1, <4>2, <4>3, <3>2, <1>1, <1>3, <1>8 DEF OneAtATime
    <3> QED
          BY <3>1, <3>2
  <2> QED
        BY <2>1 DEF OneAtATime
<1> QED
      BY <1>13, <1>14, <1>15 DEF Serial

\* A serial handler that is at work keeps the update.
LEMMA EnqueueSerial ==
  ASSUME NEW c \in Core, NEW d \in Core, Serial(c), NEW x, isNext(c, x),
         NEW h \in Handlers, ~c.handler[h].concurrent, c.handler[h].active,
         d.st = c.st, d.deferred_events = c.deferred_events, d.event = c.event,
         d.handlers = c.handlers, d.current = c.current,
         d.handler[h].queue = Append(c.handler[h].queue, x),
         d.handler[h].active = c.handler[h].active,
         d.handler[h].concurrent = c.handler[h].concurrent,
         \A k \in Handlers \ {h} : d.handler[k] = c.handler[k]
  PROVE  Serial(d)
<1>1. Arrivals(c) /\ Queues(c) /\ OneAtATime(c)
      BY DEF Serial
<1>2. /\ x \in EventIds /\ x < c.event /\ ~isBound(c, x)
      /\ \A y \in EventIds : isBound(c, y) => y < x
      /\ \A i \in DOMAIN c.deferred_events : x < c.deferred_events[i]
  <2>1. \A y \in EventIds : y \in Int
        BY DEF EventIds
  <2> QED
        BY <2>1 DEF isNext
<1>3. x \in States /\ EventIds \subseteq States /\ c.handler[h].queue \in Seq(EventIds)
      BY <1>2, StateKinds, HandlerTypes
<1>4. \A i \in DOMAIN c.handler[h].queue : c.handler[h].queue[i] < x
  <2>1. ASSUME NEW i \in DOMAIN c.handler[h].queue
        PROVE  c.handler[h].queue[i] < x
    <3>1. c.handler[h].queue[i] \in EventIds
          BY <2>1, <1>3
    <3>2. inQueue(c, h, c.handler[h].queue[i])
          BY <2>1 DEF inQueue
    <3> QED
          BY <3>1, <3>2, <1>2 DEF isBound
  <2> QED
        BY <2>1
<1>5. /\ Ascends(c.handler[h].queue)
      /\ \A k \in Handlers : Ascends(c.handler[k].queue)
      BY <1>1 DEF Queues
<1>6. /\ Ascends(d.handler[h].queue) /\ d.handler[h].queue # <<>>
      /\ \A i \in DOMAIN d.handler[h].queue :
           d.handler[h].queue[i] = x
           \/ \E j \in DOMAIN c.handler[h].queue : c.handler[h].queue[j] = d.handler[h].queue[i]
      BY <1>2, <1>3, <1>4, <1>5, AscendsAppend
<1>7. \A y : inQueue(d, h, y) => y = x \/ inQueue(c, h, y)
      BY <1>6 DEF inQueue
<1>8. \A k \in Handlers \ {h} : \A y : inQueue(d, k, y) = inQueue(c, k, y)
      BY DEF inQueue
<1>9. /\ \A k, y : eventOf(d, k, y) = eventOf(c, k, y)
      /\ \A y : isTerminalState(d, y) = isTerminalState(c, y)
      BY DEF eventOf, isTerminalState
<1>10. \A y \in EventIds : isBound(d, y) => isBound(c, y) \/ y = x
       BY <1>7, <1>8 DEF isBound
<1>11. Arrivals(d)
  <2>1. ASSUME NEW i \in DOMAIN d.deferred_events
        PROVE  /\ d.deferred_events[i] < d.event
               /\ \A y \in EventIds : isBound(d, y) => y < d.deferred_events[i]
        BY <2>1, <1>1, <1>2, <1>10 DEF Arrivals
  <2>2. \A y \in EventIds : isBound(d, y) => y < d.event
        BY <1>1, <1>2, <1>10 DEF Arrivals
  <2>3. /\ \A y \in States : d.st[y].kind = "EventTask" =>
             y \in EventIds /\ d.st[y].handler \in 1 .. d.handlers
        /\ \A y \in EventIds : d.st[y].kind \in {"none", "EventTask"}
        /\ Ascends(d.deferred_events) /\ d.current <= d.handlers
        BY <1>1 DEF Arrivals
  <2> QED
        BY <2>1, <2>2, <2>3 DEF Arrivals
<1>12. Queues(d)
  <2>1. ASSUME NEW k \in Handlers
        PROVE  /\ Ascends(d.handler[k].queue)
               /\ d.handler[k].queue # <<>> => d.handler[k].active
               /\ d.handler[k].active => ~d.handler[k].concurrent
               /\ k > d.handlers => ~d.handler[k].active
    <3>1. CASE k = h
          BY <3>1, <1>1, <1>6 DEF Queues
    <3>2. CASE k # h
          BY <3>2, <1>1 DEF Queues
    <3> QED
          BY <3>1, <3>2
  <2>2. ASSUME NEW k \in Handlers, NEW y \in EventIds, inQueue(d, k, y)
        PROVE  /\ d.st[y].kind = "none"
               /\ \A j \in Handlers \ {k} : ~inQueue(d, j, y)
               /\ \A z \in EventIds : eventOf(d, k, z) => z < y
    <3>1. CASE y = x /\ k = h
      <4>1. d.st[y].kind = "none"
            BY <3>1, <1>1, <1>2 DEF Arrivals, isBound
      <4>2. \A j \in Handlers \ {k} : ~inQueue(d, j, y)
            BY <3>1, <1>2, <1>8 DEF isBound
      <4>3. \A z \in EventIds : eventOf(d, k, z) => z < y
            BY <3>1, <1>2, <1>9 DEF isBound, eventOf
      <4> QED
            BY <4>1, <4>2, <4>3
    <3>2. CASE ~(y = x /\ k = h)
      <4>1. inQueue(c, k, y)
            BY <3>2, <2>2, <1>7, <1>8
      <4>2. y # x
            BY <4>1, <1>2 DEF isBound
      <4>3. \A j \in Handlers \ {k} : ~inQueue(d, j, y)
            BY <4>1, <4>2, <1>1, <1>7, <1>8 DEF Queues
      <4> QED
            BY <4>1, <4>3, <1>1, <1>9 DEF Queues
    <3> QED
          BY <3>1, <3>2
  <2> QED
        BY <2>1, <2>2 DEF Queues
<1>13. OneAtATime(d)
  <2>1. \A k \in Handlers : /\ d.handler[k].concurrent = c.handler[k].concurrent
                            /\ d.handler[k].active = c.handler[k].active
        OBVIOUS
  <2> QED
        BY <2>1, <1>1, <1>9 DEF OneAtATime
<1> QED
      BY <1>11, <1>12, <1>13 DEF Serial

\* bindDeferredEvent() of the oldest deferred update.
LEMMA BindSound ==
  ASSUME NEW c, NEW s, NEW l, NEW g, NEW E, NEW F, Sound(c, s, l, g, E, F),
         NEW x, isNext(c, x)
  PROVE  Sound(bindDeferredEvent(c, x), s, l, g, E, F)
<1> DEFINE h == c.current
           r == c.handler[h]
           d == bindDeferredEvent(c, x)
<1>1. c \in Core /\ Serial(c) /\ Arrivals(c)
      BY SoundShape DEF CoreInv, Serial
<1>2. x \in EventIds /\ x \in States /\ ~isBound(c, x) /\ c.st[x].kind = "none"
  <2>1. x \in EventIds /\ \A y \in EventIds : isBound(c, y) => y < x
        BY DEF isNext
  <2>2. ~(x < x)
        BY <2>1 DEF EventIds
  <2> QED
        BY <2>1, <2>2, <1>1, StateKinds DEF Arrivals, isBound
<1>3. CASE ~c.events_enabled \/ h = 0
      BY <1>3 DEF bindDeferredEvent
<1>4. CASE ~(~c.events_enabled \/ h = 0)
  <2>1. h \in Handlers /\ h <= c.handlers /\ h \in 0 .. MaxHandlers
        BY <1>1, <1>4, CoreTypes, BoundsAssumption DEF Arrivals, Handlers
  <2>2. /\ r \in HandlerRecord /\ r.concurrent \in BOOLEAN /\ r.active \in BOOLEAN
        /\ r.queue \in Seq(EventIds)
        BY <1>1, <2>1, HandlerTypes
  <2>3. r.active => ~r.concurrent
        BY <1>1, <2>1 DEF Serial, Queues
  <2>4. CASE ~r.concurrent /\ r.active
    <3> DEFINE r2 == [r EXCEPT !.queue = Append(r.queue, x)]
    <3>1. d = putHandler(c, h, r2)
          BY <1>4, <2>4 DEF bindDeferredEvent, putHandler
    <3>2. /\ r2 \in HandlerRecord /\ r2.concurrent = r.concurrent /\ r2.active = r.active
          /\ r2.queue = Append(r.queue, x)
          BY <2>2, <1>2, SMTT(30) DEF HandlerRecord
    <3> HIDE DEF r2
    <3>3. d \in Core /\ PutsHandler(c, d, h, r2)
          BY <3>1, <3>2, <1>1, <2>1, PutHandlerFields
    <3> HIDE DEF d
    <3>4. /\ SameStates(c, d) /\ d.errors = c.errors /\ d.st = c.st
          /\ d.handler[h] = r2 /\ \A k \in Handlers \ {h} : d.handler[k] = c.handler[k]
          /\ d.deferred_events = c.deferred_events /\ d.event = c.event
          /\ d.handlers = c.handlers /\ d.current = c.current
          BY <3>3 DEF PutsHandler, SameStates
    <3>5. Serial(d)
          BY <1>1, <2>1, <2>4, <3>2, <3>3, <3>4, EnqueueSerial
    <3>6. d.errors <= c.errors
          BY <3>4, <1>1, CoreTypes
    <3> QED
          BY <3>3, <3>4, <3>5, <3>6, QuietSound DEF d
  <2>5. CASE ~(~r.concurrent /\ r.active)
    <3> DEFINE r2 == [r EXCEPT !.active = ~r.concurrent]
               b == putHandler(c, h, r2)
    <3>1. d = startEventTask(b, x, h)
          BY <1>4, <2>5 DEF bindDeferredEvent, putHandler
    <3>2. /\ r2 \in HandlerRecord /\ r2.concurrent = r.concurrent
          /\ r2.active = ~r.concurrent /\ r2.queue = r.queue
          BY <2>2 DEF HandlerRecord
    <3> HIDE DEF r2
    <3>3. b \in Core /\ PutsHandler(c, b, h, r2)
          BY <3>2, <1>1, <2>1, PutHandlerFields
    <3> HIDE DEF b, d
    <3>4. /\ SameStates(c, b) /\ b.errors = c.errors /\ b.st = c.st
          /\ b.handler[h] = r2 /\ \A k \in Handlers \ {h} : b.handler[k] = c.handler[k]
          /\ b.deferred_events = c.deferred_events /\ b.event = c.event
          /\ b.handlers = c.handlers /\ b.current = c.current
          BY <3>3 DEF PutsHandler, SameStates
    <3>5. d \in Core /\ Starts(b, d, x, h) /\ SameEvents(b, d)
          BY <3>1, <3>3, <1>2, <2>1, StartFields
    <3>6. Starts(c, d, x, h)
          BY <3>4, <3>5 DEF Starts, SameStates
    <3>7. /\ d.deferred_events = c.deferred_events /\ d.event = c.event
          /\ d.handlers = c.handlers /\ d.current = c.current
          /\ d.handler[h] = r2 /\ \A k \in Handlers \ {h} : d.handler[k] = c.handler[k]
          BY <3>4, <3>5 DEF SameEvents
    <3>8. Serial(d)
          BY <1>1, <2>1, <2>2, <2>5, <3>2, <3>5, <3>6, <3>7, BindSerial
    <3> QED
          BY <1>2, <3>5, <3>6, <3>8, StartSound DEF d
  <2> QED
        BY <2>4, <2>5
<1> QED
      BY <1>3, <1>4

\* A task that ends and does not wait, with what finishSerializedEvent() then does.
LEMMA TaskEndsSound ==
  ASSUME NEW c, NEW s, NEW l, NEW g, NEW E, NEW F, Sound(c, s, l, g, E, F),
         NEW x \in c.running_tasks, registration(c, x) = None \/ registration(c, x).task # x,
         NEW failed \in BOOLEAN
  PROVE  LET d == finishSerializedEvent(endTask(c, x, failed), x) IN
         Sound(d, s, l, g, E \cup {x}, F \cup {x}) /\ isTerminalState(d, x)
<1> DEFINE b == endTask(c, x, failed)
           n == IF failed /\ c.st[x].kind = "EventTask" THEN 1 ELSE 0
<1>1. c \in Core /\ Requested(c) /\ Serial(c)
      BY SoundShape DEF CoreInv
<1>2. x \in States /\ ~isTerminalState(c, x)
      BY <1>1, CoreTypes DEF Requested, isTerminalState
<1>3. b \in Core /\ Ends(c, b, x, n)
      BY <1>1, <1>2, EndTaskFields
<1>4. n \in 0 .. 1 /\ (n = 1 => c.st[x].kind = "EventTask")
      OBVIOUS
<1> HIDE DEF b, n
<1>5. Sound(b, s, l, g, E \cup {x}, F \cup {x})
      BY <1>3, <1>4, EndSound
<1>6. /\ isTerminalState(b, x) /\ b.st[x].kind = c.st[x].kind
      /\ b.st[x].handler = c.st[x].handler
      /\ \A y \in States : y # x => b.st[y] = c.st[y]
      /\ b.handler = c.handler
      BY <1>3 DEF Ends, SameEvents
<1>7. ASSUME b.st[x].kind = "EventTask", ~b.handler[b.st[x].handler].concurrent,
             NEW y \in EventIds, eventOf(b, b.st[x].handler, y)
      PROVE  isTerminalState(b, y)
  <2> DEFINE h == c.st[x].handler
  <2>1. CASE y = x
        BY <2>1, <1>6
  <2>2. CASE y # x
    <3>1. y \in States /\ eventOf(c, h, y) /\ eventOf(c, h, x) /\ ~c.handler[h].concurrent
          BY <2>2, <1>6, <1>7, StateKinds DEF eventOf
    <3>5. x \in EventIds /\ h \in 1 .. c.handlers
          BY <1>1, <1>2, <3>1 DEF Serial, Arrivals, eventOf
    <3>2. x \in EventIds /\ h \in Handlers
          BY <3>5, <1>1, CoreTypes, BoundsAssumption DEF Handlers
    <3>3. x < y \/ y < x
          BY <2>2, <3>2 DEF EventIds
    <3>4. isTerminalState(c, y)
          BY <1>1, <1>2, <3>1, <3>2, <3>3 DEF Serial, OneAtATime
    <3> QED
          BY <2>2, <3>1, <3>4, <1>6 DEF isTerminalState
  <2> QED
        BY <2>1, <2>2
<1>8. /\ Sound(finishSerializedEvent(b, x), s, l, g, E \cup {x}, F \cup {x})
      /\ isTerminalState(finishSerializedEvent(b, x), x)
      BY <1>2, <1>5, <1>6, <1>7, FinishEventsSound
<1> QED
      BY <1>8 DEF b

-----------------------------------------------------------------------------
(***************************************************************************)
(* Closing the client.                                                     *)
(***************************************************************************)

rank(S, x) == Cardinality({y \in S : y <= x})

LEMMA RankStrict ==
  ASSUME NEW S \in SUBSET Requests, NEW x \in S
  PROVE  /\ rank(S, x) \in 1 .. Cardinality(S)
         /\ \A z \in S : x < z => rank(S, x) < rank(S, z)
<1>1. IsFiniteSet(S) /\ Cardinality(S) \in Nat /\ S \subseteq Int
      BY ThreadsFinite, StateKinds, FS_Subset, FS_CardinalityType DEF Requests
<1> DEFINE B(z) == {y \in S : y <= z}
<1>2. \A z \in S : /\ B(z) \in SUBSET S /\ IsFiniteSet(B(z)) /\ Cardinality(B(z)) \in Nat
                   /\ Cardinality(B(z)) <= Cardinality(S)
      BY <1>1, FS_Subset, FS_CardinalityType
<1>3. x \in B(x)
      BY <1>1
<1>4. Cardinality(B(x)) # 0
      BY <1>2, <1>3, FS_EmptySet
<1>5. ASSUME NEW z \in S, x < z
      PROVE  Cardinality(B(x)) < Cardinality(B(z))
  <2>1. B(x) \in SUBSET B(z) /\ z \in B(z) /\ z \notin B(x)
    <3>1. \A y \in S : y <= x => y <= z
          BY <1>1, <1>5
    <3>2. z <= z /\ ~(z <= x)
          BY <1>1, <1>5
    <3> QED
        BY <3>1, <3>2
  <2>2. IsFiniteSet(B(z)) /\ Cardinality(B(z)) \in Nat /\ Cardinality(B(x)) \in Nat
        BY <1>2
  <2>3. Cardinality(B(x)) <= Cardinality(B(z)) /\ Cardinality(B(x)) # Cardinality(B(z))
    <3> HIDE DEF B
    <3> QED
        BY <2>1, <2>2, FS_Subset
  <2> HIDE DEF B
  <2> QED
        BY <2>2, <2>3
<1>6. Cardinality(B(x)) \in 1 .. Cardinality(S)
  <2> HIDE DEF B
  <2> QED
        BY <1>1, <1>2, <1>4
<1> QED
      BY <1>5, <1>6 DEF rank

\* ascending() lists the requests it is given and no others.
LEMMA AscendingRange ==
  ASSUME NEW S \in SUBSET Requests
  PROVE  /\ ascending(S) \in Seq(States)
         /\ \A x : (\E i \in DOMAIN ascending(S) : ascending(S)[i] = x) <=> x \in S
<1> DEFINE n == Cardinality(S)
           f == [x \in S |-> rank(S, x)]
<1>1. IsFiniteSet(S) /\ n \in Nat /\ S \subseteq Int /\ S \subseteq States
      BY ThreadsFinite, StateKinds, FS_Subset, FS_CardinalityType DEF Requests
<1>2. \A x \in S : f[x] \in 1 .. n
      BY RankStrict
<1>3. \A x, z \in S : f[x] = f[z] => x = z
  <2>1. SUFFICES ASSUME NEW x \in S, NEW z \in S, x < z
                 PROVE  f[x] # f[z]
    <3>1. \A x, z \in S : x < z \/ z < x \/ x = z
          BY <1>1
    <3> QED
        BY <3>1
  <2>2. f[x] < f[z] /\ f[x] \in Int /\ f[z] \in Int
        BY <2>1, <1>2, RankStrict
  <2> HIDE DEF f
  <2> QED
        BY <2>2
<1>4. f \in Injection(S, 1 .. n)
      BY <1>2, <1>3 DEF Injection, IsInjective
<1>5. IsFiniteSet(1 .. n) /\ Cardinality(1 .. n) = n
      BY <1>1, FS_Interval
<1>6. f \in Surjection(S, 1 .. n)
  <2> HIDE DEF f
  <2> QED
      BY <1>4, <1>5, FS_Injection
<1>7. \A i \in 1 .. n : \E x \in S : f[x] = i
  <2> HIDE DEF f
  <2> QED
      BY <1>6 DEF Surjection
<1>8. \A i \in 1 .. n : ascending(S)[i] \in S /\ rank(S, ascending(S)[i]) = i
      BY <1>7 DEF ascending, rank
<1>9. DOMAIN ascending(S) = 1 .. n
      BY DEF ascending
<1>10. ascending(S) \in Seq(States)
  <2> DEFINE r == ascending(S)
  <2>1. r = [i \in 1 .. n |-> r[i]]
        BY <1>9 DEF ascending
  <2>2. \A i \in 1 .. n : r[i] \in States
        BY <1>1, <1>8
  <2>4. n \in Nat
        BY <1>1
  <2> HIDE DEF r, n
  <2>3. r \in [1 .. n -> States]
        BY <2>1, <2>2
  <2> QED
        BY <2>3, <2>4, <1>1 DEF r
<1>11. ASSUME NEW x \in S
       PROVE  \E i \in 1 .. n : ascending(S)[i] = x
  <2>1. f[x] \in 1 .. n /\ rank(S, ascending(S)[f[x]]) = rank(S, x)
        BY <1>2, <1>8
  <2>2. ascending(S)[f[x]] \in S
        BY <2>1, <1>8
  <2>3. ascending(S)[f[x]] = x
        BY <2>1, <2>2, <1>3
  <2> QED
        BY <2>1, <2>3
<1> QED
      BY <1>8, <1>9, <1>10, <1>11

LEMMA LastOf ==
  ASSUME NEW n \in Nat, NEW P \in SUBSET (1 .. n), P # {}
  PROVE  \E k \in P : \A j \in P : j <= k
<1> DEFINE T == {n - i : i \in P}
<1>1. T \subseteq Nat /\ T # {}
  <2>1. \A i \in P : n - i \in Nat
        OBVIOUS
  <2> QED
        BY <2>1
<1>2. PICK m \in T : \A y \in T : <<y, m>> \notin OpToRel(<, Nat)
  <2> HIDE DEF T
  <2> QED
      BY <1>1, WFMin, NatLessThanWellFounded
<1>3. \A y \in T : ~(y < m)
      BY <1>1, <1>2 DEF OpToRel
<1>4. PICK k \in P : m = n - k
      OBVIOUS
<1>5. \A j \in P : ~(n - j < n - k)
      BY <1>3, <1>4
<1> QED
      BY <1>5

listed(s, x) == \E i \in DOMAIN s : s[i] = x

LEMMA ConcatReady ==
  ASSUME NEW q \in Seq(States), NEW r \in Seq(States)
  PROVE  \A y : listed(q \o r, y) <=> listed(q, y) \/ listed(r, y)
<1> DEFINE p == q \o r
<1>2. /\ p \in Seq(States) /\ Len(p) = Len(q) + Len(r)
      /\ \A i \in 1 .. Len(q) : p[i] = q[i]
      /\ \A i \in 1 .. Len(r) : p[Len(q) + i] = r[i]
      OBVIOUS
<1>3. /\ DOMAIN p = 1 .. Len(q) + Len(r) /\ DOMAIN q = 1 .. Len(q) /\ DOMAIN r = 1 .. Len(r)
      /\ Len(q) \in Nat /\ Len(r) \in Nat
      BY <1>2
<1> HIDE DEF p
<1>4. ASSUME NEW y, NEW i \in DOMAIN p, p[i] = y
      PROVE  (\E j \in DOMAIN q : q[j] = y) \/ \E j \in DOMAIN r : r[j] = y
  <2>1. i \in DOMAIN q \/ (i - Len(q) \in DOMAIN r /\ Len(q) + (i - Len(q)) = i)
        BY <1>3, <1>4
  <2> QED
        BY <2>1, <1>2, <1>3, <1>4
<1>5. ASSUME NEW y, NEW j \in DOMAIN q, q[j] = y
      PROVE  \E i \in DOMAIN p : p[i] = y
  <2>1. j \in DOMAIN p
        BY <1>3, <1>5
  <2> QED
        BY <2>1, <1>2, <1>3, <1>5
<1>6. ASSUME NEW y, NEW j \in DOMAIN r, r[j] = y
      PROVE  \E i \in DOMAIN p : p[i] = y
  <2>1. Len(q) + j \in DOMAIN p
        BY <1>3, <1>6
  <2> QED
        BY <2>1, <1>2, <1>3, <1>6
<1> QED
      BY <1>4, <1>5, <1>6 DEF p, listed

LEMMA ClearDeferredSound ==
  ASSUME NEW c, NEW s, NEW l, NEW g, NEW E, NEW F, Sound(c, s, l, g, E, F)
  PROVE  Sound([c EXCEPT !.deferred_events = <<>>], s, l, g, E, F)
<1> DEFINE d == [c EXCEPT !.deferred_events = <<>>]
<1>1. c \in Core /\ Serial(c)
      BY SoundShape DEF CoreInv
<1>2. d \in Core
  <2>1. <<>> \in Seq(EventIds)
        OBVIOUS
  <2> QED
        BY <2>1, <1>1 DEF Core
<1>3. /\ SameStates(c, d) /\ d.errors = c.errors /\ d.deferred_events = <<>>
      /\ d.event = c.event /\ d.handler = c.handler /\ d.handlers = c.handlers
      /\ d.current = c.current
      BY <1>1 DEF Core, SameStates
<1> HIDE DEF d
<1>4. d.st = c.st
      BY <1>3 DEF SameStates
<1>5. /\ \A h, y : inQueue(d, h, y) = inQueue(c, h, y)
      /\ \A h, y : eventOf(d, h, y) = eventOf(c, h, y)
      /\ \A y : isBound(d, y) = isBound(c, y)
      /\ \A y : isTerminalState(d, y) = isTerminalState(c, y)
      BY <1>3, <1>4 DEF inQueue, eventOf, isBound, isTerminalState
<1>6. Arrivals(d)
      BY <1>1, <1>3, <1>4, <1>5 DEF Serial, Arrivals, Ascends
<1>7. Queues(d)
      BY <1>1, <1>3, <1>4, <1>5 DEF Serial, Queues
<1>8. OneAtATime(d)
      BY <1>1, <1>3, <1>4, <1>5 DEF Serial, OneAtATime
<1>9. d.errors <= c.errors
      BY <1>1, <1>3, CoreTypes
<1>10. Sound(d, s, l, g, E, F)
       BY <1>2, <1>3, <1>6, <1>7, <1>8, <1>9, QuietSound DEF Serial
<1> QED
      BY <1>10 DEF d

\* Everything pending fails.
Fails(c, d) ==
  /\ d.live = c.live /\ d.next = c.next /\ d.pending = {} /\ d.pending_requests = 0
  /\ d.waiters = c.waiters /\ d.notifications = c.notifications
  /\ d.waitBindings = c.waitBindings /\ d.running_tasks = c.running_tasks
  /\ d.errors = c.errors /\ SameEvents(c, d)
  /\ \A y : isReady(d, y) <=> isReady(c, y) \/ y \in c.pending
  /\ \A y \in States :
       /\ d.st[y].kind = c.st[y].kind /\ d.st[y].handles = c.st[y].handles
       /\ d.st[y].waiters = c.st[y].waiters /\ d.st[y].observed = c.st[y].observed
       /\ d.st[y].reports = c.st[y].reports /\ d.st[y].handler = c.st[y].handler
       /\ y \in c.pending => d.st[y].status = "Failed" /\ d.st[y].teardown
       /\ y \notin c.pending => d.st[y] = c.st[y]

LEMMA FailsSound ==
  ASSUME NEW c, NEW d \in Core, NEW s, NEW l, NEW g, NEW E, NEW F, Sound(c, s, l, g, E, F),
         Fails(c, d)
  PROVE  Sound(d, s, l, g, E, F)
<1>1. /\ c \in Core /\ CoreInv(c) /\ StackInv(c, s, l, g, E, F) /\ Leases(c, s)
      /\ Waits(c) /\ Requested(c) /\ Reported(c) /\ Serial(c) /\ Shape(s)
      BY SoundShape DEF CoreInv
<1>2. /\ d.live = c.live /\ d.next = c.next /\ d.pending = {} /\ d.pending_requests = 0
      /\ d.waiters = c.waiters /\ d.notifications = c.notifications
      /\ d.waitBindings = c.waitBindings /\ d.running_tasks = c.running_tasks
      /\ d.errors = c.errors
      /\ \A y : isReady(d, y) <=> isReady(c, y) \/ y \in c.pending
      BY DEF Fails
<1>3. \A y \in States :
       /\ d.st[y].kind = c.st[y].kind /\ d.st[y].handles = c.st[y].handles
       /\ d.st[y].waiters = c.st[y].waiters /\ d.st[y].observed = c.st[y].observed
       /\ d.st[y].reports = c.st[y].reports /\ d.st[y].handler = c.st[y].handler
       /\ y \in c.pending => d.st[y].status = "Failed" /\ d.st[y].teardown
       /\ y \notin c.pending => d.st[y] = c.st[y]
      BY DEF Fails
<1>4. \A y \in States : y \in c.pending =>
        y \in c.live /\ c.st[y].status = "Pending" /\ c.st[y].kind \in RequestKinds
        /\ ~isReady(c, y)
      BY <1>1 DEF Requested
<1>5. \A y \in States :
        /\ isTerminalState(c, y) => y \notin c.pending /\ isTerminalState(d, y)
                                    /\ d.st[y] = c.st[y]
        /\ isTerminalState(d, y) => y \in c.pending \/ isTerminalState(c, y)
        /\ y \in c.pending => isTerminalState(d, y) /\ isReady(d, y)
      BY <1>2, <1>3, <1>4 DEF isTerminalState
<1>6. /\ \A t : registration(d, t) = registration(c, t)
      /\ \A y : waitersOf(d, y) = waitersOf(c, y)
      BY <1>2, SameWaits
<1>7. \A t \in Threads :
        /\ c.notifications[t] # None => c.notifications[t].dependency \in States
        /\ c.waiters[t] # None => c.waiters[t].dependency \in States
      BY <1>1, CoreTypes DEF WaitRecord
<1>8. Waits(d)
  <2>1. /\ \A t \in Threads : d.waiters[t] = None \/ d.notifications[t] = None
        /\ d.waitBindings = {t \in Threads : registration(d, t) # None}
        /\ \A y \in States : d.st[y].waiters = Cardinality(waitersOf(d, y))
        BY <1>1, <1>2, <1>3, <1>6 DEF Waits
  <2>2. \A y \in States : d.st[y].waiters > 0 \/ d.st[y].handles > 0 => y \in d.live
        BY <1>1, <1>2, <1>3 DEF Waits
  <2>3. \A t \in Threads : d.notifications[t] # None
                            => isTerminalState(d, d.notifications[t].dependency)
        BY <1>1, <1>2, <1>5, <1>7 DEF Waits
  <2>4. \A t \in d.waitBindings :
          LET r == registration(d, t) IN
          /\ r.task \in {None, t} /\ (r.task # None => t \in d.running_tasks)
          /\ r.expired => r.timed
        BY <1>1, <1>2, <1>6 DEF Waits
  <2> QED
        BY <2>1, <2>2, <2>3, <2>4 DEF Waits
<1>9. Requested(d)
  <2>1. Cardinality({y \in d.pending : d.st[y].kind # "Raw"}) = 0
    <3>1. {y \in d.pending : d.st[y].kind # "Raw"} = {}
          BY <1>2
    <3> QED
          BY <3>1, FS_EmptySet
  <2>2. \A y \in States : d.st[y].kind = "none" => d.st[y] = NoState /\ y \notin d.live
    <3>1. \A y \in c.pending : c.st[y].kind # "none"
          BY <1>1 DEF Requested, RequestKinds
    <3> QED
          BY <3>1, <1>1, <1>2, <1>3 DEF Requested
  <2>3. \A y \in Requests : y >= d.next => d.st[y].kind = "none"
        BY <1>1, <1>2, <1>3, StateKinds DEF Requested
  <2>4. \A y \in States \ d.live :
          ~isTerminalState(d, y) => d.st[y].status = "Pending" /\ ~isReady(d, y)
        BY <1>1, <1>2, <1>3, <1>4, <1>5 DEF Requested
  <2>5. \A y \in States : d.st[y].status = "Running" <=> y \in d.running_tasks
        BY <1>1, <1>2, <1>3, <1>4 DEF Requested
  <2>6. \A y \in States :
          d.st[y].kind = "Raw" => d.st[y].handles = 0 /\ d.st[y].waiters = 0
        BY <1>1, <1>3 DEF Requested
  <2> QED
        BY <2>1, <2>2, <2>3, <2>4, <2>5, <2>6, <1>2 DEF Requested
<1>10. Reported(d)
  <2>1. {y \in States : d.st[y].reports > 0} = {y \in States : c.st[y].reports > 0}
        BY <1>3
  <2>2. ASSUME NEW y \in States
        PROVE  LET r == d.st[y] IN
               /\ r.reports > 0 => r.reports = 1 /\ isTerminalState(d, y)
               /\ r.kind = "Task" /\ r.status = "Failed" /\ y \notin d.live
                    => r.observed \/ r.teardown \/ r.reports = 1
               /\ r.kind = "Task" /\ r.reports > 0 => y \notin d.live /\ ~r.observed
    <3>1. CASE y \notin c.pending
          BY <3>1, <1>1, <1>2, <1>3, <1>5 DEF Reported
    <3>2. CASE y \in c.pending
      <4>1. ~isTerminalState(c, y) /\ y \in d.live
            BY <3>2, <1>2, <1>4 DEF isTerminalState
      <4>2. ~(c.st[y].reports > 0)
            BY <4>1, <1>1 DEF Reported
      <4> QED
            BY <4>1, <4>2, <1>3
    <3> QED
          BY <3>1, <3>2
  <2> QED
        BY <2>1, <2>2, <1>1, <1>2 DEF Reported
<1>11. Serial(d)
       BY <1>1, <1>3, <1>5, SameSerial DEF Fails, SameEvents
<1>12. Placed(d, s, l, F)
  <2>1. \A i \in DOMAIN s : s[i].at = "lua" /\ s[i].task # None => s[i].task \in States
        BY <1>1, FrameTypes DEF Shape, LuaFrames
  <2>2. \A y \in States : d.st[y].status = "Pending" => c.st[y].status = "Pending"
        BY <1>3
  <2>3. \A i \in DOMAIN s :
          s[i].at = "lua" /\ s[i].task # None => d.st[s[i].task].status # "Pending"
        BY <2>1, <2>2, <1>1 DEF StackInv, Placed
  <2>4. /\ l \in [Threads -> {"fresh", "live", "dead"}]
        /\ \A t \in d.waitBindings : ~isOn(s, t)
        /\ \A x \in d.running_tasks \ F :
             (x \in d.waitBindings /\ registration(d, x).task = x) \/ runs(s, x)
        BY <1>1, <1>2, <1>6 DEF StackInv, Placed
  <2>5. \A y \in States :
          /\ d.st[y].status = "Pending" => l[y] = "fresh"
          /\ l[y] = "fresh" => y \notin d.waitBindings /\ ~isOn(s, y)
        BY <2>2, <1>1, <1>2 DEF StackInv, Placed
  <2> QED
        BY <2>3, <2>4, <2>5 DEF Placed
<1>13. Retiring(d, s, E)
  <2>1. \A i \in DOMAIN s : s[i].at = "wake" => s[i].state \in States
        BY <1>1, FrameTypes DEF Shape, WakeFrames
  <2>2. c.live \subseteq States
        BY <1>1, CoreTypes
  <2>3. \A i \in DOMAIN s : s[i].at = "wake" => isTerminalState(d, s[i].state)
        BY <2>1, <1>1, <1>5 DEF StackInv, Retiring
  <2>4. \A x \in d.live \ E :
          isTerminalState(d, x) /\ d.st[x].handles = 0 /\ d.st[x].waiters = 0 => isReady(d, x)
        BY <2>2, <1>1, <1>2, <1>3, <1>5 DEF StackInv, Retiring
  <2> QED
        BY <2>3, <2>4 DEF Retiring
<1>14. Reaching(d, s, g, F)
  <2>1. ASSUME NEW t \in Threads, d.waiters[t] # None,
               isTerminalState(d, d.waiters[t].dependency), d.waiters[t].dependency \notin F
        PROVE  isReady(d, d.waiters[t].dependency) \/ t \in g
               \/ wakes(s, d.waiters[t].dependency, t)
    <3>1. d.waiters[t] = c.waiters[t] /\ c.waiters[t].dependency \in States
          BY <2>1, <1>2, <1>7
    <3>2. CASE c.waiters[t].dependency \in c.pending
          BY <3>1, <3>2, <1>5
    <3>3. CASE c.waiters[t].dependency \notin c.pending
      <4>1. isTerminalState(c, c.waiters[t].dependency)
            BY <3>1, <3>3, <2>1, <1>5
      <4> QED
            BY <4>1, <3>1, <2>1, <1>1, <1>2 DEF StackInv, Reaching
    <3> QED
          BY <3>2, <3>3
  <2> QED
        BY <2>1 DEF Reaching
<1>15. Honest(d, s)
  <2>1. ASSUME NEW i \in DOMAIN s, s[i].at = "lua", s[i].by = "resume"
        PROVE  LET w == s[i].wait
                   r == d.st[w.dependency]
               IN /\ s[i].outcome = "Success" => r.status \in {"Resolved", "Done"}
                  /\ s[i].outcome = "Failed" => r.status = "Failed" /\ r.observed
                  /\ s[i].outcome = "Timeout" => w.timed /\ w.expired
    <3>1. s[i].wait.dependency \in States
          BY <2>1, <1>1, FrameTypes DEF Shape, LuaFrames, WaitRecord
    <3>2. LET w == s[i].wait
              r == c.st[w.dependency]
          IN /\ s[i].outcome = "Success" => r.status \in {"Resolved", "Done"}
             /\ s[i].outcome = "Failed" => r.status = "Failed" /\ r.observed
             /\ s[i].outcome = "Timeout" => w.timed /\ w.expired
          BY <2>1, <1>1 DEF StackInv, Honest
    <3> QED
          BY <3>1, <3>2, <1>3, <1>4
  <2> QED
        BY <2>1 DEF Honest
<1>16. Leases(d, s)
       BY <1>1, <1>3 DEF Leases
<1> QED
      BY <1>1, <1>8, <1>9, <1>10, <1>11, <1>12, <1>13, <1>14, <1>15, <1>16
      DEF Sound, CoreInv, StackInv

\* t waits for a state that is over.
waitsInVain(c, t) == c.waiters[t] # None /\ isTerminalState(c, c.waiters[t].dependency)

\* Whoever waits for a state that is over is to be notified instead.
Moves(c, d) ==
  /\ d.st = c.st /\ d.live = c.live /\ d.next = c.next /\ d.pending = c.pending
  /\ d.pending_requests = c.pending_requests /\ d.waitBindings = c.waitBindings
  /\ d.running_tasks = c.running_tasks /\ d.ready = c.ready
  /\ d.errors = c.errors /\ SameEvents(c, d)
  /\ \A t \in Threads :
       /\ waitsInVain(c, t) => d.waiters[t] = None /\ d.notifications[t] = c.waiters[t]
       /\ ~waitsInVain(c, t) => /\ d.waiters[t] = c.waiters[t]
                                /\ d.notifications[t] = c.notifications[t]

LEMMA MovesSound ==
  ASSUME NEW c, NEW d \in Core, NEW s, NEW l, NEW g, NEW g2, NEW E, NEW F,
         Sound(c, s, l, g, E, F), Moves(c, d)
  PROVE  Sound(d, s, l, g2, E, F)
<1>1. /\ c \in Core /\ CoreInv(c) /\ StackInv(c, s, l, g, E, F) /\ Leases(c, s)
      /\ Waits(c) /\ Requested(c) /\ Reported(c) /\ Serial(c) /\ Shape(s)
      BY SoundShape DEF CoreInv
<1>2. /\ d.st = c.st /\ d.live = c.live /\ d.next = c.next /\ d.pending = c.pending
      /\ d.pending_requests = c.pending_requests /\ d.waitBindings = c.waitBindings
      /\ d.running_tasks = c.running_tasks /\ d.ready = c.ready /\ d.errors = c.errors
      BY DEF Moves
<1>3. \A t \in Threads :
        /\ waitsInVain(c, t) => d.waiters[t] = None /\ d.notifications[t] = c.waiters[t]
        /\ ~waitsInVain(c, t) => /\ d.waiters[t] = c.waiters[t]
                                 /\ d.notifications[t] = c.notifications[t]
      BY DEF Moves
<1>4. \A x : isTerminalState(d, x) = isTerminalState(c, x) /\ isReady(d, x) = isReady(c, x)
      BY <1>2 DEF isTerminalState, isReady
<1>5. \A t \in Threads : c.waiters[t] = None \/ c.notifications[t] = None
      BY <1>1 DEF Waits
<1>6. \A t \in Threads : registration(d, t) = registration(c, t)
  <2>1. ASSUME NEW t \in Threads
        PROVE  registration(d, t) = registration(c, t)
    <3>1. CASE waitsInVain(c, t)
      <4>1. c.waiters[t] # None
            BY <3>1 DEF waitsInVain
      <4> QED
            BY <4>1, <3>1, <1>3 DEF registration
    <3>2. CASE ~waitsInVain(c, t)
          BY <3>2, <1>3 DEF registration
    <3> QED
          BY <3>1, <3>2
  <2> QED
        BY <2>1
<1>7. \A x : waitersOf(d, x) = waitersOf(c, x)
      BY <1>6 DEF waitersOf
<1>8. Waits(d)
  <2>1. \A t \in Threads : d.waiters[t] = None \/ d.notifications[t] = None
        BY <1>3, <1>5
  <2>2. ASSUME NEW t \in Threads, d.notifications[t] # None
        PROVE  isTerminalState(d, d.notifications[t].dependency)
    <3>1. CASE waitsInVain(c, t)
          BY <3>1, <1>3, <1>4 DEF waitsInVain
    <3>2. CASE ~waitsInVain(c, t)
          BY <3>2, <2>2, <1>1, <1>3, <1>4 DEF Waits
    <3> QED
          BY <3>1, <3>2
  <2>3. /\ d.waitBindings = {t \in Threads : registration(d, t) # None}
        /\ \A x \in States : d.st[x].waiters = Cardinality(waitersOf(d, x))
        /\ \A x \in States : d.st[x].waiters > 0 \/ d.st[x].handles > 0 => x \in d.live
        BY <1>1, <1>2, <1>6, <1>7 DEF Waits
  <2>4. \A t \in d.waitBindings :
          LET r == registration(d, t) IN
          /\ r.task \in {None, t} /\ (r.task # None => t \in d.running_tasks)
          /\ r.expired => r.timed
    <3>1. d.waitBindings \subseteq Threads
          BY <1>1, <1>2, CoreTypes
    <3> QED
          BY <3>1, <1>1, <1>2, <1>6 DEF Waits
  <2> QED
        BY <2>1, <2>2, <2>3, <2>4 DEF Waits
<1>9. Requested(d)
      BY <1>1, <1>2, <1>4 DEF Requested
<1>10. Reported(d)
       BY <1>1, <1>2, <1>4 DEF Reported
<1>11. Serial(d)
       BY <1>1, <1>2, <1>4, SameSerial DEF Moves, SameEvents
<1>12. Placed(d, s, l, F)
  <2>1. \A x \in c.running_tasks : registration(d, x) = registration(c, x)
        BY <1>1, <1>6, CoreTypes, StateKinds
  <2> QED
        BY <2>1, <1>1, <1>2 DEF StackInv, Placed
<1>13. Retiring(d, s, E)
       BY <1>1, <1>2, <1>4 DEF StackInv, Retiring
<1>14. \A t \in Threads : d.waiters[t] # None => ~isTerminalState(d, d.waiters[t].dependency)
       BY <1>3, <1>4 DEF waitsInVain
<1>15. Reaching(d, s, g2, F)
       BY <1>14 DEF Reaching
<1>16. Honest(d, s) /\ Leases(d, s)
       BY <1>1, <1>2 DEF StackInv, Honest, Leases
<1> QED
      BY <1>1, <1>8, <1>9, <1>10, <1>11, <1>12, <1>13, <1>15, <1>16
      DEF Sound, CoreInv, StackInv

LEMMA FailPendingFields ==
  ASSUME NEW c \in Core, Requested(c)
  PROVE  failPending(c) \in Core /\ Fails(c, failPending(c))
<1> DEFINE r(x) == IF x \notin c.pending THEN c.st[x]
                   ELSE [failState(c, x).st[x] EXCEPT !.teardown = TRUE]
           q == ascending(c.pending)
           d == failPending(c)
<1>1. /\ q \in Seq(States)
      /\ \A x : (\E i \in DOMAIN q : q[i] = x) <=> x \in c.pending
      BY AscendingRange, CoreTypes
<1>2. ASSUME NEW x \in States
      PROVE  /\ r(x) \in StateRecord
             /\ r(x).kind = c.st[x].kind /\ r(x).handles = c.st[x].handles
             /\ r(x).waiters = c.st[x].waiters /\ r(x).observed = c.st[x].observed
             /\ r(x).reports = c.st[x].reports /\ r(x).handler = c.st[x].handler
             /\ x \in c.pending => r(x).status = "Failed" /\ r(x).teardown
             /\ x \notin c.pending => r(x) = c.st[x]
  <2>1. c.st[x] \in StateRecord
        BY StateTypes
  <2>2. CASE x \in c.pending
    <3> DEFINE b == [c EXCEPT !.st[x].status = "Failed"]
               p == [c.st[x] EXCEPT !.status = "Failed"]
    <3>1. failState(c, x) = b
          BY <2>2 DEF failState, Requested, isTerminalState
    <3>2. b = put(c, x, p)
          BY DEF put
    <3>3. /\ p \in StateRecord /\ p.status = "Failed"
          /\ p.kind = c.st[x].kind /\ p.handles = c.st[x].handles
          /\ p.waiters = c.st[x].waiters /\ p.observed = c.st[x].observed
          /\ p.reports = c.st[x].reports /\ p.handler = c.st[x].handler
          BY <2>1 DEF StateRecord, Statuses
    <3> HIDE DEF p
    <3>6. put(c, x, p).st[x] = p
          BY <3>3, PutFields
    <3>4. b.st[x] = p
          BY <3>2, <3>6
    <3> HIDE DEF b
    <3>5. r(x) = [p EXCEPT !.teardown = TRUE]
          BY <2>2, <3>1, <3>4
    <3> QED
          BY <3>3, <3>5, <2>2 DEF StateRecord
  <2>3. CASE x \notin c.pending
        BY <2>1, <2>3
  <2> QED
        BY <2>2, <2>3
<1>3. PICK f \in [States -> StateRecord] : f = [x \in States |-> r(x)]
      BY <1>2
<1>4. \A x \in States : f[x] = r(x)
      BY <1>3
<1>5. d = [c EXCEPT !.st = f, !.ready = c.ready \o q,
                    !.pending = {}, !.pending_requests = 0]
      BY <1>3 DEF failPending
<1>6. c.ready \o q \in Seq(States)
      BY <1>1, CoreTypes
<1> HIDE DEF q, r
<1>7. d \in Core
  <2>1. {} \in SUBSET Requests /\ 0 \in Int
        OBVIOUS
  <2> HIDE DEF d
  <2> QED
        BY <2>1, <1>5, <1>6 DEF Core
<1>8. /\ d.st = f /\ d.ready = c.ready \o q /\ d.pending = {} /\ d.pending_requests = 0
      /\ d.live = c.live /\ d.next = c.next
      /\ d.waiters = c.waiters /\ d.notifications = c.notifications
      /\ d.waitBindings = c.waitBindings /\ d.running_tasks = c.running_tasks
      /\ d.errors = c.errors
      BY <1>5 DEF Core
<1>9. SameEvents(c, d)
      BY <1>5 DEF Core, SameEvents
<1> HIDE DEF d
<1>10. \A y : isReady(d, y) <=> isReady(c, y) \/ y \in c.pending
  <2>2. q \in Seq(States) /\ d.ready = c.ready \o q
        BY <1>1, <1>8
  <2>3. c.ready \in Seq(States)
        BY CoreTypes
  <2>4. \A y : listed(c.ready \o q, y) <=> listed(c.ready, y) \/ listed(q, y)
        BY <2>2, <2>3, ConcatReady
  <2>1. \A y : isReady(d, y) <=> isReady(c, y) \/ \E i \in DOMAIN q : q[i] = y
        BY <2>2, <2>4 DEF isReady, listed
  <2> QED
        BY <2>1, <1>1
<1>11. Fails(c, d)
       BY <1>2, <1>4, <1>8, <1>9, <1>10 DEF Fails
<1> QED
      BY <1>7, <1>11 DEF d

LEMMA DetachSound ==
  ASSUME NEW c, NEW s, NEW l, NEW g, NEW g2, NEW E, NEW F, Sound(c, s, l, g, E, F)
  PROVE  Sound(detachTransport(c), s, l, g2, E, F)
<1> DEFINE a == removeEventRegistration(c)
           b == failPending(a)
           e == [b EXCEPT !.detach_after_drain = FALSE, !.pump = FALSE,
                          !.events_enabled = FALSE]
           d == [e EXCEPT !.deferred_events = <<>>]
           w == [t \in Threads |-> IF waitsInVain(d, t) THEN None ELSE d.waiters[t]]
           n == [t \in Threads |-> IF waitsInVain(d, t) THEN c.waiters[t]
                                   ELSE d.notifications[t]]
           z == detachTransport(c)
<1>1. Sound(a, s, l, g, E, F) /\ SameStates(c, a)
      BY RemoveRegistrationSound
<1> HIDE DEF a
<1>2. a \in Core /\ Requested(a)
      BY <1>1, SoundShape DEF CoreInv
<1>3. b \in Core /\ Fails(a, b)
      BY <1>2, FailPendingFields
<1>4. Sound(b, s, l, g, E, F)
      BY <1>1, <1>3, FailsSound
<1>5. b.waiters = c.waiters
      BY <1>1, <1>3 DEF Fails, SameStates
<1> HIDE DEF b
<1>6. e \in Core /\ SameStates(b, e) /\ SameEvents(b, e) /\ e.errors = b.errors
      BY <1>3 DEF Core, SameStates, SameEvents
<1>7. e.errors <= b.errors
      BY <1>3, <1>6, CoreTypes
<1>8. Sound(e, s, l, g, E, F)
      BY <1>4, <1>6, <1>7, FlagsSound
<1>9. e.waiters = c.waiters
      BY <1>5, <1>6 DEF SameStates
<1> HIDE DEF e
<1>10. Sound(d, s, l, g, E, F)
       BY <1>8, ClearDeferredSound
<1>11. d \in Core
       BY <1>10, SoundShape
<1>12. d.waiters = c.waiters
       BY <1>6, <1>9 DEF Core
<1>13. d = [b EXCEPT !.detach_after_drain = FALSE, !.pump = FALSE,
                     !.events_enabled = FALSE, !.deferred_events = <<>>]
       BY DEF e
<1> HIDE DEF d
<1>14. z = [d EXCEPT !.notifications = n, !.waiters = w]
  <2>1. DEFINE moved == {t \in Threads : /\ d.waiters[t] # None
                                    /\ isTerminalState(d, d.waiters[t].dependency)}
  <2>2. \A t \in Threads : t \in moved <=> waitsInVain(d, t)
        BY DEF waitsInVain
  <2>3. /\ n = [t \in Threads |-> IF t \in moved THEN c.waiters[t] ELSE d.notifications[t]]
        /\ w = [t \in Threads |-> IF t \in moved THEN None ELSE d.waiters[t]]
        BY <2>2
  <2>4. z = [d EXCEPT !.notifications = [t \in Threads |-> IF t \in moved THEN c.waiters[t]
                                                          ELSE d.notifications[t]],
                      !.waiters = [t \in Threads |-> IF t \in moved THEN None
                                                    ELSE d.waiters[t]]]
        BY <1>13 DEF detachTransport, a, b
  <2> QED
        BY <2>3, <2>4
<1>15. /\ w \in [Threads -> WaitRecord \cup {None}]
       /\ n \in [Threads -> WaitRecord \cup {None}]
  <2>1. \A t \in Threads : d.waiters[t] \in WaitRecord \cup {None}
                           /\ d.notifications[t] \in WaitRecord \cup {None}
        BY <1>11, CoreTypes
  <2> QED
        BY <2>1, <1>12
<1>16. \A t \in Threads :
         /\ waitsInVain(d, t) => w[t] = None /\ n[t] = d.waiters[t]
         /\ ~waitsInVain(d, t) => w[t] = d.waiters[t] /\ n[t] = d.notifications[t]
       BY <1>12
<1> HIDE DEF w, n
<1>17. z \in Core /\ z.waiters = w /\ z.notifications = n
       BY <1>11, <1>14, <1>15 DEF Core
<1>18. /\ z.st = d.st /\ z.live = d.live /\ z.next = d.next /\ z.pending = d.pending
       /\ z.pending_requests = d.pending_requests /\ z.waitBindings = d.waitBindings
       /\ z.running_tasks = d.running_tasks /\ z.ready = d.ready
       /\ z.errors = d.errors
       BY <1>11, <1>14 DEF Core
<1>19. SameEvents(d, z)
       BY <1>11, <1>14 DEF Core, SameEvents
<1> HIDE DEF z
<1>20. Moves(d, z)
       BY <1>16, <1>17, <1>18, <1>19 DEF Moves
<1>21. Sound(z, s, l, g2, E, F)
       BY <1>10, <1>17, <1>20, MovesSound
<1> QED
      BY <1>21 DEF z

-----------------------------------------------------------------------------
(***************************************************************************)
(* The queue of what is ready.                                             *)
(***************************************************************************)

\* What is ready no more is over, and to be woken and retired now, or has not been run.
LEMMA TailReadySound ==
  ASSUME NEW c, NEW s, NEW l, NEW g, NEW E, NEW F, Sound(c, s, l, g, E, F),
         c.ready # <<>>
  PROVE  LET x == Head(c.ready)
             d == [c EXCEPT !.ready = Tail(@)]
         IN /\ x \in States /\ d.st = c.st
            /\ isTerminalState(c, x) => Sound(d, s, l, g, E \cup {x}, F \cup {x})
            /\ ~isTerminalState(c, x) =>
                 /\ Sound(d, s, l, g, E, F)
                 /\ x \in d.live /\ x \notin d.pending /\ c.st[x].kind # "none"
<1> DEFINE x == Head(c.ready)
           d == [c EXCEPT !.ready = Tail(@)]
           X == IF isTerminalState(c, x) THEN {x} ELSE {}
<1>1. /\ c \in Core /\ CoreInv(c) /\ StackInv(c, s, l, g, E, F) /\ Leases(c, s)
      /\ Waits(c) /\ Requested(c) /\ Reported(c) /\ Serial(c)
      BY SoundShape DEF CoreInv
<1>2. /\ x \in States /\ Tail(c.ready) \in Seq(States)
      /\ \A y : listed(c.ready, y) <=> listed(Tail(c.ready), y) \/ y = x
  <2> DEFINE q == c.ready
             r == Tail(q)
  <2>1. q \in Seq(States) /\ q # <<>>
        BY <1>1, CoreTypes
  <2> HIDE DEF q
  <2>2. /\ r \in Seq(States) /\ Len(q) \in Nat /\ Len(q) > 0
        /\ DOMAIN r = 1 .. Len(q) - 1 /\ DOMAIN q = 1 .. Len(q)
        /\ \A i \in 1 .. Len(q) - 1 : r[i] = q[i + 1]
        /\ Head(q) = q[1] /\ Head(q) \in States
        BY <2>1
  <2> HIDE DEF r
  <2>3. ASSUME NEW y, NEW i \in DOMAIN q, q[i] = y, y # Head(q)
        PROVE  \E j \in DOMAIN r : r[j] = y
    <3>1. i # 1 /\ i - 1 \in DOMAIN r /\ (i - 1) + 1 = i
          BY <2>2, <2>3
    <3> QED
          BY <3>1, <2>2, <2>3
  <2>4. ASSUME NEW y, NEW j \in DOMAIN r, r[j] = y
        PROVE  \E i \in DOMAIN q : q[i] = y
    <3>1. j + 1 \in DOMAIN q
          BY <2>2, <2>4
    <3> QED
          BY <3>1, <2>2, <2>4
  <2>5. \E i \in DOMAIN q : q[i] = Head(q)
        BY <2>2
  <2>6. \A y : listed(q, y) <=> listed(r, y) \/ y = Head(q)
        BY <2>3, <2>4, <2>5 DEF listed
  <2> QED
        BY <2>2, <2>6 DEF q, r
<1>3. d \in Core /\ d.ready = Tail(c.ready)
      BY <1>1, <1>2 DEF Core
<1>4. /\ d.st = c.st /\ d.live = c.live /\ d.next = c.next /\ d.pending = c.pending
      /\ d.pending_requests = c.pending_requests /\ d.waiters = c.waiters
      /\ d.notifications = c.notifications /\ d.waitBindings = c.waitBindings
      /\ d.running_tasks = c.running_tasks /\ d.errors = c.errors
      BY <1>1 DEF Core
<1>5. SameEvents(c, d)
      BY <1>1 DEF Core, SameEvents
<1> HIDE DEF d, x
<1>6. \A y : isReady(c, y) <=> isReady(d, y) \/ y = x
      BY <1>2, <1>3 DEF isReady, listed
<1>7. /\ \A t : registration(d, t) = registration(c, t)
      /\ \A y : waitersOf(d, y) = waitersOf(c, y)
      BY <1>4, SameWaits
<1>8. \A y : isTerminalState(d, y) = isTerminalState(c, y)
      BY <1>4 DEF isTerminalState
<1>9. Waits(d)
      BY <1>1, <1>4, <1>7, <1>8 DEF Waits
<1>10. Requested(d)
       BY <1>1, <1>4, <1>6, <1>8 DEF Requested
<1>11. Reported(d)
       BY <1>1, <1>4, <1>8 DEF Reported
<1>12. Serial(d)
  <2>1. /\ d.deferred_events = c.deferred_events /\ d.event = c.event
        /\ d.handler = c.handler /\ d.handlers = c.handlers /\ d.current = c.current
        BY <1>5 DEF SameEvents
  <2>2. \A y \in States : /\ d.st[y].kind = c.st[y].kind
                          /\ d.st[y].handler = c.st[y].handler
                          /\ isTerminalState(c, y) => isTerminalState(d, y)
        BY <1>4, <1>8
  <2> QED
        BY <2>1, <2>2, <1>1, <1>3, SameSerial
<1>13. Placed(d, s, l, F \cup X)
       BY <1>1, <1>4, <1>7 DEF StackInv, Placed
<1>14. Retiring(d, s, E \cup X)
       BY <1>1, <1>4, <1>6, <1>8 DEF StackInv, Retiring
<1>15. Reaching(d, s, g, F \cup X)
       BY <1>1, <1>4, <1>6, <1>8 DEF StackInv, Reaching
<1>16. Honest(d, s) /\ Leases(d, s)
       BY <1>1, <1>4 DEF StackInv, Honest, Leases
<1>17. Sound(d, s, l, g, E \cup X, F \cup X)
       BY <1>1, <1>3, <1>9, <1>10, <1>11, <1>12, <1>13, <1>14, <1>15, <1>16
       DEF Sound, CoreInv, StackInv
<1>18. ~isTerminalState(c, x) => x \in d.live /\ x \notin d.pending /\ c.st[x].kind # "none"
  <2>1. isReady(c, x)
        BY <1>6
  <2> QED
        BY <2>1, <1>1, <1>2, <1>4 DEF Requested
<1>19. isTerminalState(c, x) => Sound(d, s, l, g, E \cup {x}, F \cup {x})
       BY <1>17
<1>20. ~isTerminalState(c, x) => Sound(d, s, l, g, E, F)
  <2>1. ~isTerminalState(c, x) => E \cup X = E /\ F \cup X = F
        OBVIOUS
  <2> QED
        BY <2>1, <1>17
<1> QED
      BY <1>2, <1>4, <1>18, <1>19, <1>20 DEF d, x

\* runTask() of a task that is Pending.
Runs(c, d, x) ==
  /\ d.running_tasks = c.running_tasks \cup {x} /\ d.st[x].status = "Running"
  /\ d.st[x].kind = c.st[x].kind /\ d.st[x].handles = c.st[x].handles
  /\ d.st[x].waiters = c.st[x].waiters /\ d.st[x].observed = c.st[x].observed
  /\ d.st[x].reports = c.st[x].reports /\ d.st[x].handler = c.st[x].handler
  /\ d.st[x].teardown = c.st[x].teardown
  /\ \A y \in States : y # x => d.st[y] = c.st[y]
  /\ d.live = c.live /\ d.next = c.next /\ d.pending = c.pending
  /\ d.pending_requests = c.pending_requests /\ d.waiters = c.waiters
  /\ d.notifications = c.notifications /\ d.waitBindings = c.waitBindings
  /\ d.ready = c.ready /\ d.errors = c.errors /\ SameEvents(c, d)

runState(c, x) ==
  [c EXCEPT !.st[x].status = "Running", !.running_tasks = @ \cup {x}]

LEMMA RunFields ==
  ASSUME NEW c \in Core, NEW x \in States
  PROVE  runState(c, x) \in Core /\ Runs(c, runState(c, x), x)
<1> DEFINE d == runState(c, x)
           r == [c.st[x] EXCEPT !.status = "Running"]
<1>1. c.st[x] \in StateRecord
      BY StateTypes
<1>2. /\ r \in StateRecord /\ r.status = "Running"
      /\ r.kind = c.st[x].kind /\ r.waiters = c.st[x].waiters
      /\ r.handles = c.st[x].handles /\ r.handler = c.st[x].handler
      /\ r.observed = c.st[x].observed /\ r.teardown = c.st[x].teardown
      /\ r.reports = c.st[x].reports
      BY <1>1 DEF StateRecord, Statuses
<1>3. PICK f \in [States -> StateRecord] : f = [c.st EXCEPT ![x] = r]
      BY <1>2, CoreTypes
<1>4. \A y \in States : f[y] = IF y = x THEN r ELSE c.st[y]
      BY <1>3, CoreTypes
<1>5. d = [c EXCEPT !.st = f, !.running_tasks = c.running_tasks \cup {x}]
      BY <1>3 DEF runState
<1>6. c.running_tasks \cup {x} \in SUBSET States
      BY CoreTypes
<1> HIDE DEF r
<1>7. d \in Core
      BY <1>5, <1>6 DEF Core
<1>8. /\ d.st = f /\ d.running_tasks = c.running_tasks \cup {x}
      /\ d.live = c.live /\ d.next = c.next /\ d.pending = c.pending
      /\ d.pending_requests = c.pending_requests /\ d.waiters = c.waiters
      /\ d.notifications = c.notifications /\ d.waitBindings = c.waitBindings
      /\ d.ready = c.ready /\ d.errors = c.errors
      BY <1>5 DEF Core
<1>9. SameEvents(c, d)
      BY <1>5 DEF Core, SameEvents
<1> HIDE DEF d
<1>10. Runs(c, d, x)
       BY <1>2, <1>4, <1>8, <1>9 DEF Runs
<1> QED
      BY <1>7, <1>10 DEF d

LEMMA RunSound ==
  ASSUME NEW c, NEW s, NEW l, NEW g, NEW E, NEW F, Sound(c, s, l, g, E, F),
         NEW x \in c.live, c.st[x].status = "Pending", x \notin c.pending,
         c.st[x].kind # "none"
  PROVE  Sound(runState(c, x), Append(s, LuaFrame(x, "run", x, None, "none", FALSE)),
               [l EXCEPT ![x] = "live"], g, E, F)
<1> DEFINE d == runState(c, x)
           f == LuaFrame(x, "run", x, None, "none", FALSE)
           s2 == Append(s, f)
           l2 == [l EXCEPT ![x] = "live"]
<1>1. /\ c \in Core /\ CoreInv(c) /\ StackInv(c, s, l, g, E, F) /\ Leases(c, s)
      /\ Waits(c) /\ Requested(c) /\ Reported(c) /\ Serial(c) /\ Shape(s)
      BY SoundShape DEF CoreInv
<1>2. x \in States /\ x \in Threads /\ x # Main /\ ~isTerminalState(c, x)
      BY <1>1, CoreTypes, StateKinds DEF isTerminalState
<1>3. d \in Core /\ Runs(c, d, x)
      BY <1>1, <1>2, RunFields
<1> HIDE DEF d
<1>4. l[x] = "fresh" /\ x \notin c.waitBindings /\ ~isOn(s, x)
      BY <1>1, <1>2 DEF StackInv, Placed
<1>5. /\ f \in LuaFrames /\ f.at = "lua" /\ f.thread = x /\ f.task = x /\ f.by = "run"
      BY <1>2 DEF LuaFrames, LuaFrame
<1> HIDE DEF f
<1>6. /\ Shape(s2)
      /\ \A i \in DOMAIN s2 : i = Len(s) + 1 \/ (i \in DOMAIN s /\ s2[i] = s[i])
      /\ s2[Len(s) + 1] = f
      /\ \A t : isOn(s2, t) <=> isOn(s, t) \/ t = x
      /\ \A t : runs(s, t) => runs(s2, t)
      /\ runs(s2, x)
      /\ \A y : leased(s2, y) = leased(s, y)
      /\ \A y, t : wakes(s2, y, t) = wakes(s, y, t)
  <2>1. /\ f.thread # Main /\ ~isOn(s, f.thread) /\ f.task \in {None, f.thread}
        /\ (f.by \in {"main", "lua"} => f.task = None /\ ~f.quiet)
        /\ (f.by = "resume" => f.wait # None /\ f.outcome # "none")
        BY <1>2, <1>4, <1>5
  <2> QED
        BY <2>1, <1>1, <1>5, PushLua
<1> HIDE DEF s2
<1>7. /\ d.running_tasks = c.running_tasks \cup {x} /\ d.st[x].status = "Running"
      /\ \A y \in States : y # x => d.st[y] = c.st[y]
      /\ d.live = c.live /\ d.next = c.next /\ d.pending = c.pending
      /\ d.pending_requests = c.pending_requests /\ d.waiters = c.waiters
      /\ d.notifications = c.notifications /\ d.waitBindings = c.waitBindings
      /\ d.ready = c.ready /\ d.errors = c.errors
      BY <1>3 DEF Runs
<1>8. \A y \in States :
        /\ d.st[y].kind = c.st[y].kind /\ d.st[y].handles = c.st[y].handles
        /\ d.st[y].waiters = c.st[y].waiters /\ d.st[y].observed = c.st[y].observed
        /\ d.st[y].reports = c.st[y].reports /\ d.st[y].handler = c.st[y].handler
        /\ d.st[y].teardown = c.st[y].teardown
      BY <1>3 DEF Runs
<1>9. \A y \in States : /\ isTerminalState(d, y) = isTerminalState(c, y)
                        /\ isReady(d, y) = isReady(c, y)
                        /\ isTerminalState(c, y) => y # x /\ d.st[y] = c.st[y]
      BY <1>2, <1>7 DEF isTerminalState, isReady
<1>10. /\ \A t : registration(d, t) = registration(c, t)
       /\ \A y : waitersOf(d, y) = waitersOf(c, y)
       BY <1>7, SameWaits
<1>11. \A t \in Threads :
         /\ c.notifications[t] # None => c.notifications[t].dependency \in States
         /\ c.waiters[t] # None => c.waiters[t].dependency \in States
       BY <1>1, CoreTypes DEF WaitRecord
<1>12. Waits(d)
  <2>1. /\ \A t \in Threads : d.waiters[t] = None \/ d.notifications[t] = None
        /\ d.waitBindings = {t \in Threads : registration(d, t) # None}
        /\ \A y \in States : d.st[y].waiters = Cardinality(waitersOf(d, y))
        BY <1>1, <1>7, <1>8, <1>10 DEF Waits
  <2>2. \A y \in States : d.st[y].waiters > 0 \/ d.st[y].handles > 0 => y \in d.live
        BY <1>1, <1>7, <1>8 DEF Waits
  <2>3. \A t \in Threads : d.notifications[t] # None
                            => isTerminalState(d, d.notifications[t].dependency)
        BY <1>1, <1>7, <1>9, <1>11 DEF Waits
  <2>4. \A t \in d.waitBindings :
          LET r == registration(d, t) IN
          /\ r.task \in {None, t} /\ (r.task # None => t \in d.running_tasks)
          /\ r.expired => r.timed
        BY <1>1, <1>7, <1>10 DEF Waits
  <2> QED
        BY <2>1, <2>2, <2>3, <2>4 DEF Waits
<1>13. Requested(d)
  <2>1. c.pending \subseteq States /\ Requests \subseteq States
        BY <1>1, CoreTypes, StateKinds
  <2>2. {y \in d.pending : d.st[y].kind # "Raw"} = {y \in c.pending : c.st[y].kind # "Raw"}
        BY <2>1, <1>7, <1>8
  <2>3. d.pending_requests = Cardinality({y \in d.pending : d.st[y].kind # "Raw"})
        BY <2>2, <1>1, <1>7 DEF Requested
  <2>4. \A y \in d.pending : /\ y \in d.live /\ d.st[y].status = "Pending"
                             /\ d.st[y].kind \in RequestKinds /\ ~isReady(d, y)
        BY <2>1, <1>1, <1>7, <1>9 DEF Requested
  <2>5. \A y \in States : d.st[y].kind = "none" => d.st[y] = NoState /\ y \notin d.live
        BY <1>1, <1>7, <1>8 DEF Requested
  <2>6. \A y \in Requests : y >= d.next => d.st[y].kind = "none"
        BY <2>1, <1>1, <1>7, <1>8 DEF Requested
  <2>7. \A y \in States \ d.live :
          ~isTerminalState(d, y) => d.st[y].status = "Pending" /\ ~isReady(d, y)
        BY <1>1, <1>7, <1>9 DEF Requested
  <2>8. \A y \in States : d.st[y].status = "Running" <=> y \in d.running_tasks
        BY <1>1, <1>7 DEF Requested
  <2>9. \A y \in States :
          d.st[y].kind = "Raw" => d.st[y].handles = 0 /\ d.st[y].waiters = 0
        BY <1>1, <1>8 DEF Requested
  <2> QED
        BY <2>3, <2>4, <2>5, <2>6, <2>7, <2>8, <2>9 DEF Requested
<1>14. Reported(d)
  <2>1. {y \in States : d.st[y].reports > 0} = {y \in States : c.st[y].reports > 0}
        BY <1>8
  <2>2. ASSUME NEW y \in States
        PROVE  LET r == d.st[y] IN
               /\ r.reports > 0 => r.reports = 1 /\ isTerminalState(d, y)
               /\ r.kind = "Task" /\ r.status = "Failed" /\ y \notin d.live
                    => r.observed \/ r.teardown \/ r.reports = 1
               /\ r.kind = "Task" /\ r.reports > 0 => y \notin d.live /\ ~r.observed
    <3>1. CASE y # x
          BY <3>1, <1>1, <1>7, <1>9 DEF Reported
    <3>2. CASE y = x
      <4>1. ~(c.st[x].reports > 0)
            BY <1>1, <1>2 DEF Reported
      <4> QED
            BY <4>1, <3>2, <1>2, <1>7, <1>8
    <3> QED
          BY <3>1, <3>2
  <2> QED
        BY <2>1, <2>2, <1>1, <1>7 DEF Reported
<1>15. Serial(d)
       BY <1>1, <1>3, <1>8, <1>9, SameSerial DEF Runs, SameEvents
<1>16. Placed(d, s2, l2, F)
  <2>1. l2 \in [Threads -> {"fresh", "live", "dead"}] /\ l2[x] = "live"
        /\ \A t \in Threads : t # x => l2[t] = l[t]
        BY <1>1, <1>2 DEF StackInv, Placed
  <2> HIDE DEF l2
  <2>2. \A t \in d.waitBindings : ~isOn(s2, t)
        BY <1>1, <1>4, <1>6, <1>7 DEF StackInv, Placed
  <2>3. \A y \in d.running_tasks \ F :
          (y \in d.waitBindings /\ registration(d, y).task = y) \/ runs(s2, y)
        BY <1>1, <1>6, <1>7, <1>10 DEF StackInv, Placed
  <2>4. ASSUME NEW i \in DOMAIN s2, s2[i].at = "lua", s2[i].task # None
        PROVE  d.st[s2[i].task].status # "Pending"
    <3>1. CASE i = Len(s) + 1
          BY <3>1, <1>5, <1>6, <1>7
    <3>2. CASE i \in DOMAIN s /\ s2[i] = s[i]
      <4>1. s[i].task \in States
            BY <3>2, <2>4, <1>1, FrameTypes DEF Shape, LuaFrames
      <4>2. c.st[s[i].task].status # "Pending"
            BY <3>2, <2>4, <1>1 DEF StackInv, Placed
      <4> QED
            BY <4>1, <4>2, <3>2, <1>7
    <3> QED
          BY <3>1, <3>2, <1>6
  <2>5. \A y \in States :
          /\ d.st[y].status = "Pending" => l2[y] = "fresh"
          /\ l2[y] = "fresh" => y \notin d.waitBindings /\ ~isOn(s2, y)
        BY <2>1, <1>1, <1>2, <1>6, <1>7, StateKinds DEF StackInv, Placed
  <2> QED
        BY <2>1, <2>2, <2>3, <2>4, <2>5 DEF Placed
<1>17. Retiring(d, s2, E)
  <2>1. c.live \subseteq States
        BY <1>1, CoreTypes
  <2>2. ASSUME NEW i \in DOMAIN s2, s2[i].at = "wake"
        PROVE  isTerminalState(d, s2[i].state)
    <3>1. i \in DOMAIN s /\ s2[i] = s[i]
          BY <2>2, <1>5, <1>6
    <3>2. s[i].state \in States
          BY <3>1, <2>2, <1>1, FrameTypes DEF Shape, WakeFrames
    <3> QED
          BY <3>1, <3>2, <2>2, <1>1, <1>9 DEF StackInv, Retiring
  <2>3. \A y \in d.live \ E :
          isTerminalState(d, y) /\ d.st[y].handles = 0 /\ d.st[y].waiters = 0 => isReady(d, y)
        BY <2>1, <1>1, <1>7, <1>8, <1>9 DEF StackInv, Retiring
  <2> QED
        BY <2>2, <2>3 DEF Retiring
<1>18. Reaching(d, s2, g, F)
       BY <1>1, <1>6, <1>7, <1>9, <1>11 DEF StackInv, Reaching
<1>19. Honest(d, s2)
  <2>1. ASSUME NEW i \in DOMAIN s2, s2[i].at = "lua", s2[i].by = "resume"
        PROVE  LET w == s2[i].wait
                   r == d.st[w.dependency]
               IN /\ s2[i].outcome = "Success" => r.status \in {"Resolved", "Done"}
                  /\ s2[i].outcome = "Failed" => r.status = "Failed" /\ r.observed
                  /\ s2[i].outcome = "Timeout" => w.timed /\ w.expired
    <3>0. i \in DOMAIN s /\ s2[i] = s[i]
          BY <2>1, <1>5, <1>6
    <3>1. s[i].wait.dependency \in States
          BY <3>0, <2>1, <1>1, FrameTypes DEF Shape, LuaFrames, WaitRecord
    <3>2. LET w == s[i].wait
              r == c.st[w.dependency]
          IN /\ s[i].outcome = "Success" => r.status \in {"Resolved", "Done"}
             /\ s[i].outcome = "Failed" => r.status = "Failed" /\ r.observed
             /\ s[i].outcome = "Timeout" => w.timed /\ w.expired
          BY <3>0, <2>1, <1>1 DEF StackInv, Honest
    <3> QED
          BY <3>0, <3>1, <3>2, <1>2, <1>7
  <2> QED
        BY <2>1 DEF Honest
<1>20. Leases(d, s2)
       BY <1>1, <1>6, <1>8 DEF Leases
<1>21. Sound(d, s2, l2, g, E, F)
       BY <1>3, <1>6, <1>12, <1>13, <1>14, <1>15, <1>16, <1>17, <1>18, <1>19, <1>20
       DEF Sound, CoreInv, StackInv
<1> QED
      BY <1>21 DEF d, s2, f

-----------------------------------------------------------------------------
(***************************************************************************)
(* A request is sent, or withdrawn because sending it failed.              *)
(***************************************************************************)

Creates(c, d, x, kind, n, submitted) ==
  /\ d.next = c.next + 1
  /\ d.live = IF submitted THEN c.live \cup {x} ELSE c.live
  /\ d.pending = IF submitted THEN c.pending \cup {x} ELSE c.pending
  /\ d.pending_requests = IF submitted /\ kind # "Raw" THEN c.pending_requests + 1
                          ELSE c.pending_requests
  /\ d.st[x].kind = kind /\ d.st[x].status = "Pending" /\ d.st[x].handles = n
  /\ d.st[x].waiters = 0 /\ d.st[x].reports = 0 /\ ~d.st[x].observed
  /\ \A y \in States : y # x => d.st[y] = c.st[y]
  /\ d.waiters = c.waiters /\ d.notifications = c.notifications
  /\ d.waitBindings = c.waitBindings /\ d.running_tasks = c.running_tasks
  /\ d.ready = c.ready /\ d.errors = c.errors /\ SameEvents(c, d)

newRequest(c, kind, n) == createState([c EXCEPT !.next = @ + 1], c.next, kind, n, 0)

LEMMA NewRequestFields ==
  ASSUME NEW c \in Core, NEW kind \in RequestKinds, NEW n \in 0 .. 1,
         c.next \in Requests, c.next \notin c.live, c.next \notin c.pending
  PROVE  /\ newRequest(c, kind, n) \in Core
         /\ Creates(c, newRequest(c, kind, n), c.next, kind, n, TRUE)
         /\ cancel(newRequest(c, kind, n), c.next) \in Core
         /\ Creates(c, cancel(newRequest(c, kind, n), c.next), c.next, kind, n, FALSE)
<1> DEFINE x == c.next
           a == newRequest(c, kind, n)
           b == cancel(a, x)
           r == [NoState EXCEPT !.kind = kind, !.handles = n, !.handler = 0]
           m == IF kind = "Raw" THEN c.pending_requests ELSE c.pending_requests + 1
           p == IF kind = "Raw" THEN a.pending_requests ELSE a.pending_requests - 1
<1>1. /\ r \in StateRecord /\ r.kind = kind /\ r.status = "Pending"
      /\ r.handles = n /\ r.waiters = 0 /\ r.reports = 0 /\ ~r.observed
  <2>1. 0 \in 0 .. MaxHandlers
        BY BoundsAssumption
  <2>2. n \in Nat
        OBVIOUS
  <2> QED
        BY <2>1, <2>2 DEF NoState, StateRecord, Statuses
<1>2. x \in States /\ x \in Requests /\ c.next + 1 \in Nat /\ kind # "EventTask"
      BY StateKinds, CoreTypes DEF RequestKinds
<1>3. PICK f \in [States -> StateRecord] : f = [c.st EXCEPT ![x] = r]
      BY <1>1, CoreTypes
<1>4. f[x] = r /\ \A y \in States : y # x => f[y] = c.st[y]
      BY <1>2, <1>3, CoreTypes
<1>5. /\ c.live \cup {x} \in SUBSET States /\ c.pending \cup {x} \in SUBSET Requests
      /\ m \in Int /\ c.pending_requests \in Int
      BY <1>2, CoreTypes
<1>6. a = [c EXCEPT !.next = c.next + 1, !.st = f, !.live = c.live \cup {x},
                    !.pending = c.pending \cup {x}, !.pending_requests = m]
  <2> DEFINE e == [c EXCEPT !.next = c.next + 1]
  <2>1. /\ e.st = c.st /\ e.live = c.live /\ e.pending = c.pending
        /\ e.pending_requests = c.pending_requests
        BY DEF Core
  <2>2. a = createState(e, x, kind, n, 0)
        BY DEF newRequest
  <2> HIDE DEF e
  <2>3. a = [e EXCEPT !.st = f, !.live = c.live \cup {x}, !.pending = c.pending \cup {x},
                      !.pending_requests = m]
    <3>1. [e EXCEPT !.st[x] = r, !.live = c.live \cup {x}, !.pending = c.pending \cup {x},
                    !.pending_requests = m]
          = [e EXCEPT !.st = f, !.live = c.live \cup {x}, !.pending = c.pending \cup {x},
                      !.pending_requests = m]
          BY <2>1, <1>3
    <3>2. (IF kind = "EventTask" THEN e.pending ELSE e.pending \cup {x}) = c.pending \cup {x}
          BY <2>1, <1>2
    <3>3. (IF kind \in {"EventTask", "Raw"} THEN e.pending_requests
           ELSE e.pending_requests + 1) = m
          BY <2>1, <1>2
    <3>4. a = [e EXCEPT !.st[x] = [NoState EXCEPT !.kind = kind, !.handles = n,
                                                  !.handler = 0],
                        !.live = e.live \cup {x},
                        !.pending = IF kind = "EventTask" THEN e.pending
                                    ELSE e.pending \cup {x},
                        !.pending_requests = IF kind \in {"EventTask", "Raw"}
                                             THEN e.pending_requests
                                             ELSE e.pending_requests + 1]
          BY <2>2 DEF createState
    <3> HIDE DEF a, m
    <3> QED
          BY <3>1, <3>2, <3>3, <3>4, <2>1
  <2> QED
        BY <2>3 DEF e
<1> HIDE DEF r, m, a
<1>7. a \in Core
  <2>1. c.next \in Nat \ {0}
        BY <1>2, CoreTypes
  <2>2. c.next + 1 \in Nat \ {0}
        BY <2>1
  <2> QED
        BY <2>2, <1>2, <1>5, <1>6 DEF Core
<1>8. /\ a.st = f /\ a.next = c.next + 1 /\ a.live = c.live \cup {x}
      /\ a.pending = c.pending \cup {x} /\ a.pending_requests = m
      /\ a.waiters = c.waiters /\ a.notifications = c.notifications
      /\ a.waitBindings = c.waitBindings /\ a.running_tasks = c.running_tasks
      /\ a.ready = c.ready /\ a.errors = c.errors
      BY <1>6 DEF Core
<1>9. SameEvents(c, a)
      BY <1>6 DEF Core, SameEvents
<1>10. Creates(c, a, x, kind, n, TRUE)
       BY <1>1, <1>4, <1>8, <1>9 DEF Creates, m
<1>11. b = [a EXCEPT !.pending = a.pending \ {x}, !.pending_requests = p,
                     !.live = a.live \ {x}]
  <2>1. a.st[x].kind = kind
        BY <1>1, <1>4, <1>8
  <2> QED
        BY <2>1, <1>7 DEF cancel, untrackPendingRequest, Core
<1>12. /\ p = c.pending_requests /\ a.pending \ {x} = c.pending
       /\ a.live \ {x} = c.live
       BY <1>5, <1>8 DEF m
<1>13. b = [a EXCEPT !.pending = c.pending, !.pending_requests = c.pending_requests,
                     !.live = c.live]
       BY <1>11, <1>12
<1> HIDE DEF b, p
<1>14. b \in Core
       BY <1>7, <1>13 DEF Core
<1>15. /\ b.st = f /\ b.next = c.next + 1 /\ b.live = c.live
       /\ b.pending = c.pending /\ b.pending_requests = c.pending_requests
       /\ b.waiters = c.waiters /\ b.notifications = c.notifications
       /\ b.waitBindings = c.waitBindings /\ b.running_tasks = c.running_tasks
       /\ b.ready = c.ready /\ b.errors = c.errors
       BY <1>7, <1>8, <1>13 DEF Core
<1>16. SameEvents(a, b)
       BY <1>7, <1>13 DEF Core, SameEvents
<1>17. SameEvents(c, b)
       BY <1>9, <1>16 DEF SameEvents
<1>18. Creates(c, b, x, kind, n, FALSE)
       BY <1>1, <1>4, <1>15, <1>17 DEF Creates
<1> QED
       BY <1>7, <1>10, <1>14, <1>18 DEF b, a

LEMMA NextFresh ==
  ASSUME NEW c \in Core, Requested(c), c.next \in Requests
  PROVE  /\ c.next \in States /\ c.st[c.next] = NoState /\ c.st[c.next].kind = "none"
         /\ c.next \notin c.live /\ c.next \notin c.pending
         /\ ~isTerminalState(c, c.next) /\ ~isReady(c, c.next)
<1>1. c.next \in States /\ c.next \in Int
  <2>1. c.next \in Nat
        BY CoreTypes
  <2> QED
        BY <2>1, StateKinds
<1>2. c.st[c.next].kind = "none"
      BY <1>1 DEF Requested
<1>3. c.st[c.next] = NoState /\ c.next \notin c.live
      BY <1>1, <1>2 DEF Requested
<1>4. ~isTerminalState(c, c.next)
      BY <1>3 DEF isTerminalState, NoState
<1> QED
      BY <1>1, <1>2, <1>3, <1>4 DEF Requested

\* request() and its kin, whether the submission succeeds or not.
LEMMA CreateSound ==
  ASSUME NEW c, NEW s, NEW l, NEW g, NEW E, NEW F, Sound(c, s, l, g, E, F),
         c.next \in Requests, NEW kind \in RequestKinds, NEW n \in 0 .. 1,
         NEW submitted \in BOOLEAN, n = 1 => submitted /\ kind # "Raw",
         NEW d \in Core, Creates(c, d, c.next, kind, n, submitted)
  PROVE  Sound(d, s, l, g, E, F)
<1> DEFINE x == c.next
<1>1. /\ c \in Core /\ CoreInv(c) /\ StackInv(c, s, l, g, E, F) /\ Leases(c, s)
      /\ Waits(c) /\ Requested(c) /\ Reported(c) /\ Serial(c) /\ Shape(s)
      BY SoundShape DEF CoreInv
<1>2. /\ x \in States /\ x \in Requests /\ c.st[x] = NoState /\ c.st[x].kind = "none"
      /\ x \notin c.live /\ x \notin c.pending
      /\ ~isTerminalState(c, x) /\ ~isReady(c, x)
      BY <1>1, NextFresh
<1>3. /\ c.st[x].status = "Pending" /\ c.st[x].handles = 0 /\ c.st[x].waiters = 0
      /\ c.st[x].reports = 0
      BY <1>2 DEF NoState
<1>4. /\ d.next = x + 1
      /\ d.live = IF submitted THEN c.live \cup {x} ELSE c.live
      /\ d.pending = IF submitted THEN c.pending \cup {x} ELSE c.pending
      /\ d.pending_requests = IF submitted /\ kind # "Raw" THEN c.pending_requests + 1
                              ELSE c.pending_requests
      /\ d.st[x].kind = kind /\ d.st[x].status = "Pending" /\ d.st[x].handles = n
      /\ d.st[x].waiters = 0 /\ d.st[x].reports = 0 /\ ~d.st[x].observed
      /\ \A y \in States : y # x => d.st[y] = c.st[y]
      /\ d.waiters = c.waiters /\ d.notifications = c.notifications
      /\ d.waitBindings = c.waitBindings /\ d.running_tasks = c.running_tasks
      /\ d.ready = c.ready /\ d.errors = c.errors /\ SameEvents(c, d)
      BY DEF Creates
<1> HIDE DEF x
<1>5. kind # "none" /\ kind # "EventTask"
      BY DEF RequestKinds
<1>6. \A y \in States : /\ isTerminalState(d, y) = isTerminalState(c, y)
                        /\ isReady(d, y) = isReady(c, y)
                        /\ isTerminalState(c, y) => y # x /\ d.st[y] = c.st[y]
                        /\ d.st[y].status = c.st[y].status
      BY <1>2, <1>3, <1>4 DEF isTerminalState, isReady
<1>7. /\ \A t : registration(d, t) = registration(c, t)
      /\ \A y : waitersOf(d, y) = waitersOf(c, y)
      BY <1>4, SameWaits
<1>8. \A t \in Threads :
        /\ c.notifications[t] # None => c.notifications[t].dependency \in States
        /\ c.waiters[t] # None => c.waiters[t].dependency \in States
      BY <1>1, CoreTypes DEF WaitRecord
<1>9. Waits(d)
  <2>1. /\ \A t \in Threads : d.waiters[t] = None \/ d.notifications[t] = None
        /\ d.waitBindings = {t \in Threads : registration(d, t) # None}
        BY <1>1, <1>4, <1>7 DEF Waits
  <2>2. \A y \in States : d.st[y].waiters = Cardinality(waitersOf(d, y))
        BY <1>1, <1>3, <1>4, <1>7 DEF Waits
  <2>3. ASSUME NEW y \in States, d.st[y].waiters > 0 \/ d.st[y].handles > 0
        PROVE  y \in d.live
    <3>1. CASE y = x
          BY <3>1, <2>3, <1>4
    <3>2. CASE y # x
          BY <3>2, <2>3, <1>1, <1>4 DEF Waits
    <3> QED
          BY <3>1, <3>2
  <2>4. \A t \in Threads : d.notifications[t] # None
                            => isTerminalState(d, d.notifications[t].dependency)
        BY <1>1, <1>4, <1>6, <1>8 DEF Waits
  <2>5. \A t \in d.waitBindings :
          LET r == registration(d, t) IN
          /\ r.task \in {None, t} /\ (r.task # None => t \in d.running_tasks)
          /\ r.expired => r.timed
        BY <1>1, <1>4, <1>7 DEF Waits
  <2> QED
        BY <2>1, <2>2, <2>3, <2>4, <2>5 DEF Waits
<1>10. Requested(d)
  <2> DEFINE Old == {y \in c.pending : c.st[y].kind # "Raw"}
             New == {y \in d.pending : d.st[y].kind # "Raw"}
  <2>1. c.pending \subseteq States /\ Requests \subseteq States /\ \A y \in States : y \in Int
    <3>1. \A y \in States : y \in Nat
          BY StateKinds
    <3>2. \A y \in States : y \in Int
          BY <3>1
    <3>3. Requests \subseteq States /\ c.pending \subseteq Requests
          BY <1>1, CoreTypes, StateKinds
    <3> QED
          BY <3>2, <3>3
  <2>2. IsFiniteSet(Old) /\ Cardinality(Old) \in Nat
        BY <2>1, ThreadsFinite
  <2>3. d.pending_requests = Cardinality(New)
    <3>1. c.pending_requests = Cardinality(Old)
          BY <1>1 DEF Requested
    <3>2. CASE submitted /\ kind # "Raw"
      <4>1. New = Old \cup {x} /\ x \notin Old
            BY <3>2, <2>1, <1>2, <1>4
      <4>2. Cardinality(New) = Cardinality(Old) + 1
            BY <4>1, <2>2, FS_AddElement
      <4> HIDE DEF Old, New
      <4> QED
            BY <4>2, <3>1, <3>2, <1>4
    <3>3. CASE ~(submitted /\ kind # "Raw")
      <4>1. New = Old
            BY <3>3, <2>1, <1>2, <1>4
      <4> HIDE DEF Old, New
      <4> QED
            BY <4>1, <3>1, <3>3, <1>4
    <3> QED
          BY <3>2, <3>3
  <2>4. ASSUME NEW y \in d.pending
        PROVE  /\ y \in d.live /\ d.st[y].status = "Pending"
               /\ d.st[y].kind \in RequestKinds /\ ~isReady(d, y)
    <3>1. CASE y = x
      <4>1. submitted
            BY <3>1, <2>4, <1>2, <1>4
      <4> QED
            BY <4>1, <3>1, <1>2, <1>4, <1>6
    <3>2. CASE y # x
      <4>1. y \in c.pending
            BY <3>2, <2>4, <1>4
      <4> QED
            BY <4>1, <3>2, <2>1, <1>1, <1>4, <1>6 DEF Requested
    <3> QED
          BY <3>1, <3>2
  <2>5. \A y \in States : d.st[y].kind = "none" => d.st[y] = NoState /\ y \notin d.live
        BY <1>1, <1>2, <1>4, <1>5 DEF Requested
  <2>6. \A y \in Requests : y >= d.next => d.st[y].kind = "none"
    <3>1. \A y \in Requests : y >= x + 1 => y # x /\ y >= x
          BY <2>1, <1>2, StateKinds
    <3>2. x = c.next
          BY DEF x
    <3> QED
        BY <3>1, <3>2, <2>1, <1>1, <1>4 DEF Requested
  <2>7. ASSUME NEW y \in States \ d.live, ~isTerminalState(d, y)
        PROVE  d.st[y].status = "Pending" /\ ~isReady(d, y)
    <3>1. CASE y = x
          BY <3>1, <1>2, <1>4, <1>6
    <3>2. CASE y # x
          BY <3>2, <2>7, <1>1, <1>4, <1>6 DEF Requested
    <3> QED
          BY <3>1, <3>2
  <2>8. \A y \in States : d.st[y].status = "Running" <=> y \in d.running_tasks
        BY <1>1, <1>4, <1>6 DEF Requested
  <2>9. ASSUME NEW y \in States, d.st[y].kind = "Raw"
        PROVE  d.st[y].handles = 0 /\ d.st[y].waiters = 0
    <3>1. CASE y = x
      <4>1. n = 0
            BY <3>1, <2>9, <1>4
      <4> QED
            BY <4>1, <3>1, <1>4
    <3>2. CASE y # x
          BY <3>2, <2>9, <1>1, <1>4 DEF Requested
    <3> QED
          BY <3>1, <3>2
  <2> HIDE DEF New, Old
  <2> QED
        BY <2>3, <2>4, <2>5, <2>6, <2>7, <2>8, <2>9 DEF Requested, New
<1>11. Reported(d)
  <2>1. {y \in States : d.st[y].reports > 0} = {y \in States : c.st[y].reports > 0}
    <3>1. \A y \in States : d.st[y].reports = c.st[y].reports
          BY <1>3, <1>4
    <3> QED
        BY <3>1
  <2>2. ASSUME NEW y \in States
        PROVE  LET r == d.st[y] IN
               /\ r.reports > 0 => r.reports = 1 /\ isTerminalState(d, y)
               /\ r.kind = "Task" /\ r.status = "Failed" /\ y \notin d.live
                    => r.observed \/ r.teardown \/ r.reports = 1
               /\ r.kind = "Task" /\ r.reports > 0 => y \notin d.live /\ ~r.observed
    <3>1. CASE y # x
          BY <3>1, <1>1, <1>4, <1>6 DEF Reported
    <3>2. CASE y = x
          BY <3>2, <1>4
    <3> QED
          BY <3>1, <3>2
  <2> QED
        BY <2>1, <2>2, <1>1, <1>4 DEF Reported
<1>12. Serial(d)
  <2>1. x \notin EventIds /\ EventIds \subseteq States
        BY <1>2, StateKinds
  <2>2. /\ d.deferred_events = c.deferred_events /\ d.event = c.event
        /\ d.handler = c.handler /\ d.handlers = c.handlers /\ d.current = c.current
        BY <1>4 DEF SameEvents
  <2>3. \A y \in EventIds : /\ d.st[y] = c.st[y]
                            /\ isTerminalState(d, y) = isTerminalState(c, y)
        BY <2>1, <1>4, <1>6
  <2>4. /\ \A h, y : inQueue(d, h, y) = inQueue(c, h, y)
        /\ \A h : \A y \in EventIds : eventOf(d, h, y) = eventOf(c, h, y)
        /\ \A y \in EventIds : isBound(d, y) = isBound(c, y)
        BY <2>2, <2>3 DEF inQueue, eventOf, isBound
  <2>5. Arrivals(d)
    <3>1. \A y \in States : d.st[y].kind = "EventTask" =>
            y \in EventIds /\ d.st[y].handler \in 1 .. d.handlers
          BY <2>2, <1>1, <1>4, <1>5 DEF Serial, Arrivals
    <3> QED
        BY <3>1, <2>2, <2>3, <2>4, <1>1 DEF Serial, Arrivals
  <2>6. Queues(d)
        BY <2>2, <2>3, <2>4, <1>1 DEF Serial, Queues
  <2>7. OneAtATime(d)
        BY <2>2, <2>3, <2>4, <1>1 DEF Serial, OneAtATime
  <2> QED
        BY <2>5, <2>6, <2>7 DEF Serial
<1>13. Placed(d, s, l, F)
  <2>1. \A i \in DOMAIN s : s[i].at = "lua" /\ s[i].task # None => s[i].task \in States
        BY <1>1, FrameTypes DEF Shape, LuaFrames
  <2> QED
        BY <2>1, <1>1, <1>4, <1>6, <1>7 DEF StackInv, Placed
<1>14. Retiring(d, s, E)
  <2>1. \A i \in DOMAIN s : s[i].at = "wake" => s[i].state \in States
        BY <1>1, FrameTypes DEF Shape, WakeFrames
  <2>2. c.live \subseteq States
        BY <1>1, CoreTypes
  <2>3. \A i \in DOMAIN s : s[i].at = "wake" => isTerminalState(d, s[i].state)
        BY <2>1, <1>1, <1>6 DEF StackInv, Retiring
  <2>4. ASSUME NEW y \in d.live \ E, isTerminalState(d, y), d.st[y].handles = 0,
               d.st[y].waiters = 0
        PROVE  isReady(d, y)
    <3>1. y # x /\ y \in c.live /\ y \in States
          BY <2>2, <2>4, <1>2, <1>4, <1>6
    <3> QED
          BY <3>1, <2>4, <1>1, <1>4, <1>6 DEF StackInv, Retiring
  <2> QED
        BY <2>3, <2>4 DEF Retiring
<1>15. Reaching(d, s, g, F)
       BY <1>1, <1>4, <1>6, <1>8 DEF StackInv, Reaching
<1>16. Honest(d, s)
  <2>1. ASSUME NEW i \in DOMAIN s, s[i].at = "lua", s[i].by = "resume"
        PROVE  LET w == s[i].wait
                   r == d.st[w.dependency]
               IN /\ s[i].outcome = "Success" => r.status \in {"Resolved", "Done"}
                  /\ s[i].outcome = "Failed" => r.status = "Failed" /\ r.observed
                  /\ s[i].outcome = "Timeout" => w.timed /\ w.expired
    <3>1. s[i].wait.dependency \in States
          BY <2>1, <1>1, FrameTypes DEF Shape, LuaFrames, WaitRecord
    <3>2. LET w == s[i].wait
              r == c.st[w.dependency]
          IN /\ s[i].outcome = "Success" => r.status \in {"Resolved", "Done"}
             /\ s[i].outcome = "Failed" => r.status = "Failed" /\ r.observed
             /\ s[i].outcome = "Timeout" => w.timed /\ w.expired
          BY <2>1, <1>1 DEF StackInv, Honest
    <3> QED
          BY <3>1, <3>2, <1>3, <1>4
  <2> QED
        BY <2>1 DEF Honest
<1>17. Leases(d, s)
  <2>1. n \in 0 .. 2 /\ (~leased(s, x) => n \in 0 .. 1)
        OBVIOUS
  <2>2. ~leased(s, x)
        BY <1>1, <1>2, <1>3 DEF Leases
  <2>3. ASSUME NEW y \in States
        PROVE  IF leased(s, y) THEN d.st[y].handles \in 1 .. 2 ELSE d.st[y].handles \in 0 .. 1
    <3>1. CASE y = x
          BY <3>1, <2>2, <1>4
    <3>2. CASE y # x
          BY <3>2, <1>1, <1>4 DEF Leases
    <3> QED
          BY <3>1, <3>2
  <2> QED
        BY <2>3 DEF Leases
<1> QED
      BY <1>1, <1>9, <1>10, <1>11, <1>12, <1>13, <1>14, <1>15, <1>16, <1>17
      DEF Sound, CoreInv, StackInv

-----------------------------------------------------------------------------
(***************************************************************************)
(* The response to a request.                                              *)
(***************************************************************************)

Routes(c, d, x, status, r) ==
  /\ d.pending = c.pending \ {x}
  /\ d.pending_requests = IF c.st[x].kind = "Raw" THEN c.pending_requests
                          ELSE c.pending_requests - 1
  /\ d.st[x].status = status /\ d.ready = r
  /\ d.st[x].kind = c.st[x].kind /\ d.st[x].handles = c.st[x].handles
  /\ d.st[x].waiters = c.st[x].waiters /\ d.st[x].observed = c.st[x].observed
  /\ d.st[x].reports = c.st[x].reports /\ d.st[x].handler = c.st[x].handler
  /\ d.st[x].teardown = c.st[x].teardown
  /\ \A y \in States : y # x => d.st[y] = c.st[y]
  /\ d.live = c.live /\ d.next = c.next /\ d.waiters = c.waiters
  /\ d.notifications = c.notifications /\ d.waitBindings = c.waitBindings
  /\ d.running_tasks = c.running_tasks /\ d.errors = c.errors /\ SameEvents(c, d)

route(c, x, status, r) ==
  [untrackPendingRequest(c, x) EXCEPT !.st[x].status = status, !.ready = r]

LEMMA RouteFields ==
  ASSUME NEW c \in Core, NEW x \in States, NEW status \in Statuses, NEW r \in Seq(States)
  PROVE  route(c, x, status, r) \in Core /\ Routes(c, route(c, x, status, r), x, status, r)
<1> DEFINE d == route(c, x, status, r)
           q == [c.st[x] EXCEPT !.status = status]
           n == IF c.st[x].kind = "Raw" THEN c.pending_requests ELSE c.pending_requests - 1
<1>1. c.st[x] \in StateRecord
      BY StateTypes
<1>2. /\ q \in StateRecord /\ q.status = status
      /\ q.kind = c.st[x].kind /\ q.waiters = c.st[x].waiters
      /\ q.handles = c.st[x].handles /\ q.handler = c.st[x].handler
      /\ q.observed = c.st[x].observed /\ q.teardown = c.st[x].teardown
      /\ q.reports = c.st[x].reports
      BY <1>1 DEF StateRecord
<1>3. PICK f \in [States -> StateRecord] : f = [c.st EXCEPT ![x] = q]
      BY <1>2, CoreTypes
<1>4. \A y \in States : f[y] = IF y = x THEN q ELSE c.st[y]
      BY <1>3, CoreTypes
<1>5. c.pending \ {x} \in SUBSET Requests /\ n \in Int
      BY CoreTypes
<1>6. d = [c EXCEPT !.pending = c.pending \ {x}, !.pending_requests = n, !.st = f,
                    !.ready = r]
  <2> DEFINE u == [c EXCEPT !.pending = c.pending \ {x}, !.pending_requests = n]
  <2>1. u = untrackPendingRequest(c, x)
        BY DEF untrackPendingRequest
  <2>2. u.st = c.st
        BY DEF Core
  <2>3. d = [u EXCEPT !.st[x].status = status, !.ready = r]
        BY <2>1 DEF route
  <2> HIDE DEF u
  <2>4. d = [u EXCEPT !.st = f, !.ready = r]
        BY <2>2, <2>3, <1>3
  <2> QED
        BY <2>4 DEF u
<1> HIDE DEF q, n
<1>7. d \in Core
      BY <1>5, <1>6, ZenonT(40) DEF Core
<1>8. /\ d.pending = c.pending \ {x} /\ d.pending_requests = n /\ d.st = f /\ d.ready = r
      /\ d.live = c.live /\ d.next = c.next /\ d.waiters = c.waiters
      /\ d.notifications = c.notifications /\ d.waitBindings = c.waitBindings
      /\ d.running_tasks = c.running_tasks /\ d.errors = c.errors
      BY <1>6 DEF Core
<1>9. SameEvents(c, d)
      BY <1>6 DEF Core, SameEvents
<1> HIDE DEF d
<1>10. Routes(c, d, x, status, r)
       BY <1>2, <1>4, <1>8, <1>9 DEF Routes, n
<1> QED
      BY <1>7, <1>10 DEF d

\* A raw request is done and is to be retired; any other gets ready.
LEMMA RouteSound ==
  ASSUME NEW c, NEW s, NEW l, NEW g, NEW E, NEW F, Sound(c, s, l, g, E, F),
         NEW x \in c.pending, NEW status, NEW r, NEW d \in Core, Routes(c, d, x, status, r),
         NEW X,
         \/ c.st[x].kind = "Raw" /\ status = "Done" /\ r = c.ready /\ X = {x}
         \/ status \in {"Pending", "Resolved"} /\ r = Append(c.ready, x) /\ X = {}
  PROVE  Sound(d, s, l, g, E \cup X, F)
<1>1. /\ c \in Core /\ CoreInv(c) /\ StackInv(c, s, l, g, E, F) /\ Leases(c, s)
      /\ Waits(c) /\ Requested(c) /\ Reported(c) /\ Serial(c) /\ Shape(s)
      BY SoundShape DEF CoreInv
<1>2. /\ x \in States /\ x \in c.live /\ c.st[x].status = "Pending"
      /\ c.st[x].kind \in RequestKinds /\ ~isReady(c, x) /\ ~isTerminalState(c, x)
  <2>1. x \in States
        BY <1>1, CoreTypes, StateKinds
  <2> QED
        BY <2>1, <1>1 DEF Requested, isTerminalState
<1>3. ~(c.st[x].reports > 0)
      BY <1>1, <1>2 DEF Reported
<1>4. /\ d.pending = c.pending \ {x}
      /\ d.pending_requests = IF c.st[x].kind = "Raw" THEN c.pending_requests
                              ELSE c.pending_requests - 1
      /\ d.st[x].status = status /\ d.ready = r
      /\ \A y \in States : y # x => d.st[y] = c.st[y]
      /\ d.live = c.live /\ d.next = c.next /\ d.waiters = c.waiters
      /\ d.notifications = c.notifications /\ d.waitBindings = c.waitBindings
      /\ d.running_tasks = c.running_tasks /\ d.errors = c.errors
      BY DEF Routes
<1>5. \A y \in States :
        /\ d.st[y].kind = c.st[y].kind /\ d.st[y].handles = c.st[y].handles
        /\ d.st[y].waiters = c.st[y].waiters /\ d.st[y].observed = c.st[y].observed
        /\ d.st[y].reports = c.st[y].reports /\ d.st[y].handler = c.st[y].handler
        /\ d.st[y].teardown = c.st[y].teardown
      BY DEF Routes
<1>6. \A y : isReady(d, y) <=> isReady(c, y) \/ (X = {} /\ y = x)
  <2>1. CASE r = c.ready /\ X = {x}
        BY <2>1, <1>4 DEF isReady
  <2>2. CASE r = Append(c.ready, x) /\ X = {}
    <3>1. d.ready = Append(c.ready, x)
          BY <2>2, <1>4
    <3>2. \A y : isReady(d, y) <=> isReady(c, y) \/ y = x
          BY <3>1, <1>1, AppendReady
    <3> QED
          BY <3>2, <2>2
  <2> QED
        BY <2>1, <2>2
<1>7. /\ status # "Running" /\ (status = "Done" => X = {x}) /\ status # "Failed"
      /\ X \subseteq {x}
      /\ status = "Done" => c.st[x].kind = "Raw"
      OBVIOUS
<1>8. \A y \in States :
        /\ isTerminalState(c, y) => y # x /\ isTerminalState(d, y) /\ d.st[y] = c.st[y]
        /\ isTerminalState(d, y) => y = x \/ isTerminalState(c, y)
        /\ d.st[y].status = "Pending" => c.st[y].status = "Pending"
      BY <1>2, <1>4 DEF isTerminalState
<1>9. /\ \A t : registration(d, t) = registration(c, t)
      /\ \A y : waitersOf(d, y) = waitersOf(c, y)
      BY <1>4, SameWaits
<1>10. \A t \in Threads :
        /\ c.notifications[t] # None => c.notifications[t].dependency \in States
        /\ c.waiters[t] # None => c.waiters[t].dependency \in States
      BY <1>1, CoreTypes DEF WaitRecord
<1>11. Waits(d)
  <2>1. /\ \A t \in Threads : d.waiters[t] = None \/ d.notifications[t] = None
        /\ d.waitBindings = {t \in Threads : registration(d, t) # None}
        /\ \A y \in States : d.st[y].waiters = Cardinality(waitersOf(d, y))
        BY <1>1, <1>4, <1>5, <1>9 DEF Waits
  <2>2. \A y \in States : d.st[y].waiters > 0 \/ d.st[y].handles > 0 => y \in d.live
        BY <1>1, <1>4, <1>5 DEF Waits
  <2>3. \A t \in Threads : d.notifications[t] # None
                            => isTerminalState(d, d.notifications[t].dependency)
        BY <1>1, <1>4, <1>8, <1>10 DEF Waits
  <2>4. \A t \in d.waitBindings :
          LET q == registration(d, t) IN
          /\ q.task \in {None, t} /\ (q.task # None => t \in d.running_tasks)
          /\ q.expired => q.timed
        BY <1>1, <1>4, <1>9 DEF Waits
  <2> QED
        BY <2>1, <2>2, <2>3, <2>4 DEF Waits
<1>12. Requested(d)
  <2> DEFINE Old == {y \in c.pending : c.st[y].kind # "Raw"}
             New == {y \in d.pending : d.st[y].kind # "Raw"}
  <2>1. c.pending \subseteq States /\ Requests \subseteq States
        BY <1>1, CoreTypes, StateKinds
  <2>2. IsFiniteSet(Old) /\ Cardinality(Old) \in Nat
        BY <2>1, ThreadsFinite
  <2>3. d.pending_requests = Cardinality(New)
    <3>1. c.pending_requests = Cardinality(Old)
          BY <1>1 DEF Requested
    <3>2. CASE c.st[x].kind # "Raw"
      <4>1. New = Old \ {x} /\ x \in Old
            BY <3>2, <2>1, <1>4, <1>5
      <4> HIDE DEF Old, New
      <4>2. Cardinality(New) = Cardinality(Old) - 1
            BY <4>1, <2>2, FS_RemoveElement
      <4> QED
            BY <4>2, <3>1, <3>2, <1>4
    <3>3. CASE c.st[x].kind = "Raw"
      <4>1. New = Old
            BY <3>3, <2>1, <1>4, <1>5
      <4> HIDE DEF Old, New
      <4> QED
            BY <4>1, <3>1, <3>3, <1>4
    <3> QED
          BY <3>2, <3>3
  <2>4. \A y \in d.pending : /\ y \in d.live /\ d.st[y].status = "Pending"
                             /\ d.st[y].kind \in RequestKinds /\ ~isReady(d, y)
        BY <2>1, <1>1, <1>4, <1>6 DEF Requested
  <2>5. \A y \in States : d.st[y].kind = "none" => d.st[y] = NoState /\ y \notin d.live
    <3>1. c.st[x].kind # "none"
          BY <1>2 DEF RequestKinds
    <3> QED
        BY <3>1, <1>1, <1>4, <1>5 DEF Requested
  <2>6. \A y \in Requests : y >= d.next => d.st[y].kind = "none"
        BY <2>1, <1>1, <1>4, <1>5 DEF Requested
  <2>7. \A y \in States \ d.live :
          ~isTerminalState(d, y) => d.st[y].status = "Pending" /\ ~isReady(d, y)
        BY <1>1, <1>2, <1>4, <1>6, <1>8 DEF Requested
  <2>8. \A y \in States : d.st[y].status = "Running" <=> y \in d.running_tasks
        BY <1>1, <1>2, <1>4, <1>7 DEF Requested
  <2>9. \A y \in States :
          d.st[y].kind = "Raw" => d.st[y].handles = 0 /\ d.st[y].waiters = 0
        BY <1>1, <1>5 DEF Requested
  <2> HIDE DEF New, Old
  <2> QED
        BY <2>3, <2>4, <2>5, <2>6, <2>7, <2>8, <2>9 DEF Requested, New
<1>13. Reported(d)
  <2>1. {y \in States : d.st[y].reports > 0} = {y \in States : c.st[y].reports > 0}
        BY <1>5
  <2>2. ASSUME NEW y \in States
        PROVE  LET q == d.st[y] IN
               /\ q.reports > 0 => q.reports = 1 /\ isTerminalState(d, y)
               /\ q.kind = "Task" /\ q.status = "Failed" /\ y \notin d.live
                    => q.observed \/ q.teardown \/ q.reports = 1
               /\ q.kind = "Task" /\ q.reports > 0 => y \notin d.live /\ ~q.observed
    <3>1. CASE y # x
          BY <3>1, <1>1, <1>4, <1>8 DEF Reported
    <3>2. CASE y = x
          BY <3>2, <1>3, <1>4, <1>5, <1>7
    <3> QED
          BY <3>1, <3>2
  <2> QED
        BY <2>1, <2>2, <1>1, <1>4 DEF Reported
<1>14. Serial(d)
       BY <1>1, <1>5, <1>8, SameSerial DEF Routes, SameEvents
<1>15. Placed(d, s, l, F)
  <2>1. \A i \in DOMAIN s : s[i].at = "lua" /\ s[i].task # None => s[i].task \in States
        BY <1>1, FrameTypes DEF Shape, LuaFrames
  <2>2. \A i \in DOMAIN s :
          s[i].at = "lua" /\ s[i].task # None => d.st[s[i].task].status # "Pending"
        BY <2>1, <1>1, <1>8 DEF StackInv, Placed
  <2>3. /\ l \in [Threads -> {"fresh", "live", "dead"}]
        /\ \A t \in d.waitBindings : ~isOn(s, t)
        /\ \A y \in d.running_tasks \ F :
             (y \in d.waitBindings /\ registration(d, y).task = y) \/ runs(s, y)
        BY <1>1, <1>4, <1>9 DEF StackInv, Placed
  <2>4. \A y \in States :
          /\ d.st[y].status = "Pending" => l[y] = "fresh"
          /\ l[y] = "fresh" => y \notin d.waitBindings /\ ~isOn(s, y)
        BY <1>1, <1>4, <1>8 DEF StackInv, Placed
  <2> QED
        BY <2>2, <2>3, <2>4 DEF Placed
<1>16. Retiring(d, s, E \cup X)
  <2>1. \A i \in DOMAIN s : s[i].at = "wake" => s[i].state \in States
        BY <1>1, FrameTypes DEF Shape, WakeFrames
  <2>2. c.live \subseteq States
        BY <1>1, CoreTypes
  <2>3. \A i \in DOMAIN s : s[i].at = "wake" => isTerminalState(d, s[i].state)
        BY <2>1, <1>1, <1>8 DEF StackInv, Retiring
  <2>4. ASSUME NEW y \in d.live \ (E \cup X), isTerminalState(d, y), d.st[y].handles = 0,
               d.st[y].waiters = 0
        PROVE  isReady(d, y)
    <3>1. CASE y = x
          BY <3>1, <2>4, <1>6
    <3>2. CASE y # x
      <4>1. y \in c.live \ E /\ y \in States
            BY <2>2, <2>4, <1>4
      <4> QED
            BY <4>1, <3>2, <2>4, <1>1, <1>5, <1>6, <1>8 DEF StackInv, Retiring
    <3> QED
          BY <3>1, <3>2
  <2> QED
        BY <2>3, <2>4 DEF Retiring
<1>17. Reaching(d, s, g, F)
  <2>1. ASSUME NEW t \in Threads, d.waiters[t] # None,
               isTerminalState(d, d.waiters[t].dependency), d.waiters[t].dependency \notin F
        PROVE  isReady(d, d.waiters[t].dependency) \/ t \in g
               \/ wakes(s, d.waiters[t].dependency, t)
    <3>1. d.waiters[t] = c.waiters[t] /\ c.waiters[t].dependency \in States
          BY <2>1, <1>4, <1>10
    <3>2. CASE c.waiters[t].dependency = x
      <4>1. CASE X = {}
            BY <4>1, <3>1, <3>2, <1>6
      <4>2. CASE X = {x}
        <5>1. c.st[x].kind = "Raw"
              BY <4>2
        <5>2. registration(c, t) # None /\ registration(c, t).dependency = x
              BY <3>1, <3>2, <2>1 DEF registration
        <5>3. c.st[x].waiters > 0
              BY <5>2, <1>1, WaiterCounted
        <5> QED
              BY <5>1, <5>3, <1>1, <1>2 DEF Requested
      <4> QED
            BY <4>1, <4>2
    <3>3. CASE c.waiters[t].dependency # x
      <4>1. isTerminalState(c, c.waiters[t].dependency)
            BY <3>1, <3>3, <2>1, <1>8
      <4> QED
            BY <4>1, <3>1, <2>1, <1>1, <1>6 DEF StackInv, Reaching
    <3> QED
          BY <3>2, <3>3
  <2> QED
        BY <2>1 DEF Reaching
<1>18. Honest(d, s)
  <2>1. ASSUME NEW i \in DOMAIN s, s[i].at = "lua", s[i].by = "resume"
        PROVE  LET w == s[i].wait
                   q == d.st[w.dependency]
               IN /\ s[i].outcome = "Success" => q.status \in {"Resolved", "Done"}
                  /\ s[i].outcome = "Failed" => q.status = "Failed" /\ q.observed
                  /\ s[i].outcome = "Timeout" => w.timed /\ w.expired
    <3>1. s[i].wait.dependency \in States
          BY <2>1, <1>1, FrameTypes DEF Shape, LuaFrames, WaitRecord
    <3>2. LET w == s[i].wait
              q == c.st[w.dependency]
          IN /\ s[i].outcome = "Success" => q.status \in {"Resolved", "Done"}
             /\ s[i].outcome = "Failed" => q.status = "Failed" /\ q.observed
             /\ s[i].outcome = "Timeout" => w.timed /\ w.expired
          BY <2>1, <1>1 DEF StackInv, Honest
    <3> QED
          BY <3>1, <3>2, <1>2, <1>4
  <2> QED
        BY <2>1 DEF Honest
<1>19. Leases(d, s)
       BY <1>1, <1>5 DEF Leases
<1> QED
      BY <1>1, <1>11, <1>12, <1>13, <1>14, <1>15, <1>16, <1>17, <1>18, <1>19
      DEF Sound, CoreInv, StackInv

LEMMA ResponseSound ==
  ASSUME NEW c, NEW s, NEW l, NEW g, NEW F, Sound(c, s, l, g, {}, F), NEW x \in c.pending
  PROVE  Sound(routeResponse(c, x), s, l, g, {}, F)
<1>1. c \in Core /\ x \in States /\ c.ready \in Seq(States)
  <2>1. c \in Core
        BY SoundShape
  <2> QED
        BY <2>1, CoreTypes, StateKinds
<1>2. Append(c.ready, x) \in Seq(States)
      BY <1>1
<1> DEFINE u == untrackPendingRequest(c, x)
<1>3. u.st = c.st /\ u.ready = c.ready
      BY <1>1 DEF untrackPendingRequest, Core
<1>4. CASE c.st[x].kind = "Raw"
  <2> DEFINE d == route(c, x, "Done", c.ready)
  <2>1. routeResponse(c, x) = retireState(d, x)
        BY <1>3, <1>4 DEF routeResponse, route
  <2>2. d \in Core /\ Routes(c, d, x, "Done", c.ready)
    <3>1. "Done" \in Statuses
          BY DEF Statuses
    <3> QED
          BY <3>1, <1>1, RouteFields
  <2> HIDE DEF d
  <2>3. Sound(d, s, l, g, {x}, F)
    <3>1. Sound(d, s, l, g, {} \cup {x}, F)
          BY <2>2, <1>4, RouteSound
    <3> QED
          BY <3>1
  <2>4. Sound(retireState(d, x), s, l, g, {x} \ {x}, F)
        BY <2>3, <1>1, RetireSound
  <2>5. {x} \ {x} = {}
        OBVIOUS
  <2> QED
        BY <2>1, <2>4, <2>5
<1>5. CASE c.st[x].kind # "Raw"
  <2> DEFINE status == IF isTaskState(u, x) THEN "Pending" ELSE "Resolved"
             d == route(c, x, status, Append(c.ready, x))
  <2>1. routeResponse(c, x) = d
        BY <1>3, <1>5 DEF routeResponse, route
  <2>2. status \in Statuses /\ status \in {"Pending", "Resolved"}
        BY DEF Statuses
  <2> HIDE DEF status
  <2>3. d \in Core /\ Routes(c, d, x, status, Append(c.ready, x))
        BY <2>2, <1>1, <1>2, RouteFields
  <2> HIDE DEF d
  <2>4. Sound(d, s, l, g, {} \cup {}, F)
        BY <2>2, <2>3, RouteSound
  <2>5. {} \cup {} = {}
        OBVIOUS
  <2> QED
        BY <2>1, <2>4, <2>5
<1> QED
      BY <1>4, <1>5

-----------------------------------------------------------------------------
(***************************************************************************)
(* What the transport delivers.                                            *)
(***************************************************************************)

LEMMA DispatchSound ==
  ASSUME NEW c, NEW s, NEW l, NEW g, Sound(c, s, l, g, {}, {}),
         NEW item \in Items,
         item.kind = "response" => item.id \in c.pending,
         item.kind = "update" => c.event \in EventIds
  PROVE  Sound(dispatch(c, item), s, l, g, {}, {})
<1>1. c \in Core
      BY SoundShape
<1>2. CASE item.kind = "response"
  <2>1. dispatch(c, item) = routeResponse(c, item.id)
        BY <1>2 DEF dispatch
  <2> QED
        BY <2>1, <1>2, ResponseSound
<1>3. CASE item.kind = "update"
  <2>1. [c EXCEPT !.event = @ + 1].deferred_events = c.deferred_events
        BY <1>1 DEF Core
  <2>2. dispatch(c, item) \in
          {[c EXCEPT !.event = c.event + 1],
           [c EXCEPT !.event = c.event + 1,
                     !.deferred_events = Append(c.deferred_events, c.event)]}
        BY <2>1, <1>3 DEF dispatch
  <2>3. c.event \in EventIds
        BY <1>3
  <2>4. /\ Sound([c EXCEPT !.event = c.event + 1], s, l, g, {}, {})
        /\ Sound([c EXCEPT !.event = c.event + 1,
                           !.deferred_events = Append(c.deferred_events, c.event)],
                 s, l, g, {}, {})
        BY <2>3, UpdateSound
  <2> QED
        BY <2>2, <2>4
<1>4. CASE item.kind = "closed"
  <2> DEFINE d == [c EXCEPT !.detach_after_drain = TRUE]
  <2>1. dispatch(c, item) = d
        BY <1>4 DEF dispatch
  <2>2. d \in Core /\ SameStates(c, d) /\ SameEvents(c, d) /\ d.errors = c.errors
        BY <1>1 DEF Core, SameStates, SameEvents
  <2>3. d.errors <= c.errors
        BY <2>2, <1>1, CoreTypes
  <2> HIDE DEF d
  <2> QED
        BY <2>1, <2>2, <2>3, FlagsSound
<1>5. CASE item.kind = "failure"
  <2>1. dispatch(c, item) = detachTransport(c)
        BY <1>5 DEF dispatch
  <2> QED
        BY <2>1, DetachSound
<1>6. CASE item.kind = "none"
  <2>1. dispatch(c, item) = c
        BY <1>6 DEF dispatch
  <2> QED
        BY <2>1
<1> QED
      BY <1>2, <1>3, <1>4, <1>5, <1>6 DEF Items

\* A tick() is called, below it what rethrows the failure of the receiver.
LEMMA PumpSound ==
  ASSUME NEW c, c = core, NEW s, NEW l, NEW g, Sound(c, s, l, g, {}, {}),
         NEW item \in Items,
         item.kind = "response" => item.id \in c.pending,
         item.kind = "update" => c.event \in EventIds,
         pumpOnto(s, item)
  PROVE  Sound(core', stack', l, g, woken(stack'), {})
<1> DEFINE d == dispatch(c, item)
           throw == [at |-> "throw"]
           s1 == IF item.kind = "failure" THEN Append(s, throw) ELSE s
<1>1. Sound(d, s, l, g, {}, {})
      BY DispatchSound
<1>2. core' = d
      BY DEF pumpOnto
<1> HIDE DEF d
<1>3. s \in Seq(Frames) /\ throw \in Frames /\ TickFrame \in Frames
  <2>1. s \in Seq(Frames)
        BY SoundShape
  <2>2. throw \in DriveFrames
        BY DEF DriveFrames
  <2>3. TickFrame \in TickFrames
        BY DEF TickFrame, TickFrames, Ticking
  <2> QED
        BY <2>1, <2>2, <2>3 DEF Frames
<1>4. Sound(d, s1, l, g, {}, {})
  <2>1. throw.at \notin {"lua", "wake"} \cup Waiting
        BY DEF Waiting
  <2>2. Sound(d, Append(s, throw), l, g, {}, {})
        BY <2>1, <1>1, <1>3, PushPlain
  <2> QED
        BY <2>2, <1>1
<1>5. stack' = Append(s1, TickFrame)
  <2>1. \A q \in Seq(Frames) : q \o <<>> = q /\ \A f \in Frames : q \o <<f>> = Append(q, f)
        OBVIOUS
  <2>2. Append(s, throw) \in Seq(Frames)
        BY <1>3
  <2> HIDE DEF throw
  <2>3. CASE item.kind = "failure"
    <3>1. stack' = (s \o <<throw>>) \o <<TickFrame>>
          BY <2>3 DEF pumpOnto, throw
    <3> QED
          BY <3>1, <2>1, <2>2, <2>3, <1>3
  <2>4. CASE item.kind # "failure"
    <3>1. stack' = (s \o <<>>) \o <<TickFrame>>
          BY <2>4 DEF pumpOnto
    <3> QED
          BY <3>1, <2>1, <2>4, <1>3
  <2> QED
        BY <2>3, <2>4
<1> HIDE DEF s1
<1>6. TickFrame.at \notin {"lua", "wake"} \cup Waiting
      BY DEF TickFrame, Waiting
<1>7. Sound(d, stack', l, g, {}, {})
      BY <1>3, <1>4, <1>5, <1>6, PushPlain
<1>8. woken(stack') = {}
  <2>1. s1 \in Seq(Frames)
        BY <1>4, SoundShape
  <2>2. stack'[Len(stack')] = TickFrame
        BY <2>1, <1>3, <1>5, AppendFields
  <2> QED
        BY <2>2 DEF woken, TickFrame
<1> QED
      BY <1>2, <1>7, <1>8

-----------------------------------------------------------------------------
(***************************************************************************)
(* A coroutine that waits is resumed by tdlua.                             *)
(***************************************************************************)

LEMMA ObservedSound ==
  ASSUME NEW c, NEW s, NEW l, NEW g, NEW E, NEW F, Sound(c, s, l, g, E, F),
         NEW x \in c.live, c.st[x].kind # "none"
  PROVE  LET d == [c EXCEPT !.st[x].observed = TRUE] IN
         /\ Sound(d, s, l, g, E, F) /\ d.st[x].observed /\ SameElse(c, d)
         /\ \A y \in States : /\ d.st[y].status = c.st[y].status
                              /\ d.st[y].handles = c.st[y].handles
                              /\ d.st[y].teardown = c.st[y].teardown
<1> DEFINE r == [c.st[x] EXCEPT !.observed = TRUE]
           d == [c EXCEPT !.st[x].observed = TRUE]
<1>1. /\ c \in Core /\ CoreInv(c) /\ StackInv(c, s, l, g, E, F) /\ Leases(c, s)
      /\ Reported(c) /\ x \in States
  <2>1. /\ c \in Core /\ CoreInv(c) /\ StackInv(c, s, l, g, E, F) /\ Leases(c, s)
        /\ Reported(c)
        BY SoundShape DEF CoreInv
  <2> QED
        BY <2>1, CoreTypes
<1>2. c.st[x] \in StateRecord
      BY <1>1, StateTypes
<1>3. /\ r \in StateRecord /\ r.observed
      /\ r.kind = c.st[x].kind /\ r.status = c.st[x].status
      /\ r.waiters = c.st[x].waiters /\ r.handles = c.st[x].handles
      /\ r.handler = c.st[x].handler /\ r.teardown = c.st[x].teardown
      /\ r.reports = c.st[x].reports
      BY <1>2 DEF StateRecord
<1>4. d = put(c, x, r)
      BY DEF put
<1> HIDE DEF r
<1> HIDE DEF d
<1>5. /\ d \in Core /\ SameElse(c, d)
      /\ \A y \in States : d.st[y] = IF y = x THEN r ELSE c.st[y]
  <2>1. /\ put(c, x, r) \in Core /\ SameElse(c, put(c, x, r))
        /\ \A y \in States : put(c, x, r).st[y] = IF y = x THEN r ELSE c.st[y]
        BY <1>1, <1>3, PutFields
  <2> QED
        BY <2>1, <1>4
<1>6. \A y \in States :
        /\ d.st[y].kind = c.st[y].kind /\ d.st[y].status = c.st[y].status
        /\ d.st[y].waiters = c.st[y].waiters /\ d.st[y].handler = c.st[y].handler
        /\ d.st[y].handles = c.st[y].handles
        /\ d.st[y].reports = c.st[y].reports /\ d.st[y].teardown = c.st[y].teardown
        /\ c.st[y].observed => d.st[y].observed
        /\ c.st[y].kind = "none" => d.st[y] = c.st[y]
      BY <1>3, <1>5
<1>7. \A y \in States : c.st[y].kind = "Task" /\ c.st[y].reports > 0
                          => d.st[y].observed = c.st[y].observed
  <2>1. c.st[x].kind = "Task" /\ c.st[x].reports > 0 => x \notin c.live
        BY <1>1 DEF Reported
  <2> QED
        BY <2>1, <1>5
<1>8. Touches(c, d)
      BY <1>5, <1>6, <1>7 DEF Touches
<1>9. CoreInv(d)
      BY <1>1, <1>5, <1>8, TouchesCore
<1>10. StackInv(d, s, l, g, E, F)
  <2>1. \A y \in c.live \ E : d.st[y].handles = 0 => c.st[y].handles = 0
        BY <1>1, <1>6, CoreTypes
  <2> QED
        BY <2>1, <1>1, <1>5, <1>8, TouchesStack
<1>11. Leases(d, s)
       BY <1>1, <1>6 DEF Leases
<1>12. Sound(d, s, l, g, E, F)
       BY <1>9, <1>10, <1>11 DEF Sound
<1>13. d.st[x].observed
       BY <1>1, <1>3, <1>5
<1>14. \A y \in States : /\ d.st[y].status = c.st[y].status
                         /\ d.st[y].handles = c.st[y].handles
                         /\ d.st[y].teardown = c.st[y].teardown
       BY <1>6
<1>15. d = [c EXCEPT !.st[x].observed = TRUE]
       BY DEF d
<1> QED
      BY <1>5, <1>12, <1>13, <1>14, <1>15

LEMMA ResumeSound ==
  ASSUME NEW c, NEW s, NEW l, NEW g, NEW E, NEW t \in Threads, NEW x \in States,
         Sound(c, s, l, g \cup {t}, E, {}),
         registration(c, t) # None, registration(c, t).dependency = x,
         NEW outcome \in {"Success", "Failed", "Timeout"},
         outcome = "Success" => c.st[x].status \in {"Resolved", "Done"},
         outcome = "Failed" => c.st[x].status = "Failed",
         outcome = "Timeout" => registration(c, t).timed /\ registration(c, t).expired,
         resume(c, s, t, x, outcome)
  PROVE  Sound(core', stack', l, g, E \ {x}, {}) /\ woken(stack') = {}
<1> DEFINE r == registration(c, t)
           d == IF outcome = "Failed" THEN [c EXCEPT !.st[x].observed = TRUE] ELSE c
           f == LuaFrame(t, "resume", r.task, r, outcome,
                         outcome = "Failed" /\ c.st[x].teardown)
<1>1. c \in Core /\ Waits(c) /\ Requested(c) /\ s \in Seq(Frames) /\ Shape(s)
      /\ StackInv(c, s, l, g \cup {t}, E, {})
      BY SoundShape DEF CoreInv
<1>2. x \in c.live /\ r \in WaitRecord /\ r.task \in {None, t}
  <2>1. x \in c.live /\ t \in c.waitBindings
        BY <1>1, WaiterCounted
  <2> QED
        BY <2>1, <1>1, RegistrationType DEF Waits
<1>3. c.st[x].kind # "none"
      BY <1>1, <1>2 DEF Requested
<1>4. core' = removeRegistration(d, t) /\ stack' = Append(s, f)
      BY DEF resume
<1>5. /\ Sound(d, s, l, g \cup {t}, E, {})
      /\ d.waiters = c.waiters /\ d.notifications = c.notifications
      /\ \A y \in States : d.st[y].status = c.st[y].status
      /\ outcome = "Failed" => d.st[x].observed
  <2>1. CASE outcome = "Failed"
    <3> DEFINE e == [c EXCEPT !.st[x].observed = TRUE]
    <3>1. /\ Sound(e, s, l, g \cup {t}, E, {}) /\ e.st[x].observed /\ SameElse(c, e)
          /\ \A y \in States : e.st[y].status = c.st[y].status
          BY <1>2, <1>3, ObservedSound
    <3> HIDE DEF e
    <3>2. d = e
          BY <2>1 DEF e
    <3> QED
          BY <3>1, <3>2 DEF SameElse
  <2>2. CASE outcome # "Failed"
        BY <2>2
  <2> QED
        BY <2>1, <2>2
<1>6. registration(d, t) = r
      BY <1>5, SameWaits
<1>7. /\ f \in LuaFrames /\ f.at = "lua" /\ f.thread = t /\ f.task = r.task
      /\ f.by = "resume" /\ f.wait = r /\ f.outcome = outcome
  <2>1. c.st[x].teardown \in BOOLEAN
        BY <1>1, StateTypes
  <2>2. r.task \in States \cup {None}
        BY <1>2 DEF WaitRecord
  <2> HIDE DEF r
  <2> QED
        BY <2>1, <2>2, <1>2 DEF LuaFrames, LuaFrame
<1> HIDE DEF f, d
<1>8. f \in Frames
      BY <1>7 DEF Frames
<1>9. /\ Append(s, f)[Len(s) + 1] = f
      /\ \A i \in DOMAIN Append(s, f) : i = Len(s) + 1 \/ (i \in DOMAIN s /\ Append(s, f)[i] = s[i])
      /\ Len(Append(s, f)) = Len(s) + 1
      BY <1>1, <1>8, AppendFields
<1>10. Honest(d, Append(s, f))
  <2>1. Honest(d, s)
        BY <1>5, SoundShape DEF StackInv
  <2>2. ASSUME NEW i \in DOMAIN Append(s, f), Append(s, f)[i].at = "lua",
               Append(s, f)[i].by = "resume"
        PROVE  LET w == Append(s, f)[i].wait
                   q == d.st[w.dependency]
                   o == Append(s, f)[i].outcome
               IN /\ o = "Success" => q.status \in {"Resolved", "Done"}
                  /\ o = "Failed" => q.status = "Failed" /\ q.observed
                  /\ o = "Timeout" => w.timed /\ w.expired
    <3>1. CASE i = Len(s) + 1
          BY <3>1, <1>5, <1>7, <1>9
    <3>2. CASE i \in DOMAIN s /\ Append(s, f)[i] = s[i]
          BY <3>2, <2>1, <2>2 DEF Honest
    <3> QED
          BY <3>1, <3>2, <1>9
  <2> QED
        BY <2>2 DEF Honest
<1>11. r # None
       OBVIOUS
<1>12. Sound(removeRegistration(d, t), Append(s, f), l, g, E \ {r.dependency}, {} \cup {})
  <2>1. /\ registration(d, t) # None /\ f.task \in {None, registration(d, t).task}
        /\ f.by \in {"lua", "resume"} /\ (f.by = "lua" => f.task = None /\ ~f.quiet)
        /\ (f.by = "resume" => f.wait # None /\ f.outcome # "none")
        /\ registration(d, t).task \in {} \cup {None, f.task}
        BY <1>6, <1>7, <1>11
  <2> HIDE DEF r
  <2> QED
        BY <2>1, <1>5, <1>6, <1>7, <1>10, EnterWaiterSound
<1>13. {} \cup {} = {} /\ r.dependency = x
       OBVIOUS
<1>14. woken(stack') = {}
       BY <1>4, <1>7, <1>9 DEF woken
<1> HIDE DEF r
<1> QED
      BY <1>4, <1>12, <1>13, <1>14

-----------------------------------------------------------------------------
(***************************************************************************)
(* The steps of Lua code.                                                  *)
(***************************************************************************)

LEMMA NoThrowInv ==
  ASSUME Sound(core', stack', lua', lost, woken(stack'), {}), NoThrow
  PROVE  SchedulerInv'
<1> DEFINE g == lost \cap {t \in Threads : core'.waiters[t] # None}
<1>1. lost' = g
      BY DEF NoThrow
<1>2. Sound(core', stack', lua', g, woken(stack'), {})
      BY GhostSound
<1> HIDE DEF g
<1>3. Sound(core', stack', lua', lost', woken(stack'), {})
      BY <1>1, <1>2
<1> QED
      BY <1>3 DEF SchedulerInv

LEMMA NoThrowPlain ==
  ASSUME Sound(core', stack', lua', lost, {}, {}), NoThrow
  PROVE  SchedulerInv'
<1>1. Sound(core', stack', lua', lost, woken(stack'), {})
      BY WeakenSound
<1> QED
      BY <1>1, NoThrowInv

LEMMA TopSound ==
  ASSUME SchedulerInv
  PROVE  /\ Top = stack[Len(stack)] /\ core \in Core /\ CoreInv(core)
         /\ stack \in Seq(Frames) /\ Len(stack) \in Nat /\ Len(stack) > 0
         /\ Len(stack) \in DOMAIN stack /\ Shape(stack) /\ Top \in Frames
         /\ Top.at # "wake" => Sound(core, stack, lua, lost, {}, {})
         /\ Top.at = "wake" => /\ Top \in WakeFrames /\ woken(stack) = {Top.state}
                               /\ Sound(core, stack, lua, lost, {Top.state}, {})
<1>1. Top = stack[Len(stack)]
      BY DEF Top
<1>2. Sound(core, stack, lua, lost, woken(stack), {})
      BY DEF SchedulerInv
<1>3. /\ core \in Core /\ CoreInv(core) /\ stack \in Seq(Frames) /\ Len(stack) \in Nat
      /\ Len(stack) > 0 /\ DOMAIN stack = 1 .. Len(stack) /\ Shape(stack)
      BY <1>2, SoundShape
<1>4. Len(stack) \in DOMAIN stack
      BY <1>3
<1>5. Top \in Frames /\ (Top.at = "wake" => Top \in WakeFrames)
      BY <1>1, <1>3, <1>4, FrameTypes
<1>6. woken(stack) = IF Top.at = "wake" THEN {Top.state} ELSE {}
      BY <1>1 DEF woken
<1> QED
      BY <1>1, <1>2, <1>3, <1>4, <1>5, <1>6

LEMMA CreateStep ==
  ASSUME SchedulerInv, NEW kind \in RequestKinds, NEW submitted \in BOOLEAN,
         Create(kind, submitted)
  PROVE  SchedulerInv'
<1> DEFINE n == IF kind \in {"Future", "Task"} /\ submitted THEN 1 ELSE 0
           d == newRequest(core, kind, n)
           e == cancel(d, core.next)
<1>1. core \in Core /\ Requested(core) /\ Sound(core, stack, lua, lost, {}, {})
      BY TopSound DEF Create, runsLua, CoreInv
<1>2. core.next \in Requests
  <2>1. core.next \in Nat \ {0}
        BY <1>1, CoreTypes
  <2> QED
        BY <2>1, BoundsAssumption DEF Create, Requests
<1>3. core.next \notin core.live /\ core.next \notin core.pending
      BY <1>1, <1>2, NextFresh
<1>4. n \in 0 .. 1 /\ (n = 1 => submitted /\ kind # "Raw")
      OBVIOUS
<1>5. core' = IF submitted THEN d ELSE e
      BY DEF Create, newRequest
<1> HIDE DEF n
<1>6. /\ d \in Core /\ Creates(core, d, core.next, kind, n, TRUE)
      /\ e \in Core /\ Creates(core, e, core.next, kind, n, FALSE)
      BY <1>1, <1>2, <1>3, <1>4, NewRequestFields
<1> HIDE DEF d, e
<1>7. core' \in Core /\ Creates(core, core', core.next, kind, n, submitted)
      BY <1>5, <1>6
<1>8. Sound(core', stack, lua, lost, {}, {})
      BY <1>1, <1>2, <1>4, <1>7, CreateSound
<1>9. NoThrow /\ stack' = stack /\ lua' = lua
      BY DEF Create
<1> QED
      BY <1>8, <1>9, NoThrowPlain

LEMMA AwaitStep ==
  ASSUME SchedulerInv, NEW submitted \in BOOLEAN, Await(submitted)
  PROVE  SchedulerInv'
<1> DEFINE d == newRequest(core, "LegacyAwait", 0)
           e == cancel(d, core.next)
<1>1. /\ core \in Core /\ Requested(core) /\ Sound(core, stack, lua, lost, {}, {})
      /\ Top = stack[Len(stack)] /\ Top.at = "lua" /\ Top.thread # Main
      BY TopSound DEF Await, runsLua, CoreInv
<1>2. core.next \in Requests
  <2>1. core.next \in Nat \ {0}
        BY <1>1, CoreTypes
  <2> QED
        BY <2>1, BoundsAssumption DEF Await, Requests
<1>3. core.next \notin core.live /\ core.next \notin core.pending /\ core.next \in States
      BY <1>1, <1>2, NextFresh
<1>4. "LegacyAwait" \in RequestKinds /\ 0 \in 0 .. 1
      BY DEF RequestKinds
<1>5. /\ d \in Core /\ Creates(core, d, core.next, "LegacyAwait", 0, TRUE)
      /\ e \in Core /\ Creates(core, e, core.next, "LegacyAwait", 0, FALSE)
      BY <1>1, <1>2, <1>3, <1>4, NewRequestFields
<1>6. NoThrow /\ lua' = lua
      BY DEF Await
<1>7. CASE submitted
  <2>1. core' = register(d, Top.thread, core.next, FALSE) /\ stack' = Pop(stack)
        BY <1>7 DEF Await, newRequest
  <2> HIDE DEF d
  <2>2. Sound(d, stack, lua, lost, {}, {})
        BY <1>1, <1>2, <1>4, <1>5, CreateSound
  <2>3. /\ core.next \in d.live /\ d.st[core.next].status = "Pending"
        /\ d.st[core.next].kind = "LegacyAwait"
        BY <1>5 DEF Creates
  <2>4. ~isTerminalState(d, core.next)
        BY <2>3 DEF isTerminalState
  <2>5. Sound(register(d, stack[Len(stack)].thread, core.next, FALSE), Pop(stack), lua,
              lost, {}, {})
        BY <1>1, <2>2, <2>3, <2>4, YieldSound
  <2> QED
        BY <1>1, <1>6, <2>1, <2>5, NoThrowPlain
<1>8. CASE ~submitted
  <2>1. core' = e /\ stack' = stack
        BY <1>8 DEF Await, newRequest
  <2> HIDE DEF e
  <2>2. e \in Core /\ Creates(core, e, core.next, "LegacyAwait", 0, FALSE)
        BY <1>5
  <2>3. 0 = 1 => FALSE /\ "LegacyAwait" # "Raw"
        OBVIOUS
  <2>4. Sound(e, stack, lua, lost, {}, {})
        BY <1>1, <1>2, <1>4, <2>2, <2>3, CreateSound
  <2> QED
        BY <1>6, <2>1, <2>4, NoThrowPlain
<1> QED
      BY <1>7, <1>8

\* A state that Lua has a handle of.
LEMMA VisibleFields ==
  ASSUME SchedulerInv, NEW x \in States, visible(x)
  PROVE  x \in core.live /\ core.st[x].kind # "none" /\ core.st[x].kind # "Raw"
<1>1. core \in Core /\ Waits(core) /\ Requested(core)
      BY TopSound DEF CoreInv
<1>2. core.st[x].handles \in Nat /\ core.st[x].handles > 0
      BY <1>1, StateTypes DEF visible
<1>3. x \in core.live
      BY <1>1, <1>2 DEF Waits
<1> QED
      BY <1>1, <1>2, <1>3 DEF Requested

LEMMA WaitDoneStep ==
  ASSUME SchedulerInv, NEW x \in States, WaitDone(x)
  PROVE  SchedulerInv'
<1>1. Sound(core, stack, lua, lost, {}, {}) /\ x \in core.live /\ core.st[x].kind # "none"
      BY TopSound, VisibleFields DEF WaitDone, runsLua
<1>2. Sound([core EXCEPT !.st[x].observed = TRUE], stack, lua, lost, {}, {})
      BY <1>1, ObservedSound
<1> QED
      BY <1>2, NoThrowPlain DEF WaitDone

LEMMA WaitStep ==
  ASSUME SchedulerInv, NEW x \in States, NEW timed \in BOOLEAN, Wait(x, timed)
  PROVE  SchedulerInv'
<1>1. /\ Sound(core, stack, lua, lost, {}, {}) /\ x \in core.live /\ core.st[x].kind # "Raw"
      /\ Top = stack[Len(stack)] /\ Top.at = "lua" /\ Top.thread # Main
      /\ ~isTerminalState(core, x)
      BY TopSound, VisibleFields DEF Wait, runsLua
<1>2. Sound(register(core, stack[Len(stack)].thread, x, timed), Pop(stack), lua, lost,
            {}, {})
      BY <1>1, YieldSound
<1> QED
      BY <1>1, <1>2, NoThrowPlain DEF Wait

-----------------------------------------------------------------------------
(***************************************************************************)
(* Handles and leases.                                                     *)
(***************************************************************************)

setHandles(c, x, n) == [c EXCEPT !.st[x].handles = n]

\* Who holds x changes, and with it perhaps who waits for x synchronously.
LEMMA HandlesSound ==
  ASSUME NEW c, NEW s, NEW s2, NEW l, NEW g, NEW E, NEW F, Sound(c, s, l, g, E, F),
         StackInv(c, s2, l, g, E, F),
         NEW x \in States, c.st[x].handles > 0, NEW n \in Nat,
         \A y \in States :
           LET m == IF y = x THEN n ELSE c.st[y].handles IN
           IF leased(s2, y) THEN m \in 1 .. 2 ELSE m \in 0 .. 1
  PROVE  /\ Sound(setHandles(c, x, n), s2, l, g, E \cup {x}, F)
         /\ n > 0 => Sound(setHandles(c, x, n), s2, l, g, E, F)
<1> DEFINE r == [c.st[x] EXCEPT !.handles = n]
           d == setHandles(c, x, n)
<1>1. c \in Core /\ CoreInv(c) /\ Requested(c)
  <2>1. CoreInv(c)
        BY SoundShape
  <2> QED
        BY <2>1 DEF CoreInv
<1>2. c.st[x] \in StateRecord
      BY <1>1, StateTypes
<1>3. /\ r \in StateRecord /\ r.handles = n
      /\ r.kind = c.st[x].kind /\ r.status = c.st[x].status
      /\ r.waiters = c.st[x].waiters /\ r.observed = c.st[x].observed
      /\ r.handler = c.st[x].handler /\ r.teardown = c.st[x].teardown
      /\ r.reports = c.st[x].reports
      BY <1>2 DEF StateRecord
<1>4. d = put(c, x, r)
      BY DEF put, setHandles
<1> HIDE DEF d, r
<1>5. /\ d \in Core /\ SameElse(c, d)
      /\ \A y \in States : d.st[y] = IF y = x THEN r ELSE c.st[y]
  <2>1. /\ put(c, x, r) \in Core /\ SameElse(c, put(c, x, r))
        /\ \A y \in States : put(c, x, r).st[y] = IF y = x THEN r ELSE c.st[y]
        BY <1>1, <1>3, PutFields
  <2> QED
        BY <2>1, <1>4
<1>6. c.st[x].kind # "none"
  <2>1. c.st[x].kind = "none" => c.st[x] = NoState
        BY <1>1 DEF Requested
  <2>2. NoState.handles = 0
        BY DEF NoState
  <2> QED
        BY <2>1, <2>2
<1>7. Touches(c, d)
  <2>1. \A y \in States :
          /\ d.st[y].kind = c.st[y].kind /\ d.st[y].status = c.st[y].status
          /\ d.st[y].waiters = c.st[y].waiters /\ d.st[y].handler = c.st[y].handler
          /\ d.st[y].reports = c.st[y].reports /\ d.st[y].observed = c.st[y].observed
          /\ d.st[y].teardown = c.st[y].teardown
          /\ c.st[y].kind = "none" => d.st[y] = c.st[y]
        BY <1>3, <1>5, <1>6
  <2>2. \A y \in States : d.st[y].handles > 0 => c.st[y].handles > 0
        BY <1>5
  <2> QED
        BY <2>1, <2>2, <1>5 DEF Touches
<1>8. CoreInv(d)
      BY <1>1, <1>5, <1>7, TouchesCore
<1>9. Leases(d, s2)
  <2>1. \A y \in States : d.st[y].handles = IF y = x THEN n ELSE c.st[y].handles
        BY <1>3, <1>5
  <2> QED
        BY <2>1 DEF Leases
<1>10. Sound(d, s2, l, g, E \cup {x}, F)
  <2>1. \A y \in c.live \ (E \cup {x}) : d.st[y].handles = 0 => c.st[y].handles = 0
        BY <1>1, <1>5, CoreTypes
  <2>2. StackInv(d, s2, l, g, E \cup {x}, F)
        BY <2>1, <1>1, <1>5, <1>7, TouchesStack
  <2> QED
        BY <2>2, <1>8, <1>9 DEF Sound
<1>11. ASSUME n > 0
       PROVE  Sound(d, s2, l, g, E, F)
  <2>1. \A y \in c.live \ E : d.st[y].handles = 0 => c.st[y].handles = 0
    <3>1. c.live \subseteq States
          BY <1>1, CoreTypes
    <3>2. d.st[x].handles = n /\ n # 0
          BY <1>3, <1>5, <1>11
    <3> QED
          BY <3>1, <3>2, <1>5
  <2>2. StackInv(d, s2, l, g, E, F)
        BY <2>1, <1>1, <1>5, <1>7, TouchesStack
  <2> QED
        BY <2>2, <1>8, <1>9 DEF Sound
<1> QED
      BY <1>10, <1>11 DEF d

LEMMA ReleaseSound ==
  ASSUME NEW c, NEW s, NEW s2, NEW l, NEW g, NEW F, Sound(c, s, l, g, {}, F),
         StackInv(c, s2, l, g, {}, F),
         NEW x \in States, c.st[x].handles > 0,
         \A y \in States :
           LET m == IF y = x THEN c.st[y].handles - 1 ELSE c.st[y].handles IN
           IF leased(s2, y) THEN m \in 1 .. 2 ELSE m \in 0 .. 1
  PROVE  Sound(releaseHandle(c, x), s2, l, g, {}, F)
<1> DEFINE n == c.st[x].handles - 1
           d == setHandles(c, x, n)
<1>1. c.st[x].handles \in Nat
      BY SoundShape, StateTypes
<1>2. n \in Nat
      BY <1>1
<1>3. \A y \in States :
        LET m == IF y = x THEN n ELSE c.st[y].handles IN
        IF leased(s2, y) THEN m \in 1 .. 2 ELSE m \in 0 .. 1
      OBVIOUS
<1>4. releaseHandle(c, x) = retireState(d, x)
      BY DEF releaseHandle, setHandles
<1> HIDE DEF n
<1>5. Sound(d, s2, l, g, {} \cup {x}, F)
      BY <1>2, <1>3, HandlesSound
<1> HIDE DEF d
<1>6. Sound(retireState(d, x), s2, l, g, ({} \cup {x}) \ {x}, F)
      BY <1>5, RetireSound
<1>7. ({} \cup {x}) \ {x} = {}
      OBVIOUS
<1> QED
      BY <1>4, <1>6, <1>7

LEMMA WaitSynchronouslyStep ==
  ASSUME SchedulerInv, NEW x \in States, WaitSynchronously(x)
  PROVE  SchedulerInv'
<1> DEFINE f == WaitFrame(x)
           n == core.st[x].handles + 1
<1>1. /\ Sound(core, stack, lua, lost, {}, {}) /\ core \in Core /\ stack \in Seq(Frames)
      /\ Top = stack[Len(stack)] /\ Top.at = "lua" /\ Top.thread = Main
      /\ Len(stack) \in DOMAIN stack /\ Shape(stack) /\ Len(stack) \in Nat /\ Len(stack) > 0
      BY TopSound DEF WaitSynchronously, runsLua
<1>2. Len(stack) = 1
      BY <1>1 DEF Shape
<1>3. core.st[x].handles \in Nat /\ core.st[x].handles > 0
      BY <1>1, StateTypes DEF WaitSynchronously, visible
<1>4. core' = setHandles(core, x, n) /\ stack' = Append(stack, f)
      BY DEF WaitSynchronously, setHandles
<1>5. f \in Frames /\ f.at = "wait_tick" /\ f.state = x
  <2>1. f \in WaitFrames /\ f.at = "wait_tick" /\ f.state = x
        BY DEF WaitFrame, WaitFrames, Waiting
  <2> QED
        BY <2>1 DEF Frames
<1> HIDE DEF f
<1>6. /\ Append(stack, f) \in Seq(Frames) /\ Len(Append(stack, f)) = 2
      /\ Append(stack, f)[2] = f /\ Append(stack, f)[1] = stack[1]
      /\ DOMAIN Append(stack, f) = 1 .. 2 /\ DOMAIN stack = 1 .. 1
  <2>1. \A i \in 1 .. 1 : Append(stack, f)[i] = stack[i]
    <3>1. \A i \in 1 .. Len(stack) : Append(stack, f)[i] = stack[i]
          BY <1>1, <1>5, AppendFields
    <3> QED
          BY <3>1, <1>2
  <2>2. Append(stack, f) \in Seq(Frames) /\ Len(Append(stack, f)) = 2
        /\ Append(stack, f)[2] = f
    <3>1. /\ Append(stack, f) \in Seq(Frames) /\ Len(Append(stack, f)) = Len(stack) + 1
          /\ Append(stack, f)[Len(stack) + 1] = f
          BY <1>1, <1>5, AppendFields
    <3>2. Len(stack) + 1 = 2
          BY <1>2
    <3> QED
          BY <3>1, <3>2
  <2> QED
        BY <2>1, <2>2, <1>1, <1>2
<1> DEFINE s2 == Append(stack, f)
<1> HIDE DEF s2
<1>7. StackInv(core, s2, lua, lost, {}, {})
  <2>1. SameCalls(stack, s2)
        BY <1>5, <1>6 DEF SameCalls, isPlain, s2
  <2>2. \A i \in DOMAIN s2 : s2[i].at \in Waiting => i = 2
    <3>1. stack[1].at \notin Waiting
          BY <1>1, <1>2 DEF Waiting
    <3> QED
          BY <3>1, <1>6 DEF s2
  <2>3. StackInv(core, stack, lua, lost, {}, {})
        BY <1>1, SoundShape
  <2>4. s2 \in Seq(Frames) /\ Len(s2) > 0
        BY <1>6 DEF s2
  <2> QED
        BY <2>1, <2>2, <2>3, <2>4, <1>1, PlainStack
<1>8. \A y \in States :
        LET m == IF y = x THEN n ELSE core.st[y].handles IN
        IF leased(s2, y) THEN m \in 1 .. 2 ELSE m \in 0 .. 1
  <2>1. \A y \in States : core.st[y].handles \in 0 .. 1
        BY <1>1, <1>2, SoundShape DEF Leases, leased
  <2>2. \A y \in States : leased(s2, y) <=> y = x
        BY <1>5, <1>6 DEF leased, Waiting, s2
  <2> QED
        BY <2>1, <2>2, <1>3
<1>9. n \in Nat /\ n > 0
      BY <1>3
<1> HIDE DEF n
<1>10. Sound(setHandles(core, x, n), s2, lua, lost, {}, {})
       BY <1>1, <1>3, <1>7, <1>8, <1>9, HandlesSound
<1>11. NoThrow /\ lua' = lua
       BY DEF WaitSynchronously
<1> QED
      BY <1>4, <1>10, <1>11, NoThrowPlain DEF s2

LEMMA DropStep ==
  ASSUME SchedulerInv, NEW x \in States, Drop(x)
  PROVE  SchedulerInv'
<1> DEFINE W == {i \in DOMAIN stack : stack[i].at \in Waiting /\ stack[i].state = x}
<1>1. /\ Sound(core, stack, lua, lost, {}, {}) /\ core \in Core /\ Shape(stack)
      /\ StackInv(core, stack, lua, lost, {}, {}) /\ Leases(core, stack)
      /\ Len(stack) \in Nat /\ DOMAIN stack = 1 .. Len(stack)
      BY TopSound, SoundShape DEF Drop, runsLua
<1>2. core.st[x].handles \in Nat /\ core.st[x].handles > 0
      /\ core.st[x].handles > Cardinality(W)
      BY <1>1, StateTypes DEF Drop, visible
<1>3. leased(stack, x) => core.st[x].handles > 1
  <2>1. ASSUME leased(stack, x)
        PROVE  W = {2}
    <3>1. 2 \in W
          BY <2>1, <1>1 DEF leased
    <3>2. \A i \in W : i = 2
          BY <1>1 DEF Shape
    <3> QED
          BY <3>1, <3>2
  <2> HIDE DEF W
  <2>2. Cardinality({2}) = 1
        BY FS_Singleton
  <2> QED
        BY <2>1, <2>2, <1>2
<1>4. \A y \in States :
        LET m == IF y = x THEN core.st[y].handles - 1 ELSE core.st[y].handles IN
        IF leased(stack, y) THEN m \in 1 .. 2 ELSE m \in 0 .. 1
  <2>1. \A y \in States : IF leased(stack, y) THEN core.st[y].handles \in 1 .. 2
                          ELSE core.st[y].handles \in 0 .. 1
        BY <1>1 DEF Leases
  <2> QED
        BY <2>1, <1>2, <1>3
<1>5. Sound(releaseHandle(core, x), stack, lua, lost, {}, {})
      BY <1>1, <1>2, <1>4, ReleaseSound
<1>6. core' = releaseHandle(core, x) /\ stack' = stack /\ lua' = lua /\ NoThrow
      BY DEF Drop
<1> QED
      BY <1>5, <1>6, NoThrowPlain

LEMMA OffEventStep ==
  ASSUME SchedulerInv, offEvent
  PROVE  SchedulerInv'
<1>1. Sound(core, stack, lua, lost, {}, {})
      BY TopSound DEF offEvent, runsLua
<1>2. Sound(removeEventRegistration(core), stack, lua, lost, {}, {})
      BY <1>1, RemoveRegistrationSound
<1> QED
      BY <1>2, NoThrowPlain DEF offEvent

LEMMA OnEventStep ==
  ASSUME SchedulerInv, NEW concurrent \in BOOLEAN, onEvent(concurrent)
  PROVE  SchedulerInv'
<1> DEFINE d == removeEventRegistration(core)
<1>1. Sound(core, stack, lua, lost, {}, {})
      BY TopSound DEF onEvent, runsLua
<1>2. Sound(d, stack, lua, lost, {}, {}) /\ d.handlers = core.handlers
      BY <1>1, RemoveRegistrationSound
<1>3. /\ core' = [d EXCEPT !.handlers = core.handlers + 1, !.current = core.handlers + 1,
                           !.handler[core.handlers + 1].concurrent = concurrent]
      /\ core.handlers < MaxHandlers /\ stack' = stack /\ lua' = lua /\ NoThrow
      BY DEF onEvent
<1> HIDE DEF d
<1>4. Sound([d EXCEPT !.handlers = d.handlers + 1, !.current = d.handlers + 1,
                      !.handler[d.handlers + 1].concurrent = concurrent],
            stack, lua, lost, {}, {})
      BY <1>2, <1>3, RegisterHandlerSound
<1> QED
      BY <1>2, <1>3, <1>4, NoThrowPlain

-----------------------------------------------------------------------------
(***************************************************************************)
(* Lua resumes a coroutine.                                                *)
(***************************************************************************)

LEMMA RemoveFields ==
  ASSUME NEW c \in Core, Waits(c), NEW t \in Threads, registration(c, t) # None
  PROVE  /\ removeRegistration(c, t).running_tasks = c.running_tasks
         /\ \A y \in States : removeRegistration(c, t).st[y].status = c.st[y].status
<1> DEFINE x == registration(c, t).dependency
           u == unwait(c, t, x)
<1>1. x \in States /\ c.st[x].waiters > 0
      BY WaiterCounted
<1>2. u \in Core /\ Unregisters(c, u, t, x)
      BY <1>1, UnwaitFields
<1>3. removeRegistration(c, t) = retireState(u, x)
      BY RemoveIs
<1> HIDE DEF u, x
<1>4. Retires(u, retireState(u, x), x)
      BY <1>1, <1>2, RetireFields
<1> QED
      BY <1>2, <1>3, <1>4 DEF Unregisters, Retires

LEMMA ResumeCoroutineStep ==
  ASSUME SchedulerInv, NEW t \in Threads, ResumeCoroutine(t)
  PROVE  SchedulerInv'
<1> DEFINE f == LuaFrame(t, "lua", None, None, "none", FALSE)
           s == Append(stack, f)
           l == [lua EXCEPT ![t] = "live"]
<1>1. /\ Sound(core, stack, lua, lost, {}, {}) /\ core \in Core /\ Shape(stack)
      /\ Waits(core) /\ Requested(core) /\ Honest(core, stack) /\ stack \in Seq(Frames)
      BY TopSound, SoundShape DEF ResumeCoroutine, runsLua, CoreInv, StackInv
<1>2. t # Main /\ ~isOn(stack, t)
      BY DEF ResumeCoroutine, onStack, isOn
<1>3. t \in States => lua[t] # "fresh"
      BY ThreadsAssumption DEF ResumeCoroutine
<1>4. lua' = l /\ NoThrow
      BY DEF ResumeCoroutine
<1>5. /\ f \in LuaFrames /\ f.at = "lua" /\ f.thread = t /\ f.by = "lua" /\ f.task = None
      /\ ~f.quiet /\ f \in Frames
  <2>1. /\ f \in LuaFrames /\ f.at = "lua" /\ f.thread = t /\ f.by = "lua" /\ f.task = None
        /\ ~f.quiet
        BY DEF LuaFrame, LuaFrames
  <2> QED
        BY <2>1 DEF Frames
<1> HIDE DEF f
<1>6. CASE t \notin core.waitBindings
  <2>1. core' = core /\ stack' = s
        BY <1>6 DEF ResumeCoroutine, f
  <2>2. Sound(core, s, l, lost, {}, {})
    <3>1. Sound(core, Append(stack, f), [lua EXCEPT ![f.thread] = "live"], lost, {}, {})
          BY <1>1, <1>2, <1>3, <1>5, <1>6, EnterSound
    <3> QED
          BY <3>1, <1>5
  <2> QED
        BY <2>1, <2>2, <1>4, NoThrowPlain
<1>7. CASE t \in core.waitBindings
  <2> DEFINE r == registration(core, t)
             c == removeRegistration(core, t)
             d == failState([c EXCEPT !.running_tasks = @ \ {r.task}], r.task)
  <2>1. r # None /\ r.task \in {None, t} /\ (r.task # None => t \in core.running_tasks)
        BY <1>1, <1>7 DEF Waits
  <2>2. IF r.task = None THEN core' = c /\ stack' = s ELSE wake(d, s, r.task, "none")
        BY <1>7 DEF ResumeCoroutine, f
  <2>3. Sound(core, stack, lua, lost \cup {t}, {}, {})
        BY <1>1, WeakenSound
  <2>4. Honest(core, s)
    <3>1. /\ Append(stack, f)[Len(stack) + 1] = f
          /\ \A i \in DOMAIN Append(stack, f) :
               i = Len(stack) + 1 \/ (i \in DOMAIN stack /\ Append(stack, f)[i] = stack[i])
          BY <1>1, <1>5, AppendFields
    <3>2. f.by # "resume"
          BY <1>5
    <3> QED
          BY <3>1, <3>2, <1>1 DEF Honest
  <2>5. ASSUME NEW F, r.task \in F \cup {None}
        PROVE  Sound(c, s, l, lost, {}, F)
    <3>1. /\ registration(core, t) # None /\ f.task \in {None, registration(core, t).task}
          /\ f.by \in {"lua", "resume"} /\ (f.by = "lua" => f.task = None /\ ~f.quiet)
          /\ (f.by = "resume" => f.wait # None /\ f.outcome # "none")
          /\ registration(core, t).task \in F \cup {None, f.task}
          BY <1>5, <2>1, <2>5
    <3>2. Sound(c, s, l, lost, {} \ {r.dependency}, {} \cup F)
      <4> HIDE DEF l
      <4>1. l = lua \/ l = [lua EXCEPT ![t] = "live"]
            BY DEF l
      <4> QED
            BY <3>1, <4>1, <2>3, <2>4, <1>5, EnterWaiterSound
    <3>3. {} \ {r.dependency} = {} /\ {} \cup F = F
          OBVIOUS
    <3> QED
          BY <3>2, <3>3
  <2>6. c.running_tasks = core.running_tasks /\ \A y \in States : c.st[y].status = core.st[y].status
        BY <1>1, <2>1, RemoveFields
  <2> HIDE DEF c
  <2>7. CASE r.task = None
    <3>1. Sound(c, s, l, lost, {}, {})
          BY <2>5, <2>7
    <3> QED
          BY <3>1, <2>2, <2>7, <1>4, NoThrowPlain
  <2>8. CASE r.task = t
    <3>1. Sound(c, s, l, lost, {}, {t})
          BY <2>5, <2>8
    <3>2. t # None /\ t \in core.running_tasks
          BY <2>1, <2>8, StateKinds
    <3>3. t \in States /\ c \in Core /\ t \in c.running_tasks
          BY <3>1, <3>2, <2>6, <1>1, SoundShape, CoreTypes
    <3>4. ~isTerminalState(c, t)
      <4>1. core.st[t].status = "Running"
            BY <3>2, <3>3, <1>1 DEF Requested
      <4> QED
            BY <4>1, <3>3, <2>6 DEF isTerminalState
    <3>5. d \in Core /\ Ends(c, d, t, 0)
          BY <3>3, <3>4, <2>8, FailTaskFields
    <3>6. registration(c, t) = None
      <4>1. Waits(c) /\ Placed(c, s, l, {t})
            BY <3>1, SoundShape DEF CoreInv, StackInv
      <4>2. isOn(s, t)
        <5>1. Append(stack, f)[Len(stack) + 1] = f /\ Len(stack) + 1 \in DOMAIN Append(stack, f)
              BY <1>1, <1>5, AppendFields
        <5> QED
              BY <5>1, <1>5 DEF isOn
      <4> QED
            BY <4>1, <4>2 DEF Waits, Placed
    <3> HIDE DEF d
    <3>7. Sound(d, s, l, lost, {t}, {t})
      <4>1. Sound(d, s, l, lost, {} \cup {t}, {t} \cup {t})
        <5>1. 0 \in 0 .. 1 /\ ~(0 = 1)
              OBVIOUS
        <5> HIDE DEF s, l, r
        <5> QED
              BY <5>1, <3>1, <3>3, <3>5, <3>6, EndSound
      <4>2. {} \cup {t} = {t} /\ {t} \cup {t} = {t}
            OBVIOUS
      <4> QED
            BY <4>1, <4>2
    <3>8. isTerminalState(d, t)
          BY <3>5 DEF Ends
    <3>9. wake(d, s, t, "none")
          BY <2>2, <2>8, <3>2
    <3>10. Sound(core', stack', l, lost, woken(stack'), {})
           BY <3>3, <3>7, <3>8, <3>9, WakeSound
    <3> QED
          BY <3>10, <1>4, NoThrowInv
  <2> QED
        BY <2>1, <2>7, <2>8
<1> QED
      BY <1>6, <1>7

-----------------------------------------------------------------------------
(***************************************************************************)
(* An exception unwinds the stack.                                         *)
(***************************************************************************)

lastCatch(s) ==
  CHOOSE i \in DOMAIN s : catches(s[i]) /\ \A j \in DOMAIN s : catches(s[j]) => j <= i

LEMMA CatchExists ==
  ASSUME NEW s, Shape(s)
  PROVE  /\ lastCatch(s) \in DOMAIN s /\ catches(s[lastCatch(s)])
         /\ \A j \in DOMAIN s : catches(s[j]) => j <= lastCatch(s)
<1> DEFINE P == {j \in 1 .. Len(s) : catches(s[j])}
<1>1. s \in Seq(Frames) /\ Len(s) \in Nat /\ DOMAIN s = 1 .. Len(s) /\ 1 \in DOMAIN s
      BY DEF Shape
<1>2. s[1].at = "lua"
      BY <1>1 DEF Shape
<1>3. 1 \in P
      BY <1>1, <1>2 DEF catches
<1>4. P \in SUBSET (1 .. Len(s)) /\ P # {}
      BY <1>3
<1>5. \E k \in P : \A j \in P : j <= k
  <2> HIDE DEF P
  <2> QED
      BY <1>1, <1>4, LastOf
<1>6. \E k \in DOMAIN s : catches(s[k]) /\ \A j \in DOMAIN s : catches(s[j]) => j <= k
      BY <1>1, <1>5
<1> QED
      BY <1>6 DEF lastCatch

LEMMA PrefixFields ==
  ASSUME NEW s \in Seq(Frames), NEW k \in DOMAIN s
  PROVE  /\ SubSeq(s, 1, k) \in Seq(Frames) /\ Len(SubSeq(s, 1, k)) = k
         /\ k \in Nat /\ k > 0 /\ k <= Len(s)
         /\ DOMAIN SubSeq(s, 1, k) = 1 .. k
         /\ \A i \in 1 .. k : i \in DOMAIN s /\ SubSeq(s, 1, k)[i] = s[i]
         /\ Pop(SubSeq(s, 1, k)) = SubSeq(s, 1, k - 1)
<1>1. k \in 1 .. Len(s) /\ Len(s) \in Nat
      OBVIOUS
<1>2. /\ SubSeq(s, 1, k) \in Seq(Frames) /\ Len(SubSeq(s, 1, k)) = k
      /\ \A i \in 1 .. k : SubSeq(s, 1, k)[i] = s[i]
      BY <1>1
<1>3. Pop(SubSeq(s, 1, k)) = SubSeq(s, 1, k - 1)
      BY <1>1, <1>2 DEF Pop
<1> QED
      BY <1>1, <1>2, <1>3

\* The frames of s above its last catch, those of wake() among them forget whom they
\* were going to resume.
forgotten(c, s, k) ==
  UNION {f.todo \cap waitersOf(c, f.state) :
           f \in {f \in {s[i] : i \in (k + 1) .. Len(s)} : f.at = "wake"}}

LEMMA UnwindStack ==
  ASSUME NEW c, NEW s, NEW l, NEW g, NEW E, NEW F, StackInv(c, s, l, g, E, F),
         c \in Core, NEW k, k = lastCatch(s)
  PROVE  StackInv(c, SubSeq(s, 1, k), l, g \cup forgotten(c, s, k), E, F)
<1> DEFINE p == SubSeq(s, 1, k)
           g2 == g \cup forgotten(c, s, k)
<1>1. Shape(s) /\ s \in Seq(Frames) /\ Len(s) \in Nat
      BY DEF StackInv, Shape
<1>2. k \in DOMAIN s /\ \A j \in DOMAIN s : catches(s[j]) => j <= k
      BY <1>1, CatchExists
<1>3. /\ p \in Seq(Frames) /\ Len(p) = k /\ k \in Nat /\ k > 0 /\ k <= Len(s)
      /\ DOMAIN p = 1 .. k /\ \A i \in 1 .. k : i \in DOMAIN s /\ p[i] = s[i]
      BY <1>1, <1>2, PrefixFields
<1> HIDE DEF p
<1>4. \A j \in DOMAIN s : s[j].at = "lua" => j \in DOMAIN p /\ p[j] = s[j]
  <2>1. \A j \in DOMAIN s : s[j].at = "lua" => j <= k
        BY <1>2 DEF catches
  <2>2. \A j \in DOMAIN s : j <= k => j \in 1 .. k
        BY <1>1, <1>3
  <2> QED
        BY <2>1, <2>2, <1>3
<1>5. \A i \in DOMAIN p : i \in DOMAIN s /\ p[i] = s[i]
      BY <1>3
<1>6. \A t : isOn(p, t) <=> isOn(s, t)
      BY <1>4, <1>5 DEF isOn
<1>7. \A t : runs(p, t) <=> runs(s, t)
      BY <1>4, <1>5 DEF runs
<1>8. Shape(p)
  <2>1. 1 \in DOMAIN p /\ Len(p) > 0
        BY <1>3
  <2> QED
        BY <2>1, <1>1, <1>3, <1>5 DEF Shape
<1>9. Placed(c, p, l, F)
      BY <1>5, <1>6, <1>7 DEF StackInv, Placed
<1>10. Retiring(c, p, E)
       BY <1>5 DEF StackInv, Retiring
<1>11. Honest(c, p)
       BY <1>5 DEF StackInv, Honest
<1>12. Reaching(c, p, g2, F)
  <2>1. ASSUME NEW t \in Threads, c.waiters[t] # None,
               isTerminalState(c, c.waiters[t].dependency), c.waiters[t].dependency \notin F
        PROVE  isReady(c, c.waiters[t].dependency) \/ t \in g2
               \/ wakes(p, c.waiters[t].dependency, t)
    <3> DEFINE x == c.waiters[t].dependency
    <3>1. isReady(c, x) \/ t \in g \/ wakes(s, x, t)
          BY <2>1 DEF StackInv, Reaching
    <3>2. ASSUME NEW i \in DOMAIN s, s[i].at = "wake", s[i].state = x, t \in s[i].todo
          PROVE  t \in g2 \/ wakes(p, x, t)
      <4>1. CASE i <= k
        <5>1. i \in DOMAIN p
              BY <4>1, <1>1, <1>3
        <5> QED
              BY <5>1, <3>2, <1>5 DEF wakes
      <4>2. CASE i > k
        <5>1. i \in (k + 1) .. Len(s)
              BY <4>2, <1>1, <1>3
        <5>2. t \in waitersOf(c, s[i].state)
              BY <2>1, <3>2 DEF waitersOf, registration
        <5> QED
              BY <5>1, <5>2, <3>2 DEF forgotten
      <4> QED
            BY <4>1, <4>2, <1>1, <1>3
    <3> QED
          BY <3>1, <3>2 DEF wakes
  <2> HIDE DEF g2
  <2> QED
        BY <2>1 DEF Reaching
<1> QED
      BY <1>8, <1>9, <1>10, <1>11, <1>12 DEF StackInv, p

\* The blocking wait that the exception leaves returns its lease.
LEMMA UnwindLease ==
  ASSUME NEW c, NEW s, NEW l, NEW g, Sound(c, s, l, g, {}, {}), NEW k, k = lastCatch(s),
         StackInv(c, SubSeq(s, 1, k), l, g, {}, {}),
         NEW leases, leases = {f.state : f \in {f \in {s[i] : i \in (k + 1) .. Len(s)} :
                                                  f.at \in Waiting}}
  PROVE  Sound(IF leases = {} THEN c ELSE releaseHandle(c, CHOOSE x \in leases : TRUE),
               SubSeq(s, 1, k), l, g, {}, {})
<1> DEFINE p == SubSeq(s, 1, k)
<1>1. /\ c \in Core /\ Shape(s) /\ s \in Seq(Frames) /\ Len(s) \in Nat /\ CoreInv(c)
      /\ DOMAIN s = 1 .. Len(s) /\ Leases(c, s)
      BY SoundShape
<1>2. k \in DOMAIN s
      BY <1>1, CatchExists
<1>3. /\ Len(p) = k /\ k \in Nat /\ k > 0 /\ k <= Len(s)
      /\ \A i \in 1 .. k : p[i] = s[i]
      BY <1>1, <1>2, PrefixFields
<1>4. \A y : IF leased(s, y) THEN y \in States => c.st[y].handles \in 1 .. 2
             ELSE y \in States => c.st[y].handles \in 0 .. 1
      BY <1>1 DEF Leases
<1> HIDE DEF p
<1>5. CASE k = 1 /\ Len(s) >= 2 /\ s[2].at \in Waiting
  <2> DEFINE x == s[2].state
  <2>1. 2 \in DOMAIN s
        BY <1>1, <1>5
  <2>2. x \in States
        BY <2>1, <1>1, <1>5, FrameTypes DEF WaitFrames
  <2>3. leases = {x}
    <3>1. \A i \in (k + 1) .. Len(s) : s[i].at \in Waiting <=> i = 2
      <4>1. \A i \in (k + 1) .. Len(s) : i \in DOMAIN s
            BY <1>1, <1>3
      <4> QED
            BY <4>1, <1>1, <1>5 DEF Shape
    <3>2. 2 \in (k + 1) .. Len(s)
          BY <1>1, <1>5
    <3> QED
          BY <3>1, <3>2
  <2>4. \A y : leased(s, y) <=> y = x
        BY <1>5 DEF leased
  <2>5. \A y : ~leased(p, y)
        BY <1>3, <1>5 DEF leased
  <2> HIDE DEF x
  <2>6. \A y \in States :
          LET m == IF y = x THEN c.st[y].handles - 1 ELSE c.st[y].handles IN
          IF leased(p, y) THEN m \in 1 .. 2 ELSE m \in 0 .. 1
        BY <1>4, <2>4, <2>5
  <2>7. c.st[x].handles > 0
        BY <1>4, <2>2, <2>4
  <2>8. Sound(releaseHandle(c, x), p, l, g, {}, {})
        BY <2>2, <2>6, <2>7, ReleaseSound DEF p
  <2>9. leases # {} /\ (CHOOSE y \in leases : TRUE) = x
        BY <2>3
  <2> QED
        BY <2>8, <2>9 DEF p
<1>6. CASE ~(k = 1 /\ Len(s) >= 2 /\ s[2].at \in Waiting)
  <2>1. leases = {}
    <3>1. ASSUME NEW i \in (k + 1) .. Len(s), s[i].at \in Waiting
          PROVE  FALSE
      <4>1. i \in DOMAIN s
            BY <1>1, <1>3
      <4>2. i = 2
            BY <4>1, <3>1, <1>1 DEF Shape
      <4> QED
            BY <4>1, <4>2, <3>1, <1>1, <1>3, <1>6
    <3> QED
          BY <3>1
  <2>2. \A y : leased(p, y) = leased(s, y)
    <3>1. CASE k = 1
          BY <3>1, <1>3, <1>6 DEF leased
    <3>2. CASE k >= 2
      <4>1. p[2] = s[2] /\ Len(p) >= 2 /\ Len(s) >= 2
            BY <3>2, <1>1, <1>3
      <4> QED
            BY <4>1 DEF leased
    <3> QED
          BY <3>1, <3>2, <1>3
  <2>3. Leases(c, p)
        BY <2>2, <1>1 DEF Leases
  <2>4. Sound(c, p, l, g, {}, {})
        BY <2>3, <1>1 DEF Sound, p
  <2> QED
        BY <2>1, <2>4 DEF p
<1> QED
      BY <1>5, <1>6

LEMMA ThrowSound ==
  ASSUME NEW c, NEW s, NEW l, Sound(c, s, l, lost, {}, {}), Throw(c, s)
  PROVE  Sound(core', stack', l, lost', {}, {})
<1> DEFINE k == lastCatch(s)
           p == SubSeq(s, 1, k)
           left == {s[i] : i \in (k + 1) .. Len(s)}
           leases == {f.state : f \in {f \in left : f.at \in Waiting}}
           c1 == IF \E f \in left : f.at \in {"pump", "drive_end"}
                 THEN [c EXCEPT !.drive_active = FALSE] ELSE c
           c2 == IF leases = {} THEN c1 ELSE releaseHandle(c1, CHOOSE x \in leases : TRUE)
           c3 == IF c2.detach_after_drain THEN detachTransport(c2) ELSE c2
           f == [at |-> "strand", todo |-> c3.running_tasks]
           g == lost \cup forgotten(c, s, k)
<1>1. /\ lost' = g
      /\ IF s[k].at = "lua" THEN core' = c2 /\ stack' = p
         ELSE /\ core' = [c3 EXCEPT !.draining = FALSE]
              /\ stack' = Append(SubSeq(s, 1, k - 1), f)
      BY DEF Throw, lastCatch, forgotten
<1>2. /\ c \in Core /\ Shape(s) /\ s \in Seq(Frames) /\ Len(s) \in Nat
      BY SoundShape
<1>3. /\ k \in DOMAIN s /\ catches(s[k]) /\ Len(p) = k /\ p[k] = s[k]
      /\ Pop(p) = SubSeq(s, 1, k - 1)
  <2>1. k \in DOMAIN s /\ catches(s[k])
        BY <1>2, CatchExists
  <2>2. /\ Len(p) = k /\ k \in Nat /\ k > 0 /\ \A i \in 1 .. k : p[i] = s[i]
        /\ Pop(p) = SubSeq(s, 1, k - 1)
        BY <2>1, <1>2, PrefixFields
  <2>3. k \in 1 .. k
        BY <2>2
  <2> QED
        BY <2>1, <2>2, <2>3
<1> HIDE DEF k
<1>4. c1 \in Core /\ SameStates(c, c1) /\ SameEvents(c, c1) /\ c1.errors <= c.errors
  <2>1. c1 \in Core /\ SameStates(c, c1) /\ SameEvents(c, c1) /\ c1.errors = c.errors
        BY <1>2 DEF Core, SameStates, SameEvents
  <2> QED
        BY <2>1, <1>2, CoreTypes
<1> HIDE DEF c1
<1>5. Sound(c1, s, l, lost, {}, {})
      BY <1>4, FlagsSound
<1>6. forgotten(c1, s, k) = forgotten(c, s, k)
  <2>1. \A x : waitersOf(c1, x) = waitersOf(c, x)
        BY <1>4, SameWaits DEF SameStates
  <2> QED
        BY <2>1 DEF forgotten
<1>7. StackInv(c1, p, l, g, {}, {})
  <2>1. StackInv(c1, s, l, lost, {}, {})
        BY <1>5, SoundShape
  <2>2. StackInv(c1, SubSeq(s, 1, k), l, lost \cup forgotten(c1, s, k), {}, {})
        BY <2>1, <1>4, UnwindStack DEF k
  <2> QED
        BY <2>2, <1>6
<1>8. Sound(c1, s, l, g, {}, {})
      BY <1>5, WeakenSound
<1> HIDE DEF g
<1>9. Sound(c2, p, l, g, {}, {})
  <2> HIDE DEF leases
  <2>1. leases = {f0.state : f0 \in {f0 \in {s[i] : i \in (k + 1) .. Len(s)} :
                                       f0.at \in Waiting}}
        BY DEF leases
  <2> QED
        BY <2>1, <1>7, <1>8, UnwindLease DEF k
<1> HIDE DEF c2, p
<1>10. Sound(c3, p, l, g, {}, {})
       BY <1>9, DetachSound
<1> HIDE DEF c3
<1>11. CASE s[k].at = "lua"
       BY <1>1, <1>9, <1>11
<1>12. CASE s[k].at # "lua"
  <2>1. s[k].at \in Draining
        BY <1>3, <1>12 DEF catches
  <2>2. p[Len(p)].at \notin {"lua", "wake"} \cup Waiting
        BY <2>1, <1>3 DEF Draining, Waiting
  <2>3. Sound(c3, Pop(p), l, g, {}, {})
        BY <2>2, <1>10, PopPlain
  <2>4. c3 \in Core
        BY <1>10, SoundShape
  <2>5. f \in Frames /\ f.at = "strand"
    <3>1. f \in StrandFrames
          BY <2>4, CoreTypes DEF StrandFrames
    <3> QED
          BY <3>1 DEF Frames
  <2> HIDE DEF f
  <2>6. f.at \notin {"lua", "wake"} \cup Waiting
        BY <2>5 DEF Waiting
  <2>7. Sound(c3, Append(Pop(p), f), l, g, {}, {})
        BY <2>3, <2>5, <2>6, PushPlain
  <2> DEFINE d == [c3 EXCEPT !.draining = FALSE]
  <2>8. d \in Core /\ SameStates(c3, d) /\ SameEvents(c3, d) /\ d.errors <= c3.errors
    <3>1. d \in Core /\ SameStates(c3, d) /\ SameEvents(c3, d) /\ d.errors = c3.errors
          BY <2>4 DEF Core, SameStates, SameEvents
    <3> QED
          BY <3>1, <2>4, CoreTypes
  <2> HIDE DEF d
  <2>9. Sound(d, Append(Pop(p), f), l, g, {}, {})
        BY <2>7, <2>8, FlagsSound
  <2> QED
        BY <2>9, <1>1, <1>3, <1>12 DEF d
<1> QED
      BY <1>11, <1>12

LEMMA ThrowInv ==
  ASSUME NEW c, NEW s, Sound(c, s, lua', lost, {}, {}), Throw(c, s)
  PROVE  SchedulerInv'
<1>1. Sound(core', stack', lua', lost', {}, {})
      BY ThrowSound
<1>2. Sound(core', stack', lua', lost', woken(stack'), {})
      BY <1>1, WeakenSound
<1> QED
      BY <1>2 DEF SchedulerInv

-----------------------------------------------------------------------------
(***************************************************************************)
(* A coroutine ends.                                                       *)
(***************************************************************************)

\* The failure is excused if closing the client caused it.
LEMMA TeardownSound ==
  ASSUME NEW c, NEW s, NEW l, NEW g, NEW E, NEW F, Sound(c, s, l, g, E, F),
         NEW x \in States, c.st[x].kind # "none"
  PROVE  LET d == [c EXCEPT !.st[x].teardown = TRUE] IN
         /\ Sound(d, s, l, g, E, F) /\ SameElse(c, d)
         /\ \A y \in States : /\ d.st[y].status = c.st[y].status
                              /\ d.st[y].kind = c.st[y].kind
<1> DEFINE r == [c.st[x] EXCEPT !.teardown = TRUE]
           d == [c EXCEPT !.st[x].teardown = TRUE]
<1>1. /\ c \in Core /\ CoreInv(c) /\ StackInv(c, s, l, g, E, F) /\ Leases(c, s)
      BY SoundShape
<1>2. c.st[x] \in StateRecord
      BY <1>1, StateTypes
<1>3. /\ r \in StateRecord /\ r.teardown
      /\ r.kind = c.st[x].kind /\ r.status = c.st[x].status
      /\ r.waiters = c.st[x].waiters /\ r.handles = c.st[x].handles
      /\ r.handler = c.st[x].handler /\ r.observed = c.st[x].observed
      /\ r.reports = c.st[x].reports
      BY <1>2 DEF StateRecord
<1>4. d = put(c, x, r)
      BY DEF put
<1> HIDE DEF r
<1> HIDE DEF d
<1>5. /\ d \in Core /\ SameElse(c, d)
      /\ \A y \in States : d.st[y] = IF y = x THEN r ELSE c.st[y]
  <2>1. /\ put(c, x, r) \in Core /\ SameElse(c, put(c, x, r))
        /\ \A y \in States : put(c, x, r).st[y] = IF y = x THEN r ELSE c.st[y]
        BY <1>1, <1>3, PutFields
  <2> QED
        BY <2>1, <1>4
<1>6. \A y \in States :
        /\ d.st[y].kind = c.st[y].kind /\ d.st[y].status = c.st[y].status
        /\ d.st[y].waiters = c.st[y].waiters /\ d.st[y].handler = c.st[y].handler
        /\ d.st[y].handles = c.st[y].handles
        /\ d.st[y].reports = c.st[y].reports /\ d.st[y].observed = c.st[y].observed
        /\ c.st[y].teardown => d.st[y].teardown
        /\ c.st[y].kind = "none" => d.st[y] = c.st[y]
      BY <1>3, <1>5
<1>7. Touches(c, d)
      BY <1>5, <1>6 DEF Touches
<1>8. CoreInv(d)
      BY <1>1, <1>5, <1>7, TouchesCore
<1>9. StackInv(d, s, l, g, E, F)
  <2>1. \A y \in c.live \ E : d.st[y].handles = 0 => c.st[y].handles = 0
        BY <1>1, <1>6, CoreTypes
  <2> QED
        BY <2>1, <1>1, <1>5, <1>7, TouchesStack
<1>10. Leases(d, s)
       BY <1>1, <1>6 DEF Leases
<1>11. Sound(d, s, l, g, E, F)
       BY <1>8, <1>9, <1>10 DEF Sound
<1>12. \A y \in States : /\ d.st[y].status = c.st[y].status
                         /\ d.st[y].kind = c.st[y].kind
       BY <1>6
<1>13. d = [c EXCEPT !.st[x].teardown = TRUE]
       BY DEF d
<1> QED
      BY <1>5, <1>11, <1>12, <1>13

\* finishTask() of the coroutine that has left the stack.
LEMMA FinishSound ==
  ASSUME NEW c, NEW s, NEW l, NEW g, NEW x \in States, NEW failed \in BOOLEAN,
         Sound(c, s, l, g, {}, {x} \cap c.running_tasks),
         x \in c.running_tasks => registration(c, x) = None,
         c.st[x].status # "Pending", finishTask(c, s, x, failed)
  PROVE  Sound(core', stack', l, g, woken(stack'), {})
<1> DEFINE d == finishSerializedEvent(endTask(c, x, failed), x)
           after == IF c.st[x].kind = "LegacyRequest" /\ failed THEN "finish" ELSE "none"
<1>1. c \in Core /\ Requested(c)
      BY SoundShape DEF CoreInv
<1>2. IF isTerminalState(c, x) THEN core' = c /\ stack' = s ELSE wake(d, s, x, after)
      BY DEF finishTask
<1>3. CASE isTerminalState(c, x)
  <2>1. {x} \cap c.running_tasks = {}
        BY <1>1, <1>3 DEF Requested, isTerminalState
  <2>2. Sound(c, s, l, g, {}, {})
        BY <2>1
  <2>3. Sound(c, s, l, g, woken(s), {})
        BY <2>2, WeakenSound
  <2> QED
        BY <2>3, <1>2, <1>3
<1>4. CASE ~isTerminalState(c, x)
  <2>1. x \in c.running_tasks
    <3>1. c.st[x].status = "Running"
          BY <1>1, <1>4, StateTypes DEF isTerminalState, Statuses
    <3> QED
          BY <3>1, <1>1 DEF Requested
  <2>2. {x} \cap c.running_tasks = {x}
        BY <2>1
  <2>3. Sound(c, s, l, g, {}, {x})
        BY <2>2
  <2>4. Sound(d, s, l, g, {} \cup {x}, {x} \cup {x}) /\ isTerminalState(d, x)
        BY <2>1, <2>3, TaskEndsSound
  <2>5. {} \cup {x} = {x} /\ {x} \cup {x} = {x}
        OBVIOUS
  <2> HIDE DEF d
  <2>6. Sound(d, s, l, g, {x}, {x})
        BY <2>4, <2>5
  <2>7. after \in {"none", "finish", "setup"}
        OBVIOUS
  <2> HIDE DEF after
  <2>8. wake(d, s, x, after)
        BY <1>2, <1>4
  <2> QED
        BY <2>4, <2>6, <2>7, <2>8, WakeSound
<1> QED
      BY <1>3, <1>4

LEMMA ReturnStep ==
  ASSUME SchedulerInv, NEW failed \in BOOLEAN, NEW same \in BOOLEAN, Return(failed, same)
  PROVE  SchedulerInv'
<1> DEFINE s == Pop(stack)
           x == Top.task
           l == [lua EXCEPT ![Top.thread] = "dead"]
           c == IF same THEN [core EXCEPT !.st[x].teardown = TRUE] ELSE core
<1>1. /\ Sound(core, stack, lua, lost, {}, {}) /\ core \in Core /\ Shape(stack)
      /\ Waits(core) /\ Requested(core) /\ Placed(core, stack, lua, {})
      /\ Top = stack[Len(stack)] /\ Len(stack) \in DOMAIN stack
      /\ stack[Len(stack)].at = "lua" /\ stack[Len(stack)].thread # Main
      BY TopSound, SoundShape DEF Return, runsLua, CoreInv, StackInv
<1>2. Sound(core, s, l, lost, {}, {x} \cap core.running_tasks)
      BY <1>1, LeaveSound
<1>3. lua' = l
      BY DEF Return
<1>4. IF Top.by = "lua" THEN core' = core /\ stack' = s /\ NoThrow
      ELSE IF x # None THEN finishTask(c, s, x, failed) /\ NoThrow
      ELSE IF failed /\ ~same THEN Throw(core, s)
           ELSE core' = core /\ stack' = s /\ NoThrow
      BY DEF Return
<1>5. x \in {None, Top.thread} /\ (Top.by = "lua" => x = None)
      BY <1>1 DEF Shape
<1>6. x = None => Sound(core, s, l, lost, {}, {})
  <2>1. core.running_tasks \subseteq States
        BY <1>1, CoreTypes
  <2>2. x = None => {x} \cap core.running_tasks = {}
        BY <2>1, StateKinds
  <2> QED
        BY <2>2, <1>2
<1>7. CASE x = None
  <2>1. (core' = core /\ stack' = s /\ NoThrow) \/ Throw(core, s)
        BY <1>4, <1>7
  <2>2. Sound(core, s, lua', lost, {}, {})
        BY <1>3, <1>6, <1>7
  <2> HIDE DEF s
  <2>3. CASE core' = core /\ stack' = s /\ NoThrow
        BY <2>2, <2>3, NoThrowPlain
  <2>4. CASE Throw(core, s)
        BY <2>2, <2>4, ThrowInv
  <2> QED
        BY <2>1, <2>3, <2>4
<1>8. CASE x # None
  <2>1. finishTask(c, s, x, failed) /\ NoThrow
        BY <1>4, <1>5, <1>8
  <2>2. x \in States /\ x = Top.thread
    <3>1. Top \in LuaFrames
          BY <1>1, FrameTypes DEF Shape
    <3> QED
          BY <3>1, <1>5, <1>8 DEF LuaFrames
  <2>3. core.st[x].status # "Pending"
        BY <1>1, <1>8 DEF Placed
  <2>4. core.st[x].kind # "none"
    <3>1. core.st[x].kind = "none" => core.st[x] = NoState
          BY <1>1, <2>2 DEF Requested
    <3>2. NoState.status = "Pending"
          BY DEF NoState
    <3> QED
          BY <3>1, <3>2, <2>3
  <2>5. registration(core, x) = None
    <3>1. x \notin core.waitBindings
          BY <1>1, <2>2 DEF Placed, isOn
    <3> QED
          BY <3>1, <2>2, <1>1, StateKinds DEF Waits
  <2> HIDE DEF l, x, s
  <2>6. /\ Sound(c, s, l, lost, {}, {x} \cap core.running_tasks)
        /\ c.running_tasks = core.running_tasks /\ registration(c, x) = None
        /\ c.st[x].status # "Pending"
    <3>1. CASE same
      <4> DEFINE e == [core EXCEPT !.st[x].teardown = TRUE]
      <4>1. /\ Sound(e, s, l, lost, {}, {x} \cap core.running_tasks) /\ SameElse(core, e)
            /\ \A y \in States : e.st[y].status = core.st[y].status
            BY <1>2, <2>2, <2>4, TeardownSound
      <4> HIDE DEF e
      <4>2. registration(e, x) = registration(core, x)
            BY <4>1, SameWaits DEF SameElse
      <4>3. c = e
            BY <3>1 DEF e
      <4> QED
            BY <4>1, <4>2, <4>3, <2>2, <2>3, <2>5 DEF SameElse
    <3>2. CASE ~same
          BY <3>2, <1>2, <2>3, <2>5
    <3> QED
          BY <3>1, <3>2
  <2> HIDE DEF c
  <2>7. Sound(c, s, l, lost, {}, {x} \cap c.running_tasks)
        BY <2>6
  <2>8. Sound(core', stack', l, lost, woken(stack'), {})
        BY <2>1, <2>2, <2>6, <2>7, FinishSound
  <2> QED
        BY <2>1, <2>8, <1>3, NoThrowInv
<1> QED
      BY <1>7, <1>8

-----------------------------------------------------------------------------
(***************************************************************************)
(* The steps of tick().                                                    *)
(***************************************************************************)

LEMMA DeliverableItem ==
  ASSUME NEW item, deliverable(item)
  PROVE  /\ item.kind = "response" => item.id \in core.pending
         /\ item.kind = "update" => core.event \in EventIds
      BY DEF deliverable

LEMMA ReceiveStep ==
  ASSUME SchedulerInv, NEW item \in Items, receive(item)
  PROVE  SchedulerInv'
<1>1. Sound(core, stack, lua, lost, {}, {})
      BY TopSound DEF receive, runsLua
<1>2. /\ item.kind = "response" => item.id \in core.pending
      /\ item.kind = "update" => core.event \in EventIds
      BY DeliverableItem DEF receive
<1>3. pumpOnto(stack, item) /\ lua' = lua /\ NoThrow
      BY DEF receive
<1>4. Sound(core', stack', lua, lost, woken(stack'), {})
      BY <1>1, <1>2, <1>3, PumpSound
<1> QED
      BY <1>3, <1>4, NoThrowInv

\* The top frame moves on.
LEMMA GoToSound ==
  ASSUME NEW c, NEW l, NEW g, NEW E, NEW F, Sound(c, stack, l, g, E, F), NEW place,
         \/ Top.at \in Ticking /\ place \in Ticking
         \/ Top.at \in Waiting /\ place \in Waiting
         \/ Top.at = "pump" /\ place = "drive_end"
  PROVE  Sound(c, GoTo(place), l, g, E, F)
<1> DEFINE f == [Top EXCEPT !.at = place]
<1>1. /\ stack \in Seq(Frames) /\ Len(stack) \in DOMAIN stack /\ Top = stack[Len(stack)]
  <2>1. stack \in Seq(Frames) /\ Len(stack) \in Nat /\ Len(stack) > 0
        BY SoundShape
  <2> QED
        BY <2>1 DEF Top
<1>2. Top \in Frames
      BY <1>1, FrameTypes
<1>3. /\ f \in Frames /\ f.at = place
      /\ place \in Waiting => f.state = Top.state
  <2>1. CASE Top.at \in Ticking /\ place \in Ticking
    <3>1. Top \in TickFrames
          BY <2>1, <1>1, FrameTypes
    <3>2. f \in TickFrames /\ f.at = place
          BY <3>1, <2>1 DEF TickFrames
    <3> QED
          BY <3>2, <2>1 DEF Frames, Ticking, Draining, Waiting
  <2>2. CASE Top.at \in Waiting /\ place \in Waiting
    <3>1. Top \in WaitFrames
          BY <2>2, <1>1, FrameTypes
    <3>2. f \in WaitFrames /\ f.at = place /\ f.state = Top.state
          BY <3>1, <2>2 DEF WaitFrames
    <3> QED
          BY <3>2 DEF Frames
  <2>3. CASE Top.at = "pump" /\ place = "drive_end"
    <3>1. Top \in DriveFrames
          BY <2>3, <1>2 DEF Frames, LuaFrames, WakeFrames, TickFrames, StrandFrames,
                             WaitFrames, Ticking, Draining, Waiting
    <3>2. f \in DriveFrames /\ f.at = place
          BY <3>1, <2>3 DEF DriveFrames
    <3> QED
          BY <3>2, <2>3 DEF Frames, Waiting
  <2> QED
        BY <2>1, <2>2, <2>3
<1>4. GoTo(place) = Swap(stack, f)
      BY DEF GoTo
<1> HIDE DEF f
<1>5. /\ f.at \notin {"lua", "wake"} /\ stack[Len(stack)].at \notin {"lua", "wake"}
      /\ \/ f.at \notin Waiting /\ stack[Len(stack)].at \notin Waiting
         \/ f.at \in Waiting /\ stack[Len(stack)].at \in Waiting
            /\ f.state = stack[Len(stack)].state
      BY <1>1, <1>3 DEF Waiting, Ticking, Draining
<1> QED
      BY <1>3, <1>4, <1>5, SwapPlain

\* Another plain frame takes the place of one.
LEMMA ReplaceSound ==
  ASSUME NEW c, NEW s, NEW l, NEW g, NEW E, NEW F, Sound(c, s, l, g, E, F),
         s[Len(s)].at \in Ticking \cup {"strand"},
         NEW f, f \in TickFrames \cup StrandFrames
  PROVE  Sound(c, Swap(s, f), l, g, E, F)
<1>1. f \in Frames /\ f.at \notin {"lua", "wake"} \cup Waiting
      BY DEF Frames, TickFrames, StrandFrames, Ticking, Draining, Waiting
<1>2. s[Len(s)].at \notin {"lua", "wake"} \cup Waiting
      BY DEF Ticking, Draining, Waiting
<1> QED
      BY <1>1, <1>2, SwapPlain

LEMMA EnterDrainSound ==
  ASSUME NEW c, NEW s, NEW l, NEW g, Sound(c, s, l, g, {}, {}), s[Len(s)].at \in Ticking,
         enterDrain(c, s)
  PROVE  Sound(core', stack', l, g, {}, {})
<1>1. c \in Core
      BY SoundShape
<1>2. CASE c.draining
  <2>1. core' = c /\ stack' = Pop(s)
        BY <1>2 DEF enterDrain
  <2>2. s[Len(s)].at \notin {"lua", "wake"} \cup Waiting
        BY DEF Ticking, Draining, Waiting
  <2> QED
        BY <2>1, <2>2, PopPlain
<1>3. CASE ~c.draining
  <2> DEFINE d == [c EXCEPT !.draining = TRUE]
             f == [at |-> "drain", todo |-> {}]
  <2>1. core' = d /\ stack' = Swap(s, f)
        BY <1>3 DEF enterDrain
  <2>2. d \in Core /\ SameStates(c, d) /\ SameEvents(c, d) /\ d.errors <= c.errors
    <3>1. d \in Core /\ SameStates(c, d) /\ SameEvents(c, d) /\ d.errors = c.errors
          BY <1>1 DEF Core, SameStates, SameEvents
    <3> QED
          BY <3>1, <1>1, CoreTypes
  <2> HIDE DEF d
  <2>3. Sound(d, s, l, g, {}, {})
        BY <2>2, FlagsSound
  <2>4. f \in TickFrames
        BY DEF TickFrames, Ticking, Draining
  <2> HIDE DEF f
  <2> QED
        BY <2>1, <2>3, <2>4, ReplaceSound
<1> QED
      BY <1>2, <1>3

\* Some deadlines have passed.
Marks(c, d) ==
  /\ \A t \in Threads :
       /\ d.waiters[t] = None <=> c.waiters[t] = None
       /\ c.waiters[t] # None =>
            /\ d.waiters[t].dependency = c.waiters[t].dependency
            /\ d.waiters[t].task = c.waiters[t].task
            /\ d.waiters[t].timed = c.waiters[t].timed
            /\ d.waiters[t].expired => c.waiters[t].expired \/ c.waiters[t].timed
  /\ d.notifications = c.notifications
  /\ d.st = c.st /\ d.live = c.live /\ d.next = c.next /\ d.pending = c.pending
  /\ d.pending_requests = c.pending_requests /\ d.waitBindings = c.waitBindings
  /\ d.running_tasks = c.running_tasks /\ d.ready = c.ready
  /\ d.errors = c.errors /\ SameEvents(c, d)

LEMMA MarksSound ==
  ASSUME NEW c, NEW d \in Core, NEW s, NEW l, NEW g, NEW E, NEW F, Sound(c, s, l, g, E, F),
         Marks(c, d)
  PROVE  Sound(d, s, l, g, E, F)
<1>1. /\ c \in Core /\ Waits(c) /\ Requested(c) /\ Reported(c) /\ Serial(c)
      /\ StackInv(c, s, l, g, E, F) /\ Leases(c, s)
      BY SoundShape DEF CoreInv
<1>2. \A t \in Threads :
        /\ registration(d, t) = None <=> registration(c, t) = None
        /\ registration(c, t) # None =>
             /\ registration(d, t).dependency = registration(c, t).dependency
             /\ registration(d, t).task = registration(c, t).task
             /\ registration(d, t).expired
                  => registration(c, t).expired \/ registration(d, t).timed
             /\ registration(d, t).timed = registration(c, t).timed
      BY DEF Marks, registration
<1>3. \A x : waitersOf(d, x) = waitersOf(c, x)
      BY <1>2 DEF waitersOf
<1>4. \A x : isReady(d, x) = isReady(c, x)
      BY DEF isReady, Marks
<1>5. \A x : isTerminalState(d, x) = isTerminalState(c, x)
      BY DEF isTerminalState, Marks
<1>6. Waits(d)
  <2>1. \A t \in Threads : d.waiters[t] = None \/ d.notifications[t] = None
        BY <1>1 DEF Waits, Marks
  <2>2. d.waitBindings = {t \in Threads : registration(d, t) # None}
        BY <1>1, <1>2 DEF Waits, Marks
  <2>3. \A x \in States : d.st[x].waiters = Cardinality(waitersOf(d, x))
        BY <1>1, <1>3 DEF Waits, Marks
  <2>4. \A x \in States : d.st[x].waiters > 0 \/ d.st[x].handles > 0 => x \in d.live
        BY <1>1 DEF Waits, Marks
  <2>5. \A t \in Threads : d.notifications[t] # None
                             => isTerminalState(d, d.notifications[t].dependency)
        BY <1>1, <1>5 DEF Waits, Marks
  <2>6. ASSUME NEW t \in d.waitBindings
        PROVE  LET r == registration(d, t) IN
               /\ r.task \in {None, t} /\ (r.task # None => t \in d.running_tasks)
               /\ r.expired => r.timed
    <3>1. t \in c.waitBindings /\ t \in Threads /\ d.running_tasks = c.running_tasks
          BY <2>6, <1>1, CoreTypes DEF Marks
    <3>2. registration(c, t) # None
          BY <3>1, <1>1 DEF Waits
    <3>3. /\ registration(c, t).task \in {None, t}
          /\ registration(c, t).task # None => t \in c.running_tasks
          /\ registration(c, t).expired => registration(c, t).timed
          BY <3>1, <1>1 DEF Waits
    <3> QED
          BY <3>1, <3>2, <3>3, <1>2
  <2> QED
        BY <2>1, <2>2, <2>3, <2>4, <2>5, <2>6 DEF Waits
<1>7. Requested(d)
      BY <1>1, <1>4, <1>5 DEF Requested, Marks
<1>8. Reported(d)
      BY <1>1, <1>5 DEF Reported, Marks
<1>9. Serial(d)
      BY <1>1, <1>5, SameSerial DEF Marks, SameEvents
<1>10. Placed(d, s, l, F)
  <2>1. Placed(c, s, l, F) /\ c.waitBindings \subseteq Threads /\ c.running_tasks \subseteq Threads
        BY <1>1, CoreTypes, StateKinds DEF StackInv
  <2>2. d.waitBindings = c.waitBindings /\ d.running_tasks = c.running_tasks /\ d.st = c.st
        BY DEF Marks
  <2>3. \A x \in c.waitBindings : registration(d, x).task = registration(c, x).task
        BY <1>1, <1>2, <2>1 DEF Waits
  <2> QED
        BY <2>1, <2>2, <2>3 DEF Placed
<1>11. Retiring(d, s, E)
       BY <1>1, <1>4, <1>5 DEF StackInv, Retiring, Marks
<1>12. Reaching(d, s, g, F)
       BY <1>1, <1>4, <1>5 DEF StackInv, Reaching, Marks
<1>13. Honest(d, s)
       BY <1>1 DEF StackInv, Honest, Marks
<1>14. Leases(d, s)
       BY <1>1 DEF Leases, Marks
<1> QED
      BY <1>1, <1>6, <1>7, <1>8, <1>9, <1>10, <1>11, <1>12, <1>13, <1>14
      DEF Sound, CoreInv, StackInv

LEMMA OutcomeOf ==
  ASSUME NEW c, NEW x, isTerminalState(c, x)
  PROVE  /\ outcomeOf(c, x) \in {"Success", "Failed", "Timeout"}
         /\ outcomeOf(c, x) = "Success" => c.st[x].status \in {"Resolved", "Done"}
         /\ outcomeOf(c, x) = "Failed" => c.st[x].status = "Failed"
         /\ outcomeOf(c, x) # "Timeout"
      BY DEF outcomeOf, isTerminalState

LEMMA DrainNotificationsStep ==
  ASSUME SchedulerInv, DrainNotifications
  PROVE  SchedulerInv'
<1>1. /\ Sound(core, stack, lua, lost, {}, {}) /\ core \in Core /\ Waits(core)
      /\ Top = stack[Len(stack)] /\ Top.at \in {"notify", "notify_detached"}
      /\ Top.at \in Ticking
      BY TopSound DEF DrainNotifications, CoreInv, Ticking, Draining
<1>2. NoThrow /\ lua' = lua
      BY DEF DrainNotifications
<1>3. CASE \E t \in Threads : core.notifications[t] # None
  <2>1. PICK t \in Threads :
          /\ core.notifications[t] # None
          /\ resume(core, stack, t, core.notifications[t].dependency,
                    outcomeOf(core, core.notifications[t].dependency))
        BY <1>3 DEF DrainNotifications
  <2> DEFINE x == core.notifications[t].dependency
             o == outcomeOf(core, x)
  <2>2. registration(core, t) = core.notifications[t]
        BY <2>1, <1>1 DEF Waits, registration
  <2>3. x \in States /\ isTerminalState(core, x)
        BY <2>1, <2>2, <1>1, RegistrationType DEF Waits
  <2>4. /\ o \in {"Success", "Failed", "Timeout"} /\ o # "Timeout"
        /\ o = "Success" => core.st[x].status \in {"Resolved", "Done"}
        /\ o = "Failed" => core.st[x].status = "Failed"
        BY <2>3, OutcomeOf
  <2>5. registration(core, t) # None /\ registration(core, t).dependency = x
        BY <2>1, <2>2
  <2>6. resume(core, stack, t, x, o)
        BY <2>1
  <2> HIDE DEF o, x
  <2>7. Sound(core, stack, lua, lost \cup {t}, {}, {})
        BY <1>1, WeakenSound
  <2>8. Sound(core', stack', lua, lost, {} \ {x}, {})
        BY <2>3, <2>4, <2>5, <2>6, <2>7, ResumeSound
  <2>9. {} \ {x} = {}
        OBVIOUS
  <2>10. Sound(core', stack', lua, lost, {}, {})
         BY <2>8, <2>9
  <2> QED
        BY <2>10, <1>2, NoThrowPlain
<1>4. CASE /\ ~(\E t \in Threads : core.notifications[t] # None)
           /\ Top.at = "notify_detached"
  <2>1. core' = core /\ stack' = GoTo("drain")
        BY <1>4 DEF DrainNotifications
  <2>2. "drain" \in Ticking
        BY DEF Ticking, Draining
  <2>3. Sound(core, GoTo("drain"), lua, lost, {}, {})
        BY <2>2, <1>1, GoToSound
  <2> QED
        BY <2>1, <2>3, <1>2, NoThrowPlain
<1>5. CASE /\ ~(\E t \in Threads : core.notifications[t] # None)
           /\ Top.at # "notify_detached"
  <2>1. PICK passed \in SUBSET {t \in Threads : core.waiters[t] # None
                                               /\ core.waiters[t].timed} :
          LET c == [core EXCEPT !.waiters =
                      [t \in Threads |-> IF t \in passed
                         THEN [core.waiters[t] EXCEPT !.expired = TRUE] ELSE @[t]]]
              due == {t \in Threads : c.waiters[t] # None /\ c.waiters[t].expired}
          IN IF due = {} THEN enterDrain(c, stack)
             ELSE core' = c /\ stack' = Swap(stack, [at |-> "expire", todo |-> due])
        BY <1>5 DEF DrainNotifications
  <2> DEFINE w == [t \in Threads |-> IF t \in passed
                     THEN [core.waiters[t] EXCEPT !.expired = TRUE] ELSE core.waiters[t]]
             c == [core EXCEPT !.waiters = w]
             due == {t \in Threads : c.waiters[t] # None /\ c.waiters[t].expired}
             f == [at |-> "expire", todo |-> due]
  <2>2. \/ enterDrain(c, stack)
        \/ core' = c /\ stack' = Swap(stack, f)
        BY <2>1
  <2>3. /\ w \in [Threads -> WaitRecord \cup {None}]
        /\ \A t \in Threads :
             /\ w[t] = None <=> core.waiters[t] = None
             /\ core.waiters[t] # None =>
                  /\ w[t].dependency = core.waiters[t].dependency
                  /\ w[t].task = core.waiters[t].task
                  /\ w[t].timed = core.waiters[t].timed
                  /\ w[t].expired => core.waiters[t].expired \/ core.waiters[t].timed
    <3>1. \A t \in Threads : core.waiters[t] \in WaitRecord \cup {None}
          BY <1>1, CoreTypes
    <3>2. ASSUME NEW t \in passed
          PROVE  /\ t \in Threads /\ core.waiters[t] \in WaitRecord /\ core.waiters[t].timed
                 /\ w[t] = [core.waiters[t] EXCEPT !.expired = TRUE]
          BY <3>1
    <3>3. ASSUME NEW t \in passed
          PROVE  /\ w[t] \in WaitRecord /\ w[t].dependency = core.waiters[t].dependency
                 /\ w[t].task = core.waiters[t].task /\ w[t].timed = core.waiters[t].timed
      <4> HIDE DEF w
      <4> QED
          BY <3>2, ZenonT(40) DEF WaitRecord
    <3>4. \A t \in Threads \ passed : w[t] = core.waiters[t]
          OBVIOUS
    <3>5. \A t \in Threads : w[t] \in WaitRecord \cup {None}
          BY <3>1, <3>3, <3>4
    <3>6. w \in [Threads -> WaitRecord \cup {None}]
      <4>1. w = [t \in Threads |-> w[t]]
            OBVIOUS
      <4> HIDE DEF w
      <4> QED
          BY <4>1, <3>5
    <3> HIDE DEF w
    <3>7. ASSUME NEW t \in Threads
          PROVE  /\ w[t] = None <=> core.waiters[t] = None
                 /\ core.waiters[t] # None =>
                      /\ w[t].dependency = core.waiters[t].dependency
                      /\ w[t].task = core.waiters[t].task
                      /\ w[t].timed = core.waiters[t].timed
                      /\ w[t].expired => core.waiters[t].expired \/ core.waiters[t].timed
      <4>1. CASE t \in passed
        <5>1. w[t] # None /\ core.waiters[t] # None
              BY <4>1, <3>2, <3>3, StateKinds
        <5> QED
              BY <5>1, <4>1, <3>2, <3>3
      <4>2. CASE t \notin passed
        <5>1. w[t] = core.waiters[t]
              BY <4>2, <3>4
        <5> QED
              BY <5>1
      <4> QED
            BY <4>1, <4>2
    <3> QED
          BY <3>6, <3>7
  <2> HIDE DEF w
  <2>4. c \in Core /\ Marks(core, c)
    <3>1. c \in Core /\ c.waiters = w
          BY <2>3, <1>1 DEF Core
    <3>2. /\ c.notifications = core.notifications
          /\ c.st = core.st /\ c.live = core.live /\ c.next = core.next
          /\ c.pending = core.pending
          /\ c.pending_requests = core.pending_requests
          /\ c.waitBindings = core.waitBindings
          /\ c.running_tasks = core.running_tasks /\ c.ready = core.ready
          /\ c.errors = core.errors /\ SameEvents(core, c)
          BY <1>1 DEF Core, SameEvents
    <3> HIDE DEF c
    <3> QED
          BY <3>1, <3>2, <2>3 DEF Marks
  <2>5. f \in TickFrames
        BY DEF TickFrames, Ticking
  <2> HIDE DEF c, f
  <2>6. Sound(c, stack, lua, lost, {}, {})
        BY <2>4, <1>1, MarksSound
  <2>7. CASE enterDrain(c, stack)
    <3>1. Sound(core', stack', lua, lost, {}, {})
          BY <2>6, <2>7, <1>1, EnterDrainSound
    <3> QED
          BY <3>1, <1>2, NoThrowPlain
  <2>8. CASE core' = c /\ stack' = Swap(stack, f)
    <3>1. Sound(c, Swap(stack, f), lua, lost, {}, {})
          BY <2>5, <2>6, <1>1, ReplaceSound
    <3> QED
          BY <3>1, <2>8, <1>2, NoThrowPlain
  <2> QED
        BY <2>2, <2>7, <2>8
<1> QED
      BY <1>3, <1>4, <1>5

LEMMA DrainExpiredStep ==
  ASSUME SchedulerInv, DrainExpired
  PROVE  SchedulerInv'
<1>1. /\ Sound(core, stack, lua, lost, {}, {}) /\ core \in Core
      /\ Top = stack[Len(stack)] /\ Top.at = "expire" /\ Top.at \in Ticking
      /\ stack \in Seq(Frames) /\ Len(stack) \in DOMAIN stack
      BY TopSound DEF DrainExpired, Ticking
<1>2. NoThrow /\ lua' = lua
      BY DEF DrainExpired
<1>3. CASE Top.todo = {}
  <2>1. enterDrain(core, stack)
        BY <1>3 DEF DrainExpired
  <2>2. Sound(core', stack', lua, lost, {}, {})
        BY <2>1, <1>1, EnterDrainSound
  <2> QED
        BY <2>2, <1>2, NoThrowPlain
<1>4. CASE Top.todo # {}
  <2>1. PICK t \in Top.todo :
          LET s == Swap(stack, [Top EXCEPT !.todo = @ \ {t}])
              w == core.waiters[t]
          IN IF w # None /\ w.timed /\ w.expired
             THEN resume(core, s, t, w.dependency, "Timeout")
             ELSE core' = core /\ stack' = s
        BY <1>4 DEF DrainExpired
  <2> DEFINE f == [Top EXCEPT !.todo = @ \ {t}]
             s == Swap(stack, f)
             w == core.waiters[t]
             x == w.dependency
  <2>2. Top \in TickFrames
        BY <1>1, FrameTypes
  <2>3. f \in TickFrames /\ t \in Threads
        BY <2>2 DEF TickFrames
  <2> HIDE DEF f
  <2>4. Sound(core, s, lua, lost, {}, {})
        BY <2>3, <1>1, ReplaceSound
  <2>5. \/ w # None /\ w.timed /\ w.expired /\ resume(core, s, t, x, "Timeout")
        \/ core' = core /\ stack' = s
        BY <2>1 DEF f
  <2> HIDE DEF s
  <2>6. CASE w # None /\ w.timed /\ w.expired /\ resume(core, s, t, x, "Timeout")
    <3>1. registration(core, t) = w
          BY <2>6 DEF registration
    <3>2. x \in States
          BY <3>1, <2>3, <2>6, <1>1, RegistrationType
    <3>3. Sound(core, s, lua, lost \cup {t}, {}, {})
          BY <2>4, WeakenSound
    <3>4. /\ registration(core, t) # None /\ registration(core, t).dependency = x
          /\ registration(core, t).timed /\ registration(core, t).expired
          BY <3>1, <2>6
    <3> HIDE DEF w, x
    <3>5. Sound(core', stack', lua, lost, {} \ {x}, {})
      <4>1. "Timeout" \in {"Success", "Failed", "Timeout"}
            OBVIOUS
      <4> QED
            BY <4>1, <3>2, <3>3, <3>4, <2>3, <2>6, ResumeSound
    <3>6. {} \ {x} = {}
          OBVIOUS
    <3>7. Sound(core', stack', lua, lost, {}, {})
          BY <3>5, <3>6
    <3> QED
          BY <3>7, <1>2, NoThrowPlain
  <2>7. CASE core' = core /\ stack' = s
        BY <2>4, <2>7, <1>2, NoThrowPlain
  <2> QED
        BY <2>5, <2>6, <2>7
<1> QED
      BY <1>3, <1>4

LEMMA DrainReadyStep ==
  ASSUME SchedulerInv, DrainReady
  PROVE  SchedulerInv'
<1> DEFINE x == Head(core.ready)
           c == [core EXCEPT !.ready = Tail(@)]
<1>1. Sound(core, stack, lua, lost, {}, {}) /\ core \in Core /\ core.ready # <<>> /\ NoThrow
      BY TopSound DEF DrainReady
<1>2. /\ x \in States /\ c.st = core.st
      /\ isTerminalState(core, x) => Sound(c, stack, lua, lost, {} \cup {x}, {} \cup {x})
      /\ ~isTerminalState(core, x) =>
           /\ Sound(c, stack, lua, lost, {}, {})
           /\ x \in c.live /\ x \notin c.pending /\ core.st[x].kind # "none"
      BY <1>1, TailReadySound
<1>3. IF isTerminalState(c, x) THEN wake(c, stack, x, "none") /\ lua' = lua
      ELSE runTask(c, stack, x)
      BY DEF DrainReady
<1> HIDE DEF c, x
<1>4. isTerminalState(c, x) = isTerminalState(core, x)
      BY <1>2 DEF isTerminalState
<1>5. CASE isTerminalState(c, x)
  <2>1. {} \cup {x} = {x}
        OBVIOUS
  <2>2. Sound(c, stack, lua, lost, {x}, {x})
        BY <1>2, <1>4, <1>5, <2>1
  <2>3. wake(c, stack, x, "none") /\ lua' = lua
        BY <1>3, <1>5
  <2>4. "none" \in {"none", "finish", "setup"}
        OBVIOUS
  <2>5. Sound(core', stack', lua, lost, woken(stack'), {})
        BY <1>2, <1>5, <2>2, <2>3, <2>4, WakeSound
  <2> QED
        BY <2>3, <2>5, <1>1, NoThrowInv
<1>6. CASE ~isTerminalState(c, x)
  <2>1. /\ Sound(c, stack, lua, lost, {}, {})
        /\ x \in c.live /\ x \notin c.pending /\ c.st[x].kind # "none"
        BY <1>2, <1>4, <1>6
  <2>2. runTask(c, stack, x)
        BY <1>3, <1>6
  <2>3. CASE c.st[x].status # "Pending"
    <3>1. core' = c /\ stack' = stack /\ lua' = lua
          BY <2>2, <2>3 DEF runTask
    <3> QED
          BY <3>1, <2>1, <1>1, NoThrowPlain
  <2>4. CASE c.st[x].status = "Pending"
    <3>1. /\ core' = runState(c, x)
          /\ stack' = Append(stack, LuaFrame(x, "run", x, None, "none", FALSE))
          /\ lua' = [lua EXCEPT ![x] = "live"]
          BY <2>2, <2>4 DEF runTask, runState
    <3>2. Sound(runState(c, x), Append(stack, LuaFrame(x, "run", x, None, "none", FALSE)),
                [lua EXCEPT ![x] = "live"], lost, {}, {})
          BY <2>1, <2>4, RunSound
    <3> QED
          BY <3>1, <3>2, <1>1, NoThrowPlain
  <2> QED
        BY <2>3, <2>4
<1> QED
      BY <1>5, <1>6

LEMMA DrainDeferredStep ==
  ASSUME SchedulerInv, DrainDeferred
  PROVE  SchedulerInv'
<1> DEFINE x == Head(core.deferred_events)
           d == [core EXCEPT !.deferred_events = Tail(@)]
           place == IF Len(core.deferred_events) = 1 THEN "drain" ELSE "bind"
<1>1. /\ Sound(core, stack, lua, lost, {}, {}) /\ core.deferred_events # <<>>
      /\ Top.at \in Ticking
      BY TopSound DEF DrainDeferred, Ticking, Draining
<1>2. Sound(d, stack, lua, lost, {}, {}) /\ isNext(d, x)
      BY <1>1, TailDeferredSound
<1>3. core' = bindDeferredEvent(d, x) /\ stack' = GoTo(place) /\ NoThrow /\ lua' = lua
      BY DEF DrainDeferred
<1> HIDE DEF d, x
<1>4. Sound(bindDeferredEvent(d, x), stack, lua, lost, {}, {})
      BY <1>2, BindSound
<1>5. place \in Ticking
      BY DEF Ticking, Draining
<1> HIDE DEF place
<1>6. Sound(bindDeferredEvent(d, x), GoTo(place), lua, lost, {}, {})
      BY <1>1, <1>4, <1>5, GoToSound
<1> QED
      BY <1>3, <1>6, NoThrowPlain

LEMMA DrainRestStep ==
  ASSUME SchedulerInv, DrainRest
  PROVE  SchedulerInv'
<1>1. /\ Sound(core, stack, lua, lost, {}, {}) /\ core \in Core
      /\ Top = stack[Len(stack)] /\ Top.at = "drain" /\ Top.at \in Ticking
      /\ NoThrow /\ lua' = lua
      BY TopSound DEF DrainRest, Ticking, Draining
<1>2. CASE core.detach_after_drain
  <2>1. core' = detachTransport(core) /\ stack' = GoTo("notify_detached")
        BY <1>2 DEF DrainRest
  <2>2. Sound(detachTransport(core), stack, lua, lost, {}, {})
        BY <1>1, DetachSound
  <2>3. "notify_detached" \in Ticking
        BY DEF Ticking, Draining
  <2>4. Sound(detachTransport(core), GoTo("notify_detached"), lua, lost, {}, {})
        BY <2>2, <2>3, <1>1, GoToSound
  <2> QED
        BY <2>1, <2>4, <1>1, NoThrowPlain
<1>3. CASE ~core.detach_after_drain /\ core.errors = 0
  <2> DEFINE d == [core EXCEPT !.draining = FALSE]
  <2>1. core' = d /\ stack' = Pop(stack)
        BY <1>3 DEF DrainRest
  <2>2. d \in Core /\ SameStates(core, d) /\ SameEvents(core, d) /\ d.errors <= core.errors
    <3>1. d \in Core /\ SameStates(core, d) /\ SameEvents(core, d) /\ d.errors = core.errors
          BY <1>1 DEF Core, SameStates, SameEvents
    <3> QED
          BY <3>1, <1>1, CoreTypes
  <2> HIDE DEF d
  <2>3. Sound(d, stack, lua, lost, {}, {})
        BY <2>2, <1>1, FlagsSound
  <2>4. stack[Len(stack)].at \notin {"lua", "wake"} \cup Waiting
        BY <1>1 DEF Waiting
  <2>5. Sound(d, Pop(stack), lua, lost, {}, {})
        BY <2>3, <2>4, PopPlain
  <2> QED
        BY <2>1, <2>5, <1>1, NoThrowPlain
<1>4. CASE ~core.detach_after_drain /\ core.errors # 0
  <2> DEFINE d == [core EXCEPT !.draining = FALSE, !.errors = @ - 1]
             f == [at |-> "strand", todo |-> core.running_tasks]
  <2>1. core' = d /\ stack' = Swap(stack, f)
        BY <1>4 DEF DrainRest
  <2>2. d \in Core /\ SameStates(core, d) /\ SameEvents(core, d) /\ d.errors <= core.errors
    <3>1. core.errors - 1 \in Nat /\ core.errors - 1 <= core.errors
          BY <1>1, <1>4, CoreTypes
    <3>2. d \in Core /\ SameStates(core, d) /\ SameEvents(core, d)
          /\ d.errors = core.errors - 1
          BY <3>1, <1>1 DEF Core, SameStates, SameEvents
    <3> QED
          BY <3>1, <3>2
  <2> HIDE DEF d
  <2>3. Sound(d, stack, lua, lost, {}, {})
        BY <2>2, <1>1, FlagsSound
  <2>4. f \in StrandFrames
        BY <1>1, CoreTypes DEF StrandFrames
  <2> HIDE DEF f
  <2>5. Sound(d, Swap(stack, f), lua, lost, {}, {})
        BY <2>3, <2>4, <1>1, ReplaceSound
  <2> QED
        BY <2>1, <2>5, <1>1, NoThrowPlain
<1> QED
      BY <1>2, <1>3, <1>4

LEMMA FailStrandedStep ==
  ASSUME SchedulerInv, FailStranded
  PROVE  SchedulerInv'
<1>1. /\ Sound(core, stack, lua, lost, {}, {}) /\ core \in Core
      /\ Waits(core) /\ Requested(core)
      /\ Top = stack[Len(stack)] /\ Top.at = "strand"
      /\ stack \in Seq(Frames) /\ Len(stack) \in DOMAIN stack
      BY TopSound DEF FailStranded, CoreInv
<1>2. NoThrow /\ lua' = lua
      BY DEF FailStranded
<1>3. PICK x \in Top.todo :
        LET s == Swap(stack, [Top EXCEPT !.todo = @ \ {x}])
            c == [core EXCEPT !.running_tasks = @ \ {x}]
            d == finishSerializedEvent(endTask(core, x, TRUE), x)
        IN IF x \notin core.running_tasks \/ x \in core.waitBindings
           THEN core' = core /\ stack' = s
           ELSE IF isTerminalState(core, x) THEN core' = c /\ stack' = s
           ELSE wake(d, s, x,
                     IF core.st[x].kind = "LegacyRequest" THEN "setup" ELSE "none")
      BY DEF FailStranded
<1> DEFINE f == [Top EXCEPT !.todo = @ \ {x}]
           s == Swap(stack, f)
           d == finishSerializedEvent(endTask(core, x, TRUE), x)
           after == IF core.st[x].kind = "LegacyRequest" THEN "setup" ELSE "none"
<1>4. f \in StrandFrames /\ x \in States
  <2>1. Top \in StrandFrames
        BY <1>1, FrameTypes
  <2> QED
        BY <2>1 DEF StrandFrames
<1>5. x \in core.running_tasks => ~isTerminalState(core, x)
      BY <1>1, <1>4 DEF Requested, isTerminalState
<1>6. \/ core' = core /\ stack' = s
      \/ x \in core.running_tasks /\ x \notin core.waitBindings /\ wake(d, s, x, after)
      BY <1>3, <1>5
<1> HIDE DEF f
<1>7. Sound(core, s, lua, lost, {}, {})
      BY <1>1, <1>4, ReplaceSound
<1> HIDE DEF s
<1>8. CASE core' = core /\ stack' = s
      BY <1>2, <1>7, <1>8, NoThrowPlain
<1>9. CASE x \in core.running_tasks /\ x \notin core.waitBindings /\ wake(d, s, x, after)
  <2>1. registration(core, x) = None
        BY <1>1, <1>4, <1>9, StateKinds DEF Waits
  <2>2. Sound(d, s, lua, lost, {} \cup {x}, {} \cup {x}) /\ isTerminalState(d, x)
        BY <2>1, <1>7, <1>9, TaskEndsSound
  <2>3. {} \cup {x} = {x}
        OBVIOUS
  <2> HIDE DEF d
  <2>4. Sound(d, s, lua, lost, {x}, {x})
        BY <2>2, <2>3
  <2>5. after \in {"none", "finish", "setup"}
        OBVIOUS
  <2> HIDE DEF after
  <2>6. Sound(core', stack', lua, lost, woken(stack'), {})
        BY <1>4, <1>9, <2>2, <2>4, <2>5, WakeSound
  <2> QED
        BY <2>6, <1>2, NoThrowInv
<1> QED
      BY <1>6, <1>8, <1>9

LEMMA RethrowStep ==
  ASSUME SchedulerInv, Rethrow
  PROVE  SchedulerInv'
<1>1. Sound(core, stack, lua, lost, {}, {}) /\ Throw(core, stack) /\ lua' = lua
      BY TopSound DEF Rethrow
<1> QED
      BY <1>1, ThrowInv

LEMMA WakeStep ==
  ASSUME SchedulerInv, Wake
  PROVE  SchedulerInv'
<1> DEFINE x == Top.state
           o == outcomeOf(core, x)
<1>1. /\ Top = stack[Len(stack)] /\ Top.at = "wake" /\ Top \in WakeFrames
      /\ woken(stack) = {x} /\ Sound(core, stack, lua, lost, {x}, {}) /\ core \in Core
      /\ Len(stack) \in DOMAIN stack /\ NoThrow /\ lua' = lua
      BY TopSound DEF Wake
<1>2. PICK t \in Top.todo :
        resume(core, Swap(stack, [Top EXCEPT !.todo = @ \ {t}]), t, x, o)
      BY DEF Wake
<1>3. x \in States /\ t \in Threads
      BY <1>1, <1>2 DEF WakeFrames
<1>4. isTerminalState(core, x)
      BY <1>1, SoundShape DEF StackInv, Retiring
<1>5. /\ o \in {"Success", "Failed", "Timeout"} /\ o # "Timeout"
      /\ o = "Success" => core.st[x].status \in {"Resolved", "Done"}
      /\ o = "Failed" => core.st[x].status = "Failed"
      BY <1>4, OutcomeOf
<1> DEFINE s == Swap(stack, [stack[Len(stack)] EXCEPT !.todo = @ \ {t}])
<1>6. resume(core, s, t, x, o)
      BY <1>1, <1>2
<1> HIDE DEF o
<1>7. CASE registration(core, t) = None \/ registration(core, t).dependency # x
  <2>1. core' = core /\ stack' = s
        BY <1>6, <1>7 DEF resume
  <2>2. core.waiters[t] # None /\ core.waiters[t].dependency = stack[Len(stack)].state
          => t \in lost
        BY <1>1, <1>7 DEF registration
  <2>3. Sound(core, s, lua, lost, {x}, {}) /\ woken(s) = woken(stack)
    <3>1. lost \subseteq lost /\ stack[Len(stack)].at = "wake"
          BY <1>1
    <3>2. Sound(core, stack, lua, lost, {x}, {})
          BY <1>1
    <3> HIDE DEF x
    <3> QED
          BY <2>2, <3>1, <3>2, WakeNextSound
  <2>4. Sound(core', stack', lua, lost, woken(stack'), {})
        BY <2>1, <2>3, <1>1
  <2> QED
        BY <2>4, <1>1, NoThrowInv
<1>8. CASE registration(core, t) # None /\ registration(core, t).dependency = x
  <2>1. Sound(core, s, lua, lost \cup {t}, {x}, {})
        BY <1>1, WakeNextSound
  <2> HIDE DEF s, x
  <2>2. Sound(core', stack', lua, lost, {x} \ {x}, {})
        BY <2>1, <1>3, <1>5, <1>6, <1>8, ResumeSound
  <2>3. {x} \ {x} = {}
        OBVIOUS
  <2>4. Sound(core', stack', lua, lost, {}, {})
        BY <2>2, <2>3
  <2> QED
        BY <2>4, <1>1, NoThrowPlain
<1> QED
      BY <1>7, <1>8

LEMMA WakeDoneStep ==
  ASSUME SchedulerInv, WakeDone
  PROVE  SchedulerInv'
<1> DEFINE x == Top.state
           c == retireState(core, x)
           d == IF Top.after = "finish" THEN [c EXCEPT !.deferred_events = <<>>] ELSE c
<1>1. /\ Top = stack[Len(stack)] /\ Top.at = "wake" /\ Top \in WakeFrames
      /\ Sound(core, stack, lua, lost, {x}, {}) /\ Top.todo = {} /\ lua' = lua
      BY TopSound DEF WakeDone
<1>2. x \in States
      BY <1>1 DEF WakeFrames
<1>3. \/ core' = c /\ stack' = Pop(stack) /\ NoThrow
      \/ Throw(d, stack)
      BY DEF WakeDone
<1>4. Sound(c, stack, lua, lost, {}, {})
  <2>1. Sound(c, stack, lua, lost, {x} \ {x}, {})
        BY <1>1, <1>2, RetireSound
  <2>2. {x} \ {x} = {}
        OBVIOUS
  <2> QED
        BY <2>1, <2>2
<1> HIDE DEF c
<1>5. CASE core' = c /\ stack' = Pop(stack) /\ NoThrow
  <2>1. Sound(c, Pop(stack), lua, lost, {}, {})
        BY <1>1, <1>4, WakePopSound
  <2> QED
        BY <2>1, <1>1, <1>5, NoThrowPlain
<1>6. CASE Throw(d, stack)
  <2>1. Sound(d, stack, lua, lost, {}, {})
    <3>1. Sound([c EXCEPT !.deferred_events = <<>>], stack, lua, lost, {}, {})
          BY <1>4, ClearDeferredSound
    <3> QED
          BY <3>1, <1>4
  <2> HIDE DEF d
  <2> QED
        BY <2>1, <1>1, <1>6, ThrowInv
<1> QED
      BY <1>3, <1>5, <1>6

-----------------------------------------------------------------------------
(***************************************************************************)
(* waitSynchronously() and driveStep().                                    *)
(***************************************************************************)

LEMMA PlainFrames ==
  /\ TickFrame \in Frames /\ TickFrame.at \notin {"lua", "wake"} \cup Waiting
  /\ [at |-> "pump"] \in Frames /\ [at |-> "pump"].at \notin {"lua", "wake"} \cup Waiting
<1>1. TickFrame \in TickFrames /\ [at |-> "pump"] \in DriveFrames
      BY DEF TickFrame, TickFrames, Ticking, DriveFrames
<1> QED
      BY <1>1 DEF Frames, TickFrame, Waiting

LEMMA WaitTickStep ==
  ASSUME SchedulerInv, WaitTick
  PROVE  SchedulerInv'
<1> DEFINE s == GoTo("wait_drive")
<1>1. /\ Sound(core, stack, lua, lost, {}, {}) /\ Top.at \in Waiting
      /\ "wait_drive" \in Waiting
      BY TopSound DEF WaitTick, Waiting
<1>2. core' = core /\ stack' = Append(s, TickFrame) /\ lua' = lua /\ lost' = lost
      BY DEF WaitTick
<1>3. Sound(core, s, lua, lost, {}, {})
      BY <1>1, GoToSound
<1> HIDE DEF s
<1>4. Sound(core, Append(s, TickFrame), lua, lost, {}, {})
      BY <1>3, PlainFrames, PushPlain
<1>5. Sound(core', stack', lua', lost', woken(stack'), {})
  <2>1. Sound(core, Append(s, TickFrame), lua, lost, woken(Append(s, TickFrame)), {})
        BY <1>4, WeakenSound
  <2> QED
        BY <2>1, <1>2
<1> QED
      BY <1>5 DEF SchedulerInv

LEMMA WaitEndsStep ==
  ASSUME SchedulerInv, WaitEnds
  PROVE  SchedulerInv'
<1> DEFINE x == Top.state
           c == IF core.st[x].status = "Failed"
                THEN [core EXCEPT !.st[x].observed = TRUE] ELSE core
           s == Pop(stack)
<1>1. /\ Sound(core, stack, lua, lost, {}, {}) /\ core \in Core /\ Shape(stack)
      /\ Waits(core) /\ Requested(core) /\ Leases(core, stack)
      /\ Top = stack[Len(stack)] /\ Top.at \in Waiting
      /\ stack \in Seq(Frames) /\ Len(stack) \in DOMAIN stack
      BY TopSound, SoundShape DEF WaitEnds, CoreInv, Waiting
<1>2. core' = releaseHandle(c, x) /\ stack' = s /\ NoThrow /\ lua' = lua
      BY DEF WaitEnds
<1>3. Len(stack) = 2 /\ x \in States
  <2>1. Top \in WaitFrames
        BY <1>1, FrameTypes
  <2> QED
        BY <2>1, <1>1 DEF Shape, WaitFrames
<1>4. \A y : leased(stack, y) <=> y = x
      BY <1>1, <1>3 DEF leased
<1>5. /\ s \in Seq(Frames) /\ Len(s) = 1 /\ \A i \in 1 .. 1 : s[i] = stack[i]
  <2>1. /\ s \in Seq(Frames) /\ Len(s) = Len(stack) - 1
        /\ \A i \in 1 .. Len(stack) - 1 : s[i] = stack[i]
    <3>1. Len(stack) > 0
          BY <1>3
    <3> QED
          BY <3>1, <1>1, PopFields
  <2>2. Len(stack) - 1 = 1
        BY <1>3
  <2> QED
        BY <2>1, <2>2
<1>6. core.st[x].handles \in 1 .. 2
      BY <1>1, <1>3, <1>4 DEF Leases
<1>7. x \in core.live /\ core.st[x].kind # "none"
  <2>1. core.st[x].handles > 0
        BY <1>6
  <2>2. core.st[x].kind = "none" => core.st[x] = NoState
        BY <1>1, <1>3 DEF Requested
  <2>3. NoState.handles = 0
        BY DEF NoState
  <2> QED
        BY <2>1, <2>2, <2>3, <1>1, <1>3 DEF Waits
<1> HIDE DEF x, s
<1>8. /\ Sound(c, stack, lua, lost, {}, {})
      /\ \A y \in States : c.st[y].handles = core.st[y].handles
  <2>1. CASE core.st[x].status = "Failed"
    <3> DEFINE e == [core EXCEPT !.st[x].observed = TRUE]
    <3>1. /\ Sound(e, stack, lua, lost, {}, {})
          /\ \A y \in States : e.st[y].handles = core.st[y].handles
          BY <1>1, <1>7, ObservedSound
    <3> HIDE DEF e
    <3>2. c = e
          BY <2>1 DEF e
    <3> QED
          BY <3>1, <3>2
  <2>2. CASE core.st[x].status # "Failed"
        BY <2>2, <1>1
  <2> QED
        BY <2>1, <2>2
<1> HIDE DEF c
<1>9. StackInv(c, s, lua, lost, {}, {})
  <2>1. SameCalls(stack, s)
    <3>1. DOMAIN stack = 1 .. 2 /\ DOMAIN s = 1 .. 1
          BY <1>1, <1>3, <1>5
    <3>2. isPlain(stack[2])
          BY <1>1, <1>3 DEF isPlain, Waiting
    <3> QED
          BY <3>1, <3>2, <1>5 DEF SameCalls
  <2>2. \A i \in DOMAIN s : s[i].at \in Waiting => i = 2
    <3>1. DOMAIN s = 1 .. 1 /\ s[1] = stack[1] /\ stack[1].at = "lua"
          BY <1>1, <1>5, SoundShape
    <3> QED
          BY <3>1 DEF Waiting
  <2>3. StackInv(c, stack, lua, lost, {}, {}) /\ c \in Core
        BY <1>8, SoundShape
  <2>4. s \in Seq(Frames) /\ Len(s) > 0
        BY <1>5
  <2> QED
        BY <2>1, <2>2, <2>3, <2>4, PlainStack
<1>10. \A y \in States :
         LET m == IF y = x THEN c.st[y].handles - 1 ELSE c.st[y].handles IN
         IF leased(s, y) THEN m \in 1 .. 2 ELSE m \in 0 .. 1
  <2>1. \A y : ~leased(s, y)
        BY <1>5 DEF leased
  <2>2. \A y \in States : y # x => core.st[y].handles \in 0 .. 1
        BY <1>1, <1>4 DEF Leases
  <2> QED
        BY <2>1, <2>2, <1>6, <1>8
<1>11. c.st[x].handles > 0
       BY <1>3, <1>6, <1>8
<1>12. Sound(releaseHandle(c, x), s, lua, lost, {}, {})
       BY <1>3, <1>8, <1>9, <1>10, <1>11, ReleaseSound
<1> QED
      BY <1>2, <1>12, NoThrowPlain

LEMMA WaitDrivesStep ==
  ASSUME SchedulerInv, WaitDrives
  PROVE  SchedulerInv'
<1> DEFINE s == GoTo("wait_tick")
           d == [core EXCEPT !.drive_active = TRUE]
           f == [at |-> "pump"]
<1>1. /\ Sound(core, stack, lua, lost, {}, {}) /\ core \in Core /\ Top.at \in Waiting
      /\ "wait_tick" \in Waiting /\ lua' = lua
      BY TopSound DEF WaitDrives, Waiting
<1>2. \/ Throw(core, stack)
      \/ core' = core /\ stack' = s /\ NoThrow
      \/ core' = d /\ stack' = s \o <<f, TickFrame>> /\ NoThrow
      BY DEF WaitDrives
<1>3. Sound(core, s, lua, lost, {}, {})
      BY <1>1, GoToSound
<1> HIDE DEF s
<1>4. CASE Throw(core, stack)
      BY <1>1, <1>4, ThrowInv
<1>5. CASE core' = core /\ stack' = s /\ NoThrow
      BY <1>1, <1>3, <1>5, NoThrowPlain
<1>6. CASE core' = d /\ stack' = s \o <<f, TickFrame>> /\ NoThrow
  <2>1. d \in Core /\ SameStates(core, d) /\ SameEvents(core, d) /\ d.errors <= core.errors
    <3>1. d \in Core /\ SameStates(core, d) /\ SameEvents(core, d) /\ d.errors = core.errors
          BY <1>1 DEF Core, SameStates, SameEvents
    <3> QED
          BY <3>1, <1>1, CoreTypes
  <2> HIDE DEF d
  <2>2. Sound(d, s, lua, lost, {}, {})
        BY <2>1, <1>3, FlagsSound
  <2>3. f \in Frames /\ f.at \notin {"lua", "wake"} \cup Waiting
        BY PlainFrames
  <2> HIDE DEF f
  <2>4. Sound(d, Append(s, f), lua, lost, {}, {})
        BY <2>2, <2>3, PushPlain
  <2>5. Sound(d, Append(Append(s, f), TickFrame), lua, lost, {}, {})
        BY <2>4, PlainFrames, PushPlain
  <2>6. s \o <<f, TickFrame>> = Append(Append(s, f), TickFrame)
    <3>1. s \in Seq(Frames) /\ f \in Frames /\ TickFrame \in Frames
          BY <1>3, <2>3, SoundShape, PlainFrames
    <3> QED
          BY <3>1
  <2> QED
        BY <2>5, <2>6, <1>1, <1>6, NoThrowPlain
<1> QED
      BY <1>2, <1>4, <1>5, <1>6

LEMMA PumpStep ==
  ASSUME SchedulerInv, NEW item \in Items, Pump(item)
  PROVE  SchedulerInv'
<1> DEFINE s == GoTo("drive_end")
<1>1. /\ Sound(core, stack, lua, lost, {}, {}) /\ Top.at = "pump" /\ NoThrow /\ lua' = lua
      BY TopSound DEF Pump
<1>2. \/ pumpOnto(Append(s, TickFrame), item)
      \/ core' = core /\ stack' \in {s, Append(s, TickFrame)}
      BY DEF Pump
<1>3. Sound(core, s, lua, lost, {}, {})
      BY <1>1, GoToSound
<1> HIDE DEF s
<1>4. Sound(core, Append(s, TickFrame), lua, lost, {}, {})
      BY <1>3, PlainFrames, PushPlain
<1>5. CASE pumpOnto(Append(s, TickFrame), item)
  <2>1. /\ item.kind = "response" => item.id \in core.pending
        /\ item.kind = "update" => core.event \in EventIds
        BY DeliverableItem DEF Pump
  <2> DEFINE q == Append(s, TickFrame)
  <2> HIDE DEF q
  <2>2. Sound(core, q, lua, lost, {}, {}) /\ pumpOnto(q, item)
        BY <1>4, <1>5 DEF q
  <2>3. Sound(core', stack', lua, lost, woken(stack'), {})
        BY <2>1, <2>2, PumpSound
  <2> QED
        BY <2>3, <1>1, NoThrowInv
<1>6. CASE core' = core /\ stack' \in {s, Append(s, TickFrame)}
      BY <1>1, <1>3, <1>4, <1>6, NoThrowPlain
<1> QED
      BY <1>2, <1>5, <1>6

LEMMA DriveEndsStep ==
  ASSUME SchedulerInv, DriveEnds
  PROVE  SchedulerInv'
<1> DEFINE d == [core EXCEPT !.drive_active = FALSE]
<1>1. /\ Sound(core, stack, lua, lost, {}, {}) /\ core \in Core
      /\ Top = stack[Len(stack)] /\ Top.at = "drive_end"
      /\ core' = d /\ stack' = Pop(stack) /\ NoThrow /\ lua' = lua
      BY TopSound DEF DriveEnds
<1>2. d \in Core /\ SameStates(core, d) /\ SameEvents(core, d) /\ d.errors <= core.errors
  <2>1. d \in Core /\ SameStates(core, d) /\ SameEvents(core, d) /\ d.errors = core.errors
        BY <1>1 DEF Core, SameStates, SameEvents
  <2> QED
        BY <2>1, <1>1, CoreTypes
<1> HIDE DEF d
<1>3. Sound(d, stack, lua, lost, {}, {})
      BY <1>1, <1>2, FlagsSound
<1>4. stack[Len(stack)].at \notin {"lua", "wake"} \cup Waiting
      BY <1>1 DEF Waiting
<1>5. Sound(d, Pop(stack), lua, lost, {}, {})
      BY <1>3, <1>4, PopPlain
<1> QED
      BY <1>1, <1>5, NoThrowPlain

-----------------------------------------------------------------------------
(***************************************************************************)
(* The invariant holds at first and every step keeps it.                   *)
(***************************************************************************)

LEMMA InitInv ==
  ASSUME Init
  PROVE  SchedulerInv
<1> DEFINE f == LuaFrame(Main, "main", None, None, "none", FALSE)
<1>1. /\ core.st = [x \in States |-> NoState] /\ core.live = {} /\ core.next = 1
      /\ core.pending = {} /\ core.pending_requests = 0
      /\ core.waiters = [t \in Threads |-> None]
      /\ core.notifications = [t \in Threads |-> None]
      /\ core.waitBindings = {} /\ core.running_tasks = {}
      /\ core.ready = <<>> /\ core.deferred_events = <<>>
      /\ core.event = MaxRequests + 1
      /\ core.handler = [h \in Handlers |-> [concurrent |-> TRUE, active |-> FALSE,
                                             removed |-> FALSE, queue |-> <<>>]]
      /\ core.handlers = 0 /\ core.current = 0 /\ core.errors = 0
      BY DEF Init
<1>2. core \in Core
  <2>1. NoState \in StateRecord
        BY BoundsAssumption DEF NoState, StateRecord, Statuses
  <2>2. [concurrent |-> TRUE, active |-> FALSE, removed |-> FALSE, queue |-> <<>>]
          \in HandlerRecord
        BY DEF HandlerRecord
  <2>3. /\ MaxRequests + 1 \in Nat /\ 0 \in Int /\ 0 \in Nat /\ 1 \in Nat \ {0}
        /\ 0 \in 0 .. MaxHandlers
        BY BoundsAssumption
  <2>4. /\ [x \in States |-> NoState] \in [States -> StateRecord]
        /\ [h \in Handlers |-> [concurrent |-> TRUE, active |-> FALSE,
                                removed |-> FALSE, queue |-> <<>>]]
             \in [Handlers -> HandlerRecord]
        /\ [t \in Threads |-> None] \in [Threads -> WaitRecord \cup {None}]
        BY <2>1, <2>2
  <2>5. <<>> \in Seq(States) /\ <<>> \in Seq(EventIds)
        OBVIOUS
  <2> QED
        BY <2>3, <2>4, <2>5 DEF Init, Core
<1>3. stack = <<f>> /\ lua = [t \in Threads |-> IF t = Main THEN "live" ELSE "fresh"]
      /\ lost = {}
      BY DEF Init
<1>4. /\ f \in Frames /\ f.at = "lua" /\ f.thread = Main /\ f.task = None /\ f.by = "main"
      /\ ~f.quiet
  <2>1. /\ f \in LuaFrames /\ f.at = "lua" /\ f.thread = Main /\ f.task = None
        /\ f.by = "main" /\ ~f.quiet
        BY StateKinds DEF LuaFrame, LuaFrames
  <2> QED
        BY <2>1 DEF Frames
<1> HIDE DEF f
<1>5. /\ stack \in Seq(Frames) /\ Len(stack) = 1 /\ DOMAIN stack = {1} /\ stack[1] = f
      BY <1>3, <1>4
<1>6. \A x \in States : core.st[x] = NoState
      BY <1>1
<1>7. /\ NoState.kind = "none" /\ NoState.status = "Pending" /\ NoState.handles = 0
      /\ NoState.waiters = 0 /\ NoState.reports = 0
      BY DEF NoState
<1>8. \A t \in Threads : core.waiters[t] = None /\ core.notifications[t] = None
                         /\ registration(core, t) = None
      BY <1>1 DEF registration
<1>9. \A x \in States : ~isTerminalState(core, x)
      BY <1>6, <1>7 DEF isTerminalState
<1>10. \A x : ~isReady(core, x)
       BY <1>1 DEF isReady
<1>11. Cardinality({}) = 0
       BY FS_EmptySet
<1>12. Waits(core)
  <2>1. \A x : waitersOf(core, x) = {}
        BY <1>8 DEF waitersOf
  <2>2. {t \in Threads : registration(core, t) # None} = {}
        BY <1>8
  <2>3. \A x \in States : core.st[x].waiters = Cardinality(waitersOf(core, x))
        BY <2>1, <1>6, <1>7, <1>11
  <2>4. \A x \in States : ~(core.st[x].waiters > 0 \/ core.st[x].handles > 0)
        BY <1>6, <1>7
  <2> QED
        BY <2>2, <2>3, <2>4, <1>1, <1>8 DEF Waits
<1>13. Requested(core)
  <2>1. {x \in core.pending : core.st[x].kind # "Raw"} = {}
        BY <1>1
  <2> QED
        BY <2>1, <1>1, <1>6, <1>7, <1>10, <1>11, StateKinds DEF Requested
<1>14. Reported(core)
  <2> DEFINE P == {x \in States : core.st[x].reports > 0}
  <2>1. P = {}
        BY <1>6, <1>7
  <2> HIDE DEF P
  <2>2. core.errors <= Cardinality(P)
    <3>1. Cardinality(P) = 0 /\ core.errors = 0
          BY <2>1, <1>1, <1>11
    <3> QED
          BY <3>1
  <2>3. \A x \in States : /\ ~(core.st[x].reports > 0)
                          /\ core.st[x].status # "Failed"
        BY <1>6, <1>7
  <2> QED
        BY <2>2, <2>3 DEF Reported, P
<1>15. Serial(core)
  <2>1. \A h \in Handlers : ~core.handler[h].active /\ core.handler[h].queue = <<>>
                            /\ core.handler[h].concurrent
        BY <1>1
  <2>2. \A h \in Handlers : \A x : ~inQueue(core, h, x)
        BY <2>1 DEF inQueue
  <2>3. \A x \in States : core.st[x].kind # "EventTask"
        BY <1>6, <1>7
  <2>4. \A x \in EventIds : ~isBound(core, x)
        BY <2>2, <2>3, StateKinds DEF isBound
  <2>5. Ascends(<<>>)
        BY DEF Ascends
  <2>6. Arrivals(core)
        BY <2>3, <2>4, <2>5, <1>1, <1>6, <1>7, StateKinds DEF Arrivals
  <2>7. Queues(core)
        BY <2>1, <2>2, <2>5 DEF Queues
  <2>8. OneAtATime(core)
        BY <2>1 DEF OneAtATime
  <2> QED
        BY <2>6, <2>7, <2>8 DEF Serial
<1>16. Shape(stack)
       BY <1>4, <1>5 DEF Shape, Waiting
<1>17. Placed(core, stack, lua, {})
  <2>1. lua \in [Threads -> {"fresh", "live", "dead"}]
        BY <1>3
  <2>2. \A x \in States : lua[x] = "fresh"
        BY <1>3, StateKinds
  <2>3. \A x \in States : ~isOn(stack, x)
        BY <1>4, <1>5, StateKinds DEF isOn
  <2> QED
        BY <2>1, <2>2, <2>3, <1>1, <1>4, <1>5 DEF Placed
<1>18. Retiring(core, stack, {})
       BY <1>1, <1>4, <1>5 DEF Retiring
<1>19. Reaching(core, stack, lost, {})
       BY <1>8 DEF Reaching
<1>20. Honest(core, stack)
       BY <1>4, <1>5 DEF Honest
<1>21. Leases(core, stack)
       BY <1>5, <1>6, <1>7 DEF Leases, leased
<1>22. Sound(core, stack, lua, lost, {}, {})
       BY <1>2, <1>12, <1>13, <1>14, <1>15, <1>16, <1>17, <1>18, <1>19, <1>20, <1>21
       DEF Sound, CoreInv, StackInv
<1>23. Sound(core, stack, lua, lost, woken(stack), {})
       BY <1>22, WeakenSound
<1> QED
      BY <1>23 DEF SchedulerInv

LEMMA NextInv ==
  ASSUME SchedulerInv, Next
  PROVE  SchedulerInv'
<1>1. ASSUME NEW kind \in Kinds, NEW submitted \in BOOLEAN, Create(kind, submitted)
      PROVE  SchedulerInv'
      BY <1>1, CreateStep, BoundsAssumption
<1>2. ASSUME NEW submitted \in BOOLEAN, Await(submitted)
      PROVE  SchedulerInv'
      BY <1>2, AwaitStep
<1>3. ASSUME NEW x \in States,
             \/ WaitDone(x) \/ WaitSynchronously(x) \/ Drop(x)
             \/ \E timed \in BOOLEAN : Wait(x, timed)
      PROVE  SchedulerInv'
      BY <1>3, WaitDoneStep, WaitSynchronouslyStep, DropStep, WaitStep
<1>4. ASSUME NEW concurrent \in BOOLEAN, onEvent(concurrent)
      PROVE  SchedulerInv'
      BY <1>4, OnEventStep
<1>5. CASE offEvent
      BY <1>5, OffEventStep
<1>6. ASSUME NEW t \in Threads, ResumeCoroutine(t)
      PROVE  SchedulerInv'
      BY <1>6, ResumeCoroutineStep
<1>7. ASSUME NEW failed \in BOOLEAN, NEW same \in BOOLEAN, Return(failed, same)
      PROVE  SchedulerInv'
      BY <1>7, ReturnStep
<1>8. ASSUME NEW item \in Items, receive(item)
      PROVE  SchedulerInv'
      BY <1>8, ReceiveStep
<1>9. CASE LuaStep
      BY <1>1, <1>2, <1>3, <1>4, <1>5, <1>6, <1>7, <1>8, <1>9 DEF LuaStep
<1>10. CASE DrainNotifications \/ DrainExpired \/ DrainReady \/ DrainDeferred \/ DrainRest
       BY <1>10, DrainNotificationsStep, DrainExpiredStep, DrainReadyStep, DrainDeferredStep,
          DrainRestStep
<1>11. CASE FailStranded \/ Rethrow \/ Wake \/ WakeDone
       BY <1>11, FailStrandedStep, RethrowStep, WakeStep, WakeDoneStep
<1>12. CASE WaitTick \/ WaitEnds \/ WaitDrives \/ DriveEnds
       BY <1>12, WaitTickStep, WaitEndsStep, WaitDrivesStep, DriveEndsStep
<1>13. ASSUME NEW item \in Items, Pump(item)
       PROVE  SchedulerInv'
       BY <1>13, PumpStep
<1> QED
      BY <1>9, <1>10, <1>11, <1>12, <1>13 DEF Next, CoreStep

\* Whatever Lua code does in a callback, what SchedulerCore keeps about its states, its
\* waits and its stack agrees: the invariant that all the theorems below rest on.
THEOREM SchedulerInvariant == Spec => []SchedulerInv
<1>1. Init => SchedulerInv
      BY InitInv
<1>2. SchedulerInv /\ [Next]_vars => SchedulerInv'
  <2> SUFFICES ASSUME SchedulerInv, [Next]_vars
               PROVE  SchedulerInv'
      OBVIOUS
  <2>1. CASE Next
        BY <2>1, NextInv
  <2>2. CASE UNCHANGED vars
        BY <2>2 DEF vars, SchedulerInv
  <2> QED
        BY <2>1, <2>2
<1> QED
      BY <1>1, <1>2, PTL DEF Spec

-----------------------------------------------------------------------------
(***************************************************************************)
(* What follows from it.                                                   *)
(***************************************************************************)

LEMMA InvTypes ==
  ASSUME SchedulerInv
  PROVE  TypeOK
<1>1. Sound(core, stack, lua, lost, woken(stack), {})
      BY DEF SchedulerInv
<1>2. /\ core \in Core /\ Waits(core) /\ Requested(core) /\ Reported(core)
      /\ Shape(stack) /\ Leases(core, stack)
      BY <1>1, SoundShape DEF CoreInv
<1>3. ASSUME NEW x \in States
      PROVE  /\ core.st[x].kind \in RequestKinds \cup {"none", "EventTask"}
             /\ core.st[x].status \in {"Pending", "Running", "Resolved", "Done", "Failed"}
             /\ core.st[x].handles \in 0 .. 2 /\ core.st[x].reports \in 0 .. 1
  <2>1. core.st[x].handles \in 0 .. 2
    <3>1. core.st[x].handles \in 1 .. 2 \/ core.st[x].handles \in 0 .. 1
          BY <1>2 DEF Leases
    <3> QED
          BY <3>1
  <2>2. core.st[x].reports \in 0 .. 1
    <3>1. core.st[x].reports \in Nat /\ (core.st[x].reports > 0 => core.st[x].reports = 1)
          BY <1>2, StateTypes DEF Reported
    <3> QED
          BY <3>1
  <2> QED
        BY <2>1, <2>2, <1>2, StateTypes DEF Statuses
<1>4. core.pending \subseteq core.live /\ core.live \subseteq States
      /\ core.running_tasks \subseteq States
      BY <1>2, CoreTypes DEF Requested
<1>5. core.pending_requests \in 0 .. MaxRequests
  <2> DEFINE P == {x \in core.pending : core.st[x].kind # "Raw"}
  <2>1. P \subseteq Requests
        BY <1>2, CoreTypes
  <2>2. core.pending_requests = Cardinality(P)
        BY <1>2 DEF Requested
  <2> HIDE DEF P
  <2>3. IsFiniteSet(Requests) /\ Cardinality(Requests) = MaxRequests
    <3>1. IsFiniteSet(1 .. MaxRequests) /\ Cardinality(1 .. MaxRequests) =
            IF 1 > MaxRequests THEN 0 ELSE MaxRequests - 1 + 1
          BY FS_Interval, BoundsAssumption
    <3> QED
          BY <3>1, BoundsAssumption DEF Requests
  <2>4. IsFiniteSet(P) /\ Cardinality(P) <= MaxRequests /\ Cardinality(P) \in Nat
        BY <2>1, <2>3, FS_Subset, FS_CardinalityType
  <2> QED
        BY <2>2, <2>4, BoundsAssumption
<1>6. core.errors \in 0 .. Cardinality(States)
  <2> DEFINE P == {x \in States : core.st[x].reports > 0}
  <2>1. P \subseteq States /\ core.errors <= Cardinality(P) /\ core.errors \in Nat
        BY <1>2, CoreTypes DEF Reported
  <2> HIDE DEF P
  <2>2. /\ Cardinality(P) <= Cardinality(States) /\ Cardinality(P) \in Nat
        /\ Cardinality(States) \in Nat
        BY <2>1, ThreadsFinite, FS_Subset, FS_CardinalityType
  <2> QED
        BY <2>1, <2>2
<1>7. Len(stack) > 0 /\ stack[1].at = "lua" /\ stack[1].thread = Main
  <2>1. 1 \in DOMAIN stack /\ Len(stack) > 0
        BY <1>2 DEF Shape
  <2> QED
        BY <2>1, <1>2 DEF Shape
<1> QED
      BY <1>3, <1>4, <1>5, <1>6, <1>7 DEF TypeOK

LEMMA InvConsistent ==
  ASSUME SchedulerInv
  PROVE  Consistent
<1>1. Sound(core, stack, lua, lost, woken(stack), {})
      BY DEF SchedulerInv
<1>2. /\ core \in Core /\ Waits(core) /\ Requested(core) /\ Shape(stack)
      /\ Placed(core, stack, lua, {}) /\ Retiring(core, stack, woken(stack))
      /\ Len(stack) \in DOMAIN stack
      BY <1>1, SoundShape DEF CoreInv, StackInv
<1>3. RegistrationsAgree
  <2>1. core.waitBindings \cap onStack = {}
        BY <1>2 DEF Placed, onStack, isOn
  <2>2. ASSUME NEW x \in core.live, isTerminalState(core, x), core.st[x].handles = 0,
               core.st[x].waiters = 0
        PROVE  beingRetired(x)
    <3>1. CASE x \in woken(stack)
          BY <3>1, <1>2 DEF woken, beingRetired
    <3>2. CASE x \notin woken(stack)
          BY <3>2, <2>2, <1>2 DEF Retiring, isReady, beingRetired
    <3> QED
          BY <3>1, <3>2
  <2> QED
        BY <2>1, <2>2, <1>2 DEF Waits, RegistrationsAgree
<1>4. PendingCounted
      BY <1>2 DEF Requested, PendingCounted
<1>5. RunningHasOwner
  <2>1. ASSUME NEW x \in States, core.st[x].status = "Running"
        PROVE  x \in onStack \/ x \in core.waitBindings
    <3>1. x \in core.running_tasks
          BY <2>1, <1>2 DEF Requested
    <3>2. x \in core.waitBindings \/ runs(stack, x)
          BY <3>1, <1>2 DEF Placed
    <3> QED
          BY <3>2 DEF runs, onStack
  <2> QED
        BY <2>1 DEF RunningHasOwner
<1> QED
      BY <1>3, <1>4, <1>5, InvTypes DEF Consistent

\* What the scheduler decides by is right, whatever Lua code ran in between: the indexes
\* of waits agree with the counters in the states, a state is kept exactly as long as it
\* is held, pending_requests counts what is unanswered, and no Task that is Running is
\* left without a way on.
THEOREM SchedulerConsistent == Spec => []Consistent
<1>1. SchedulerInv => Consistent
      BY InvConsistent
<1> QED
      BY <1>1, SchedulerInvariant, PTL

\* resume() tells a coroutine the truth: success or failure only of the state it waited
\* for, a timeout only after its own deadline.
THEOREM SchedulerHonest == Spec => []HonestOutcome
<1>1. ASSUME SchedulerInv
      PROVE  HonestOutcome
  <2>1. Sound(core, stack, lua, lost, woken(stack), {})
        BY <1>1 DEF SchedulerInv
  <2>2. Honest(core, stack) /\ Shape(stack)
        BY <2>1, SoundShape DEF StackInv
  <2>3. ASSUME NEW i \in DOMAIN stack, stack[i].at = "lua", stack[i].by = "resume"
        PROVE  LET w == stack[i].wait
                   s == core.st[w.dependency]
               IN CASE stack[i].outcome = "Success" -> s.status \in {"Resolved", "Done"}
                    [] stack[i].outcome = "Failed" -> s.status = "Failed" /\ s.observed
                    [] stack[i].outcome = "Timeout" -> w.timed /\ w.expired
    <3>1. stack[i].outcome \in {"Success", "Failed", "Timeout"}
          BY <2>2, <2>3, FrameTypes DEF Shape, LuaFrames
    <3> QED
          BY <3>1, <2>2, <2>3 DEF Honest
  <2> QED
        BY <2>3 DEF HonestOutcome
<1> QED
      BY <1>1, SchedulerInvariant, PTL

\* Nobody waits for something that is over without being on the way to be resumed, except
\* those whom an exception out of wake() has skipped.
THEOREM SchedulerReaches == Spec => []WaitersReached
<1>1. ASSUME SchedulerInv
      PROVE  WaitersReached
  <2>1. Sound(core, stack, lua, lost, woken(stack), {})
        BY <1>1 DEF SchedulerInv
  <2>2. Reaching(core, stack, lost, {})
        BY <2>1, SoundShape DEF StackInv
  <2> QED
        BY <2>2 DEF Reaching, WaitersReached, beingWoken, isReady, wakes
<1> QED
      BY <1>1, SchedulerInvariant, PTL

\* The failure of a callback is reported once if nobody has seen it, and never lost with
\* its state, unless closing the client caused it.
THEOREM SchedulerReports == Spec => []FailureReportedOnce
<1>1. ASSUME SchedulerInv
      PROVE  FailureReportedOnce
  <2>1. Sound(core, stack, lua, lost, woken(stack), {})
        BY <1>1 DEF SchedulerInv
  <2>2. Reported(core) /\ core \in Core
        BY <2>1, SoundShape DEF CoreInv
  <2>3. \A x \in States : core.st[x].reports \in Nat
        BY <2>2, StateTypes
  <2> QED
        BY <2>2, <2>3 DEF Reported, FailureReportedOnce
<1> QED
      BY <1>1, SchedulerInvariant, PTL

\* A serial handler gets one update at a time and in the order of their arrival.
THEOREM SchedulerSerial == Spec => []SerialInOrder
<1>1. ASSUME SchedulerInv
      PROVE  SerialInOrder
  <2>1. Sound(core, stack, lua, lost, woken(stack), {})
        BY <1>1 DEF SchedulerInv
  <2>2. Arrivals(core) /\ OneAtATime(core) /\ core \in Core
        BY <2>1, SoundShape DEF CoreInv, Serial
  <2>3. ASSUME NEW x \in EventIds, NEW y \in EventIds, x < y,
               core.st[x].kind = "EventTask", core.st[y].kind = "EventTask",
               core.st[x].handler = core.st[y].handler,
               ~core.handler[core.st[x].handler].concurrent
        PROVE  isTerminalState(core, x)
    <3> DEFINE h == core.st[x].handler
    <3>1. h \in Handlers
      <4>1. h \in 1 .. core.handlers /\ core.handlers \in 0 .. MaxHandlers
            BY <2>2, <2>3, StateKinds, CoreTypes DEF Arrivals
      <4> QED
            BY <4>1, BoundsAssumption DEF Handlers
    <3>2. eventOf(core, h, x) /\ eventOf(core, h, y)
          BY <2>3 DEF eventOf
    <3> QED
          BY <3>1, <3>2, <2>2, <2>3 DEF OneAtATime
  <2> QED
        BY <2>3 DEF SerialInOrder
<1> QED
      BY <1>1, SchedulerInvariant, PTL
=============================================================================
