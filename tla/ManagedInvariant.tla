-------------------------- MODULE ManagedInvariant --------------------------
(***************************************************************************)
(* The inductive invariant of ManagedDriver, and the words its proof needs *)
(* for what a step does.  Every item that was taken for a client is in one *)
(* place, the items are kept in their order, and the flags of a client and *)
(* the calls on the stack tell the same.                                   *)
(***************************************************************************)
EXTENDS ManagedDriver

-----------------------------------------------------------------------------
(***************************************************************************)
(* Types.                                                                  *)
(***************************************************************************)

Unfinished == {"ready", "running", "waiting"}
Begun == Unfinished \cup {"resolved", "done", "failed"}
Entered == {"running", "resolved", "done", "failed"}

StateRec ==
  [kind : {"none", "Future", "Task", "Update", "Raw", "PollTask", "LoopTask"},
   client : Clients \cup {NoClient},
   status : Begun \cup {"none", "pending", "taken", "dropped"}, dep : {0} \cup Ids,
   observer : Nat]
ObserverRec ==
  [id : Nat, concurrent : BOOLEAN, active : BOOLEAN, stopped : BOOLEAN, queue : Seq(Ids)]
DriverRec ==
  [pump : BOOLEAN, consumer : BOOLEAN, drive : BOOLEAN, active : BOOLEAN,
   selecting : BOOLEAN, selected : {0} \cup Ids, draining : BOOLEAN, ready : Seq(Ids),
   errors : Int, preserved : Seq(Ids), notifications : SUBSET Ids,
   observer : ObserverRec]
Managed == [st : [Ids -> StateRec], drv : [Clients -> DriverRec]]

Deadlines == {"never", "timeout", "zero"}
CallFrames ==
  [op : {"lua"}, c : {NoClient}, pc : {"run"}, t : Ids]
  \cup [op : {"tick"}, c : Clients, pc : {"notify", "ready", "strand"}]
  \cup [op : {"drive"}, c : Clients, pc : {"tick", "pump", "pumped", "round", "last"},
        deadline : Deadlines, discard : BOOLEAN, deps : SUBSET Clients]
  \cup [op : {"poll"}, c : Clients, pc : {"select", "take", "return"}, callback : BOOLEAN,
        deadline : Deadlines, attempted : BOOLEAN]
  \cup [op : {"loop"}, c : Clients, pc : {"tick", "check", "return"}, callback : BOOLEAN]
  \cup [op : {"wait"}, c : Clients, pc : {"tick", "check"}, i : Ids]

-----------------------------------------------------------------------------
(***************************************************************************)
(* The invariant, of the states and members x, the frames s and n calls.   *)
(***************************************************************************)

\* What a state can be.
Known(x, i) ==
  LET r == x.st[i] IN
  /\ r.kind = "none" <=> r.status = "none"
  /\ r.kind # "none" => r.client \in Clients
  /\ r.status = "pending" => r.kind \in {"Future", "Task"}
  /\ r.status = "waiting" => r.dep \in Ids /\ x.st[r.dep].kind # "none"

\* What is ready is about to begin or over, and is ready once; whoever is to be notified
\* by a client waits for it.
Due == Begun \ {"running", "waiting"}
OnceEach(q) == \A j, k \in DOMAIN q : q[j] = q[k] => j = k
Listed(x, c) ==
  /\ OnceEach(x.drv[c].ready)
  /\ \A k \in DOMAIN x.drv[c].ready : LET i == x.drv[c].ready[k] IN
       x.st[i].status \in Due /\ x.st[i].client = c
  /\ \A t \in x.drv[c].notifications :
       x.st[t].status = "waiting" /\ x.st[x.st[t].dep].client = c

\* The loops in progress have different observers; a stopped or a concurrent one keeps
\* nothing back.
Watched(x, c, n) ==
  LET o == x.drv[c].observer IN
  /\ o.id <= n /\ (o.id = 0 => o = NoObserver)
  /\ o.stopped \/ o.concurrent => o.queue = <<>>
  /\ \A e \in Clients \ {c} : x.drv[e].observer.id = o.id => o.id = 0
\* The Tasks of a loop are those of its client.
OfLoop(x, i, n) ==
  x.st[i].kind = "LoopTask" =>
    /\ x.st[i].observer \in 1 .. n
    /\ \A c \in Clients : x.st[i].observer = x.drv[c].observer.id => x.st[i].client = c

Rises(q) == \A j, k \in DOMAIN q : j < k => q[j] < q[k]
has(q, i) == \E k \in DOMAIN q : q[k] = i
Above(i, q) == \A k \in DOMAIN q : i < q[k]
\* The Tasks of the loop in progress, and the items that were taken for a client.
tasks(x, c) == {i \in Ids : /\ x.st[i].kind = "LoopTask"
                            /\ x.st[i].observer = x.drv[c].observer.id
                            /\ x.st[i].status \in Unfinished}
taken(x, c) == {i \in Ids : x.st[i].client = c /\ x.st[i].status = "taken"}

\* Of the members d of a client and the Tasks T of its loop: items are kept in their
\* order, and a serial loop is at work on the eldest.
InTurn(d, T) ==
  /\ Rises(d.preserved) /\ Rises(d.observer.queue)
  /\ d.selected # 0 => Above(d.selected, d.preserved)
  /\ ~d.observer.concurrent =>
       /\ \A i, j \in T : i = j
       /\ \A i \in T : Above(i, d.observer.queue)
       /\ ~d.observer.active => T = {} /\ d.observer.queue = <<>>
       /\ ~d.observer.stopped =>
            /\ \A i \in T : Above(i, d.preserved)
            /\ \A i \in Ids : has(d.observer.queue, i) => Above(i, d.preserved)

\* Of d and the items K that were taken: each is in one place.
isKept(d, i) == has(d.preserved, i) \/ has(d.observer.queue, i) \/ d.selected = i
InPlace(d, K) ==
  \A i \in Ids :
    /\ isKept(d, i) <=> i \in K
    /\ ~(has(d.preserved, i) /\ has(d.observer.queue, i))
    /\ d.selected = i => ~has(d.preserved, i) /\ ~has(d.observer.queue, i)

\* All but the items in L, which are on their way from one place to another.
Items(x, n, L) ==
  /\ x \in Managed /\ n \in Nat
  /\ \A i \in Ids : Known(x, i) /\ OfLoop(x, i, n)
  /\ \A c \in Clients : /\ Listed(x, c) /\ Watched(x, c, n)
                        /\ InTurn(x.drv[c], tasks(x, c))
                        /\ InPlace(x.drv[c], taken(x, c) \ L)

\* The frames of a client.
drives(f, c) == f.op = "drive" /\ f.c = c
pumps(f, c) == f.op = "drive" /\ f.c = c /\ f.pc \in {"pump", "pumped"}
drains(f, c) == f.op = "tick" /\ f.c = c /\ f.pc = "ready"
polls(f, c) == f.op = "poll" /\ f.c = c
loops(f, c) == f.op = "loop" /\ f.c = c
Driving(s, c) == {k \in 1 .. Len(s) : drives(s[k], c)}
Pumping(s, c) == {k \in 1 .. Len(s) : pumps(s[k], c)}
Draining(s, c) == {k \in 1 .. Len(s) : drains(s[k], c)}
Polling(s, c) == {k \in 1 .. Len(s) : polls(s[k], c)}
Looping(s, c) == {k \in 1 .. Len(s) : loops(s[k], c)}

Once(flag, S) == IF flag THEN \E k \in S : S = {k} ELSE S = {}

Flags(x, s) ==
  \A c \in Clients :
    LET d == x.drv[c] IN
    /\ Once(d.drive, Driving(s, c)) /\ Once(d.active, Pumping(s, c))
    /\ Once(d.draining, Draining(s, c))
    /\ Once(d.consumer, Polling(s, c) \cup Looping(s, c))
    /\ d.selecting => Polling(s, c) # {}
    /\ d.observer.id # 0 => Looping(s, c) # {}

\* Above a tick() runs a coroutine; a coroutine is on the stack once, and runs or has been
\* declared over.
StackShape(s) ==
  /\ s \in Seq(CallFrames)
  /\ \A k \in 1 .. Len(s) - 1 : s[k].op = "tick" => s[k + 1].op = "lua"
Running(x, s) ==
  \A k \in 1 .. Len(s) : s[k].op = "lua" =>
    /\ x.st[s[k].t].status \in Entered
    /\ \A j \in 1 .. Len(s) : s[j].op = "lua" /\ s[j].t = s[k].t => j = k

StackInv(x, s) == StackShape(s) /\ Running(x, s) /\ Flags(x, s)

ManagedInv(x, s, n) == Items(x, n, {}) /\ StackInv(x, s)

\* Of the managed driver.
CallsInv == ManagedInv(m, stack, calls)

-----------------------------------------------------------------------------
(***************************************************************************)
(* What a step does to the states x, which y follow, and to the frames.    *)
(***************************************************************************)

Local(x, y, c, i) ==
  /\ y \in Managed
  /\ \A j \in Ids : j # i => y.st[j] = x.st[j]
  /\ \A e \in Clients : e # c => y.drv[e] = x.drv[e]

\* Item i of client c is on its way.
Held(x, n, c, i) ==
  Items(x, n, {i}) /\ c \in Clients /\ i \in Ids /\ x.st[i].status = "taken" /\ x.st[i].client = c

\* Of the lists of client c only ready changes, and there i comes last.
ListsKept(x, y, c, i) ==
  /\ \/ y.drv[c].ready = x.drv[c].ready
     \/ y.drv[c].ready = Append(x.drv[c].ready, i) /\ y.st[i].status = "ready"
  /\ y.drv[c].notifications = x.drv[c].notifications

\* Item i comes before what the client keeps and after what its serial loop has.
NextInLine(d, T, i) ==
  /\ Above(i, d.preserved)
  /\ ~d.observer.concurrent /\ ~d.observer.stopped =>
       /\ \A j \in T : j < i
       /\ \A j \in Ids : has(d.observer.queue, j) => j < i

\* The clients in C give up what their loops have queued, the items W.
Withdrawn(x, y, C, W) ==
  /\ \A i \in Ids : i \in W <=> \E c \in C : has(x.drv[c].observer.queue, i)
  /\ \A i \in Ids : i \notin W => y.st[i] = x.st[i]
  /\ \A i \in Ids : i \in W => y.st[i] = [x.st[i] EXCEPT !.status = "dropped"]
  /\ \A c \in Clients : /\ y.drv[c].preserved = x.drv[c].preserved
                        /\ y.drv[c].selected = x.drv[c].selected
                        /\ y.drv[c].ready = x.drv[c].ready
                        /\ y.drv[c].notifications = x.drv[c].notifications
                        /\ c \notin C => y.drv[c].observer = x.drv[c].observer
  /\ \A c \in C : \/ y.drv[c].observer = NoObserver
                  \/ /\ y.drv[c].observer.id = x.drv[c].observer.id
                     /\ y.drv[c].observer.id # 0
                     /\ y.drv[c].observer.concurrent = x.drv[c].observer.concurrent
                     /\ y.drv[c].observer.active = x.drv[c].observer.active
                     /\ y.drv[c].observer.stopped /\ y.drv[c].observer.queue = <<>>

SameFlags(e, d) ==
  /\ e.consumer = d.consumer /\ e.drive = d.drive /\ e.active = d.active
  /\ e.draining = d.draining /\ e.selecting = d.selecting
  /\ e.observer.id # 0 => d.observer.id # 0

\* Between x and y no call begins or ends, and what runs or is over does not go back.
Keeps(x, y) ==
  /\ \A c \in Clients : SameFlags(y.drv[c], x.drv[c])
  /\ \A i \in Ids : x.st[i].status \in Entered => y.st[i].status \in Entered

\* What client c has ready and whom it has to call, after only state t has changed.
Relisted(x, y, c, t) ==
  /\ y.drv[c].preserved = x.drv[c].preserved /\ y.drv[c].selected = x.drv[c].selected
  /\ y.drv[c].observer = x.drv[c].observer
  /\ OnceEach(y.drv[c].ready)
  /\ \A k \in DOMAIN y.drv[c].ready :
       IF y.drv[c].ready[k] = t THEN y.st[t].status \in Due /\ y.st[t].client = c
       ELSE has(x.drv[c].ready, y.drv[c].ready[k])
  /\ y.drv[c].notifications \subseteq x.drv[c].notifications \ {t}

\* A Task is over.
Over(x, y, t) ==
  /\ t \notin tasks(y, x.st[t].client)
  /\ \A b \in Clients : tasks(y, b) \subseteq tasks(x, b) /\ y.drv[b].observer = x.drv[b].observer
  /\ y.st[t].kind = x.st[t].kind /\ y.st[t].observer = x.st[t].observer
  /\ y.st[t].client = x.st[t].client

\* A flag goes from a to b while the top frame, that holds it if p, becomes one that
\* holds it if q.
Shift(p, q, a, b) ==
  /\ p /\ ~q => ~b
  /\ ~p /\ q => ~a /\ b
  /\ (p <=> q) => (a <=> b)

\* The same of the members d and e of client c and the frames f and g.
Moved(d, e, f, g, c) ==
  /\ Shift(drives(f, c), drives(g, c), d.drive, e.drive)
  /\ Shift(pumps(f, c), pumps(g, c), d.active, e.active)
  /\ Shift(drains(f, c), drains(g, c), d.draining, e.draining)
  /\ Shift(polls(f, c) \/ loops(f, c), polls(g, c) \/ loops(g, c), d.consumer, e.consumer)
  /\ e.selecting => polls(g, c) \/ (d.selecting /\ ~polls(f, c))
  /\ e.observer.id # 0 => loops(g, c) \/ (d.observer.id # 0 /\ ~loops(f, c))

\* There is no frame.
NoFrame == [op |-> "none", c |-> NoClient, pc |-> "run"]

\* A frame that holds no flag.
Quiet(f) == f.op \in {"none", "lua", "wait"} \/ (f.op = "tick" /\ f.pc # "ready")

\* A frame that holds no flag of client c.
Still(f, c) == Quiet(f) \/ f.c # c

\* StartDrive() and wake() make y of the states x, and r of the frames s.
DriveStarted(x, s, c, deadline, discard, y, r) ==
  IF x.drv[c].drive THEN y = x /\ r = s
  ELSE /\ y = [x EXCEPT !.drv[c].drive = TRUE]
       /\ r = s \o <<Drive(c, deadline, discard)>> \o Tick(x, c)

Woken(x, s, i, y, r) ==
  IF waitersOf(x, i) = {} THEN y = x /\ r = s
  ELSE \E t \in waitersOf(x, i) :
         /\ y = [x EXCEPT !.st[t].status = "running", !.st[t].dep = 0,
                          !.drv[x.st[i].client].notifications = @ \ {t}]
         /\ r = Append(s, Lua(t))

\* Where the coroutine is, or the bottom of the stack.
Catches(s, k) ==
  /\ k \in 0 .. Len(s) /\ (k = 0 \/ s[k].op = "lua")
  /\ \A j \in k + 1 .. Len(s) : s[j].op # "lua"

\* The clients whose calls of some kind are above k.
Unwound(s, k, op) == {s[j].c : j \in {l \in k + 1 .. Len(s) : s[l].op = op}}

\* The drives above k end.
Halted(x, D) ==
  [x EXCEPT !.drv = [c \in Clients |-> IF c \in D
                                       THEN [@[c] EXCEPT !.drive = FALSE, !.active = FALSE] ELSE @[c]]]

rank(S, x) == Cardinality({y \in S : y <= x})

\* The selected update is dropped.
Deselected(x, w, c) ==
  LET i == x.drv[c].selected IN
  /\ w \in Managed
  /\ i # 0 => x.st[i].status = "taken"
  /\ \A j \in Ids : w.st[j] = IF j = i THEN [x.st[j] EXCEPT !.status = "dropped"] ELSE x.st[j]
  /\ \A e \in Clients : e # c => w.drv[e] = x.drv[e]
  /\ w.drv[c] = [x.drv[c] EXCEPT !.selected = 0]

\* The pending requests of c are over; whoever waits for a state of c that is over is to
\* be notified.
Failed(w, y, c) ==
  LET failed == pending_requests(w, c) IN
  /\ y \in Managed
  /\ \A i \in Ids : y.st[i] = IF i \in failed THEN [w.st[i] EXCEPT !.status = "failed"] ELSE w.st[i]
  /\ \A e \in Clients : e # c => y.drv[e] = w.drv[e]
  /\ SameFlags(y.drv[c], w.drv[c])
  /\ y.drv[c].preserved = w.drv[c].preserved /\ y.drv[c].selected = w.drv[c].selected
  /\ y.drv[c].observer = w.drv[c].observer
  /\ y.drv[c].ready = w.drv[c].ready \o ascending(failed)
  /\ \A t \in y.drv[c].notifications :
       \/ t \in w.drv[c].notifications
       \/ t \in Ids /\ y.st[t].status = "waiting" /\ y.st[t].dep \in Ids /\ y.st[y.st[t].dep].client = c

DriveFrames == [op : {"drive"}, c : Clients, pc : {"tick", "pump", "pumped", "round", "last"},
                deadline : Deadlines, discard : BOOLEAN, deps : SUBSET Clients]

PollFrames == [op : {"poll"}, c : Clients, pc : {"select", "take", "return"}, callback : BOOLEAN,
               deadline : Deadlines, attempted : BOOLEAN]

LoopFrames == [op : {"loop"}, c : Clients, pc : {"tick", "check", "return"}, callback : BOOLEAN]

WaitFrames == [op : {"wait"}, c : Clients, pc : {"tick", "check"}, i : Ids]

\* A flag of client c changes with the frame of tick().
DrainSet(x, y, c, b) ==
  /\ y.st = x.st
  /\ \A a \in Clients : a # c => y.drv[a] = x.drv[a]
  /\ y.drv[c].draining = b /\ y.drv[c].drive = x.drv[c].drive
  /\ y.drv[c].active = x.drv[c].active /\ y.drv[c].consumer = x.drv[c].consumer
  /\ y.drv[c].selecting = x.drv[c].selecting /\ y.drv[c].observer = x.drv[c].observer

\* The members of client c change that say that it is driven and its transport is read.
DriveSet(x, y, c, a, b) ==
  /\ y.st = x.st
  /\ \A e \in Clients : e # c => y.drv[e] = x.drv[e]
  /\ y.drv[c].drive = a /\ y.drv[c].active = b
  /\ y.drv[c].draining = x.drv[c].draining /\ y.drv[c].consumer = x.drv[c].consumer
  /\ y.drv[c].selecting = x.drv[c].selecting /\ y.drv[c].observer = x.drv[c].observer

\* The members of client c change that a poll sets.
PollSet(x, y, c, b) ==
  /\ y.st = x.st
  /\ \A e \in Clients : e # c => y.drv[e] = x.drv[e]
  /\ y.drv[c].selecting = b
  /\ y.drv[c].drive = x.drv[c].drive /\ y.drv[c].active = x.drv[c].active
  /\ y.drv[c].draining = x.drv[c].draining /\ y.drv[c].consumer = x.drv[c].consumer
  /\ y.drv[c].observer = x.drv[c].observer
=============================================================================
