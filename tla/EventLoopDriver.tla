--------------------------- MODULE EventLoopDriver ---------------------------
(***************************************************************************)
(* The owner-thread driver of tdlua_eventloop/driver.lua: a turn visits    *)
(* the registered clients round-robin from a cursor, within a budget of    *)
(* receive(0) calls, then decides how the host goes on.  Everything runs   *)
(* on one thread, but receive() and on_update run application callbacks    *)
(* that re-enter the driver, and the host calls it between turns.          *)
(*                                                                         *)
(* by_client is the set of entries in clients, which the code keeps equal; *)
(* last_round = round_id is a flag of the entry.  Serials are only         *)
(* compared, and every turn renumbers the registered entries in order.     *)
(***************************************************************************)
EXTENDS Integers, Sequences, SequencesExt, FiniteSets

CONSTANTS
    Clients,       \* clients of one Lua VM
    Budget, Slice, \* receive(0) calls per turn, and per client and turn
    StallAfter,    \* stall_after
    StallFatal,    \* stall_fatal
    InCallbacks,   \* operations the application's callbacks may call
    BetweenTurns,  \* operations the host may call between turns
    Happens,       \* what else may happen
    MaxSerial,     \* bound: registrations between two turn starts
    MaxBacklog     \* bound: raw updates waiting for one client

Operations == {"add", "remove", "stop", "kick", "progress"}

ASSUME BudgetAssumption == Budget \in Nat \ {0} /\ Slice \in 1..Budget
ASSUME StallAssumption == StallAfter \in Nat \ {0} /\ StallFatal \in BOOLEAN
ASSUME HostAssumption ==
    /\ InCallbacks \subseteq Operations /\ BetweenTurns \subseteq Operations
    /\ Happens \subseteq {"arrive", "close", "expire", "foreign", "owner", "raise", "break"}
ASSUME BoundAssumption == MaxSerial \in Nat \ {0} /\ MaxBacklog \in Nat

VARIABLES
    d,               \* the fields of the driver
    pc,              \* where tick() is
    queue,           \* the part of the snapshot not yet visited
    current, call,   \* the entry being served, and its calls
    calls, updates,  \* counters of the turn
    result,          \* what the last tick() returned
    backlog, closed, \* raw updates waiting for each client; terminal clients
    expired,         \* clients whose nearest waiter deadline has passed
    foreign,         \* owner-wide work that no receive(0) here returns
    owner,           \* the owner's readiness: "valid", "invalid" or "raises"
    quiet,           \* history: complete sweeps since progress
    reports          \* history: stalls reported since progress

turn == <<pc, queue, current, call, calls, updates, result>>
world == <<backlog, closed, expired, foreign, owner>>
history == <<quiet, reports>>
vars == <<d, turn, world, history>>

Entry == [client : Clients, serial : 1..MaxSerial, inRound : BOOLEAN, swept : BOOLEAN]

Driver ==
    [clients : Seq(Entry), cursor : Nat, stopped : BOOLEAN, kicked : BOOLEAN,
     idle : 0..StallAfter,         \* idle_rounds, counted up to StallAfter
     zero : 0..StallAfter,         \* zero_rounds, counted up to StallAfter
     stallReported : BOOLEAN,
     roundCalls : BOOLEAN,         \* round_calls > 0
     roundProgress : BOOLEAN,      \* round_updates > 0 or round_progress
     nextSerial : 1..(MaxSerial + 1),
     due : 0..MaxSerial]           \* history: serial of the entry to serve next

Result == [state : {"none", "sleep", "again", "stalled", "closed", "error"},
           fatal : BOOLEAN, cause : {"none", "work", "deadline"}]

Returns(name) == [state |-> name, fatal |-> FALSE, cause |-> "none"]

TypeOK ==
    /\ d \in Driver
    /\ d.cursor \in 1..(Len(d.clients) + 1)
    /\ \A i, j \in DOMAIN d.clients : i < j =>
          /\ d.clients[i].client # d.clients[j].client
          /\ d.clients[i].serial < d.clients[j].serial
    /\ pc \in {"idle", "select", "call", "receive", "deliver", "next", "resolve"}
    /\ queue \in Seq(Entry) /\ current \in Entry \cup {<<>>}
    /\ call \in 0..Slice /\ calls \in 0..Budget /\ updates \in 0..calls
    /\ result \in Result
    /\ backlog \in [Clients -> 0..MaxBacklog]
    /\ closed \subseteq Clients /\ expired \subseteq Clients
    /\ foreign \in BOOLEAN /\ owner \in {"valid", "invalid", "raises"}
    /\ quiet \in 0..StallAfter /\ reports \in 0..2

Init ==
    /\ d = [clients |-> <<>>, cursor |-> 1, stopped |-> FALSE, kicked |-> FALSE,
            idle |-> 0, zero |-> 0, stallReported |-> FALSE,
            roundCalls |-> FALSE, roundProgress |-> FALSE, nextSerial |-> 1, due |-> 0]
    /\ pc = "idle" /\ queue = <<>> /\ current = <<>>
    /\ call = 0 /\ calls = 0 /\ updates = 0 /\ result = Returns("none")
    /\ backlog = [c \in Clients |-> 0] /\ closed = {} /\ expired = {}
    /\ foreign = FALSE /\ owner = "valid"
    /\ quiet = 0 /\ reports = 0

-----------------------------------------------------------------------------
(***************************************************************************)
(* Registrations and rounds.                                               *)
(***************************************************************************)
Registered(c) == \E i \in DOMAIN d.clients : d.clients[i].client = c

\* by_client[e.client] == e
IsRegistered(e) ==
    \E i \in DOMAIN d.clients :
        d.clients[i].client = e.client /\ d.clients[i].serial = e.serial

Map(list, F(_)) == [i \in DOMAIN list |-> F(list[i])]

\* The first index of a registration after serial s in cyclic order.
IndexAfter(list, s) ==
    LET later == {i \in DOMAIN list : list[i].serial > s}
    IN  IF later = {} THEN 1 ELSE CHOOSE i \in later : \A j \in later : i <= j

SerialAfter(list, s) == IF list = <<>> THEN 0 ELSE list[IndexAfter(list, s)].serial

ResetRound(x) ==
    [x EXCEPT !.clients = Map(x.clients, LAMBDA e : [e EXCEPT !.inRound = FALSE]),
              !.roundCalls = FALSE, !.roundProgress = FALSE]

Unswept(list) == Map(list, LAMBDA e : [e EXCEPT !.swept = FALSE])

Capped(n) == IF n < StallAfter THEN n + 1 ELSE n

CompleteRound_AnyRound(x) ==
    ResetRound([x EXCEPT !.idle =
        IF ~x.roundCalls THEN @ ELSE IF x.roundProgress THEN 0 ELSE Capped(@)])

\* _complete_round(): only a round that called every client counts.
CompleteRound(x) ==
    LET counts == x.roundCalls /\ \A i \in DOMAIN x.clients : x.clients[i].inRound
    IN  ResetRound([x EXCEPT !.idle =
            IF ~counts THEN @ ELSE IF x.roundProgress THEN 0 ELSE Capped(@)])

Stopped(x) ==
    [x EXCEPT !.stopped = TRUE, !.clients = <<>>, !.cursor = 1,
              !.stallReported = FALSE, !.due = 0]

Removed(x, c) ==
    LET gone == CHOOSE i \in DOMAIN x.clients : x.clients[i].client = c
        rest == RemoveAt(x.clients, gone)
        passed == IF x.due = x.clients[gone].serial
                  THEN SerialAfter(rest, x.due) ELSE x.due
        cursor == IF x.cursor > Len(rest) THEN 1 ELSE x.cursor
        left == ResetRound([x EXCEPT !.clients = rest, !.cursor = cursor, !.due = passed])
    IN  IF rest = <<>> THEN Stopped(left) ELSE left

Added(x, c) ==
    LET e == [client |-> c, serial |-> x.nextSerial, inRound |-> FALSE, swept |-> FALSE]
    IN  ResetRound([x EXCEPT !.clients = Append(@, e), !.nextSerial = @ + 1,
                             !.due = IF @ = 0 THEN e.serial ELSE @])

\* _cursor_after(): by identity if the entry is still there, else by serial.
CursorAfter_ByIndex(e) ==
    IF d.clients = <<>> THEN 1 ELSE (d.cursor % Len(d.clients)) + 1

CursorAfter(e) ==
    IF IsRegistered(e)
    THEN LET at == CHOOSE i \in DOMAIN d.clients : d.clients[i].serial = e.serial
         IN  (at % Len(d.clients)) + 1
    ELSE IndexAfter(d.clients, e.serial)

-----------------------------------------------------------------------------
(***************************************************************************)
(* Operations of the application, from a callback or between turns.        *)
(***************************************************************************)
MayCall(op) ==
    \/ pc = "idle" /\ op \in BetweenTurns
    \/ pc \in {"receive", "deliver"} /\ op \in InCallbacks

\* add(): readiness of a closed client cannot be acquired.
Add(c) ==
    /\ MayCall("add") /\ ~d.stopped /\ ~Registered(c) /\ c \notin closed
    /\ d.nextSerial <= MaxSerial
    /\ d' = Added(d, c)
    /\ UNCHANGED <<turn, world, history>>

\* add() whose notification of the adapter raised, or stopped the driver: the
\* registration is rolled back.
AddFails(c) ==
    /\ MayCall("add") /\ ~d.stopped /\ ~Registered(c) /\ c \notin closed
    /\ d.nextSerial <= MaxSerial /\ "raise" \in Happens
    /\ d' \in {[ResetRound(d) EXCEPT !.nextSerial = @ + 1],
               [Stopped(ResetRound(d)) EXCEPT !.nextSerial = @ + 1]}
    /\ UNCHANGED <<turn, world, history>>

\* remove().  Between turns the array shifts under the cursor, an index: the
\* client it points to then is served next, and the order starts anew from it.
RemoveClient(c) ==
    /\ MayCall("remove") /\ Registered(c)
    /\ LET x == Removed(d, c)
       IN  d' = IF pc = "idle" /\ x.clients # <<>>
                THEN [x EXCEPT !.due = x.clients[x.cursor].serial] ELSE x
    /\ UNCHANGED <<turn, world, history>>

Stop ==
    /\ MayCall("stop") /\ ~d.stopped
    /\ d' = Stopped(d)
    /\ UNCHANGED <<turn, world, history>>

Kick_Rearms ==
    /\ MayCall("kick") /\ ~d.stopped
    /\ d' = [d EXCEPT !.kicked = TRUE, !.stallReported = FALSE]
    /\ UNCHANGED <<turn, world, history>>

Kick ==
    /\ MayCall("kick") /\ ~d.stopped
    /\ d' = [d EXCEPT !.kicked = TRUE]
    /\ UNCHANGED <<turn, world, history>>

Progress ==
    /\ MayCall("progress") /\ ~d.stopped
    /\ d' = [d EXCEPT !.idle = 0, !.zero = 0, !.roundProgress = TRUE,
                      !.stallReported = FALSE, !.clients = Unswept(@)]
    /\ quiet' = 0 /\ reports' = 0
    /\ UNCHANGED <<turn, world>>

-----------------------------------------------------------------------------
(***************************************************************************)
(* A turn: tick().                                                         *)
(***************************************************************************)

\* Serials restart with every turn; the next to serve keeps its place.
Renumbered(x) ==
    [x EXCEPT !.clients = [i \in DOMAIN @ |-> [@[i] EXCEPT !.serial = i]],
              !.nextSerial = Len(x.clients) + 1,
              !.due = CHOOSE i \in DOMAIN x.clients : x.clients[i].serial = x.due]

\* The locals of tick() end with it.
TurnOver ==
    /\ pc' = "idle" /\ queue' = <<>> /\ current' = <<>>
    /\ call' = 0 /\ calls' = 0 /\ updates' = 0

\* The results that end the session: the adapter retires.
Terminal == result.state = "error" \/ result.fatal

MayTick == pc = "idle" /\ ~Terminal

\* tick() on a driver with nothing to drive.
TickClosed ==
    /\ MayTick /\ result.state # "closed"
    /\ d.stopped \/ d.clients = <<>> \/ owner = "invalid"
    /\ d' = Stopped(d)
    /\ result' = Returns("closed")
    /\ TurnOver
    /\ UNCHANGED <<world, history>>

\* The readiness methods raise: nothing was consumed.
TickRaises ==
    /\ MayTick /\ ~d.stopped /\ d.clients # <<>> /\ owner = "raises"
    /\ result' = Returns("error")
    /\ TurnOver
    /\ UNCHANGED <<d, world, history>>

Tick_NewRound ==
    /\ MayTick /\ ~d.stopped /\ d.clients # <<>> /\ owner = "valid"
    /\ LET x == ResetRound(Renumbered(d))
           start == IF d.cursor > Len(d.clients) THEN 1 ELSE d.cursor
       IN  /\ d' = [x EXCEPT !.cursor = start]
           /\ queue' = SubSeq(x.clients, start, Len(x.clients))
                         \o SubSeq(x.clients, 1, start - 1)
    /\ pc' = "select" /\ current' = <<>> /\ call' = 0 /\ calls' = 0 /\ updates' = 0
    /\ result' = Returns("none")
    /\ UNCHANGED <<world, history>>

\* The snapshot, rotated to start at the cursor.
Tick ==
    /\ MayTick /\ ~d.stopped /\ d.clients # <<>> /\ owner = "valid"
    /\ LET x == Renumbered(d)
           start == IF d.cursor > Len(d.clients) THEN 1 ELSE d.cursor
       IN  /\ d' = [x EXCEPT !.cursor = start]
           /\ queue' = SubSeq(x.clients, start, Len(x.clients))
                         \o SubSeq(x.clients, 1, start - 1)
    /\ pc' = "select" /\ current' = <<>> /\ call' = 0 /\ calls' = 0 /\ updates' = 0
    /\ result' = Returns("none")
    /\ UNCHANGED <<world, history>>

\* The loop of _consume().
Select ==
    /\ pc = "select"
    /\ IF queue = <<>> \/ d.stopped \/ calls >= Budget
       THEN pc' = "resolve" /\ UNCHANGED <<queue, current, call>>
       ELSE /\ queue' = Tail(queue)
            /\ IF IsRegistered(Head(queue))
               THEN pc' = "call" /\ current' = Head(queue) /\ call' = 0
               ELSE UNCHANGED <<pc, current, call>>
    /\ UNCHANGED <<d, calls, updates, result, world, history>>

\* The loop of _consume_client().
Call ==
    /\ pc = "call"
    /\ pc' = IF call >= Slice \/ calls >= Budget THEN "next"
             ELSE IF d.stopped THEN "resolve"
             ELSE IF ~IsRegistered(current) THEN "next"
             ELSE "receive"
    /\ d' = IF pc' # "receive" THEN d
            ELSE [d EXCEPT !.clients = Map(@, LAMBDA e :
                    IF e.serial = current.serial THEN [e EXCEPT !.inRound = TRUE] ELSE e)]
    /\ UNCHANGED <<queue, current, call, calls, updates, result, world, history>>

\* One call of receive(0) ended; the waiters of the client whose deadline had
\* passed were resumed by it.
Called ==
    /\ pc = "receive"
    /\ expired' = expired \ {current.client}
    /\ UNCHANGED <<closed, foreign, owner>>

Counted ==
    /\ call' = call + 1 /\ calls' = calls + 1
    /\ UNCHANGED <<queue, current, result>>

\* What every call does to the driver, and to the history of sweeps: a sweep is
\* complete once every registered client was called.
WithCall(x) ==
    LET seen == Map(x.clients, LAMBDA e :
                    IF e.serial = current.serial THEN [e EXCEPT !.swept = TRUE] ELSE e)
        full == \A i \in DOMAIN seen : seen[i].swept
    IN  [x EXCEPT !.roundCalls = TRUE,
                  !.clients = IF full THEN Unswept(seen) ELSE seen]

SweepEnds ==
    \A i \in DOMAIN d.clients : d.clients[i].swept \/ d.clients[i].serial = current.serial

\* receive(0) returned nil, or raised on a closed client: a closed client goes.
ReceiveNil ==
    /\ Called
    /\ current.client \in closed \/ backlog[current.client] = 0
    /\ d' = IF current.client \in closed /\ Registered(current.client)
            THEN Removed(WithCall(d), current.client) ELSE WithCall(d)
    /\ quiet' = IF SweepEnds THEN Capped(quiet) ELSE quiet
    /\ pc' = "next"
    /\ Counted
    /\ UNCHANGED <<updates, backlog, reports>>

\* receive(0) raised on an open client; updates delivered earlier in the turn
\* still start a new episode.
ReceiveRaises ==
    /\ Called /\ "raise" \in Happens
    /\ current.client \notin closed
    /\ d' = [WithCall(d) EXCEPT !.stallReported = @ /\ updates = 0]
    /\ result' = Returns("error")
    /\ TurnOver
    /\ UNCHANGED <<backlog, history>>

\* receive(0) returned a raw update, but its callbacks stopped the driver, or
\* took the registration away: the update goes with it.
ReceiveStale ==
    /\ Called
    /\ backlog[current.client] > 0
    /\ d.stopped \/ ~IsRegistered(current) \/ current.client \in closed
    /\ d' = IF ~d.stopped /\ IsRegistered(current)
            THEN Removed(WithCall(d), current.client) ELSE WithCall(d)
    /\ backlog' = [backlog EXCEPT ![current.client] = @ - 1]
    /\ pc' = IF d.stopped THEN "resolve" ELSE "next"
    /\ Counted
    /\ UNCHANGED <<updates, history>>

\* ... otherwise on_update runs.
ReceiveUpdate ==
    /\ Called
    /\ backlog[current.client] > 0
    /\ ~d.stopped /\ IsRegistered(current) /\ current.client \notin closed
    /\ d' = [WithCall(d) EXCEPT !.roundProgress = TRUE, !.clients = Unswept(@)]
    /\ backlog' = [backlog EXCEPT ![current.client] = @ - 1]
    /\ updates' = updates + 1
    /\ quiet' = 0 /\ reports' = 0
    /\ pc' = "deliver"
    /\ Counted

\* on_update returned; a closed client goes, whatever registration it has now.
Delivered ==
    /\ pc = "deliver"
    /\ IF current.client \in closed
       THEN /\ d' = IF Registered(current.client) THEN Removed(d, current.client) ELSE d
            /\ pc' = "next"
       ELSE pc' = "call" /\ UNCHANGED d
    /\ UNCHANGED <<queue, current, call, calls, updates, result, world, history>>

\* on_update raised, or is not configured; tick() still counts the update as
\* progress.
DeliveryFails ==
    /\ pc = "deliver" /\ "raise" \in Happens
    /\ d' = [d EXCEPT !.stallReported = FALSE]
    /\ result' = Returns("error")
    /\ TurnOver
    /\ UNCHANGED <<world, history>>

NextClient_Stays ==
    /\ pc = "next"
    /\ d' = IF CursorAfter(current) = 1 THEN CompleteRound(d) ELSE d
    /\ pc' = "select"
    /\ UNCHANGED <<queue, current, call, calls, updates, result, world, history>>

\* The end of a client's slice.
NextClient ==
    /\ pc = "next"
    /\ LET next == CursorAfter(current)
           x == IF next = 1 THEN CompleteRound(d) ELSE d
       IN  d' = [x EXCEPT !.cursor = next, !.due = SerialAfter(d.clients, current.serial)]
    /\ pc' = "select"
    /\ UNCHANGED <<queue, current, call, calls, updates, result, world, history>>

-----------------------------------------------------------------------------
(***************************************************************************)
(* _resolve_state(): how the host goes on.                                 *)
(***************************************************************************)
Work ==
    \/ foreign
    \/ \E c \in Clients : backlog[c] > 0 \/ (c \in closed /\ Registered(c))

\* The result when n quiet rounds, or turns, were counted.
Decide(x, n, cause) ==
    IF n >= StallAfter /\ (~x.stallReported \/ StallFatal)
    THEN [state |-> "stalled", fatal |-> StallFatal, cause |-> cause]
    ELSE Returns("again")

\* The updates of the turn are progress before anything is decided.
Credited(x) ==
    IF updates > 0 THEN [x EXCEPT !.idle = 0, !.stallReported = FALSE] ELSE x

EndTurn(x, r) ==
    /\ d' = [x EXCEPT !.stallReported = @ \/ r.state = "stalled"]
    /\ result' = r
    /\ reports' = IF r.state = "stalled" /\ reports < 2
                  THEN reports + 1 ELSE reports

ResolveWork(x) == EndTurn([x EXCEPT !.zero = 0], Decide(x, x.idle, "work"))

\* Visible work that yields nothing is never retried at once.
ResolveDeadline(x) ==
    LET zero == Capped(x.zero)
    IN  EndTurn([x EXCEPT !.idle = 0, !.zero = zero], Decide(x, zero, "deadline"))

Resolve ==
    /\ pc = "resolve"
    /\ LET x == Credited(d)
           invalid == ~d.stopped /\ owner = "invalid"
           raises == ~d.stopped /\ owner = "raises"
           kicked == ~d.stopped /\ owner = "valid" /\ d.kicked
           live == ~d.stopped /\ owner = "valid" /\ ~d.kicked
       IN  \/ d.stopped /\ EndTurn(d, Returns("closed"))
           \/ invalid /\ EndTurn(Stopped(x), Returns("closed"))
           \/ raises /\ EndTurn(x, Returns("error"))
           \/ kicked /\ EndTurn([x EXCEPT !.kicked = FALSE, !.zero = 0], Returns("again"))
           \/ live /\ Work /\ ResolveWork(x)
           \/ live /\ ~Work /\ expired # {} /\ updates = 0 /\ ResolveDeadline(x)
           \/ live /\ ~Work /\ (expired = {} \/ updates > 0)
                /\ EndTurn([x EXCEPT !.idle = 0, !.zero = 0], Returns("sleep"))
    /\ TurnOver
    /\ UNCHANGED <<world, quiet>>

\* The adapter retires on a terminal result.
Finish ==
    /\ pc = "idle" /\ Terminal /\ ~d.stopped
    /\ d' = Stopped(d)
    /\ UNCHANGED <<turn, world, history>>

-----------------------------------------------------------------------------
(***************************************************************************)
(* The world.                                                              *)
(***************************************************************************)
Arrive(c) ==
    /\ "arrive" \in Happens /\ c \notin closed /\ backlog[c] < MaxBacklog
    /\ backlog' = [backlog EXCEPT ![c] = @ + 1]
    /\ UNCHANGED <<d, turn, closed, expired, foreign, owner, history>>

\* The client becomes terminal; what it had queued is no longer returned.
Close(c) ==
    /\ "close" \in Happens /\ c \notin closed
    /\ closed' = closed \cup {c}
    /\ UNCHANGED <<d, turn, backlog, expired, foreign, owner, history>>

Expire(c) ==
    /\ "expire" \in Happens /\ c \notin expired
    /\ expired' = expired \cup {c}
    /\ UNCHANGED <<d, turn, backlog, closed, foreign, owner, history>>

Foreign ==
    /\ "foreign" \in Happens
    /\ foreign' = ~foreign
    /\ UNCHANGED <<d, turn, backlog, closed, expired, owner, history>>

OwnerLost ==
    /\ "owner" \in Happens /\ owner = "valid"
    /\ owner' \in {"invalid", "raises"}
    /\ UNCHANGED <<d, turn, backlog, closed, expired, foreign, history>>

Operation ==
    \/ \E c \in Clients : Add(c) \/ AddFails(c) \/ RemoveClient(c)
    \/ Stop \/ Kick \/ Progress

TurnStep ==
    \/ Select \/ Call \/ NextClient \/ Resolve
    \/ ReceiveNil \/ ReceiveRaises \/ ReceiveStale \/ ReceiveUpdate
    \/ Delivered \/ DeliveryFails

StartTurn == Tick \/ TickClosed \/ TickRaises

Outside ==
    \/ \E c \in Clients : Arrive(c) \/ Close(c) \/ Expire(c)
    \/ Foreign \/ OwnerLost

Next == Operation \/ TurnStep \/ StartTurn \/ Finish \/ Outside

Spec == Init /\ [][Next]_vars

-----------------------------------------------------------------------------
(***************************************************************************)
(* Properties.                                                             *)
(***************************************************************************)

\* Registrations added and removed by callbacks neither skip nor serve twice:
\* every slice of _consume() goes to the client whose turn it is in registration
\* order, across turns and exhausted budgets, unless that one registered after
\* the turn began and waits for the next.
InOrder ==
    pc = "call" /\ call = 0 /\ current.serial # d.due =>
        \A i \in DOMAIN queue : queue[i].serial # d.due

StallsFor(causes) ==
    pc = "resolve" /\ result'.state = "stalled" /\ result'.cause \in causes

\* A stall over visible work is earned: since the last delivered update or
\* progress(), StallAfter sweeps have each called receive(0) on every client
\* registered, whatever was added, removed or kicked meanwhile.
StallEarned == [][StallsFor({"work"}) => quiet = StallAfter]_vars

\* The same of every stall, the ones over an expired deadline included: a
\* budget smaller than the number of clients causes no false stall.
NoFalseStall == [][StallsFor({"work", "deadline"}) => quiet = StallAfter]_vars

\* The state is well-formed, and an episode is reported once: only a delivered
\* update or progress() lets _resolve_state() report another stall that is not
\* fatal.
OncePerEpisode == TypeOK /\ (StallFatal \/ reports <= 1)
=============================================================================
