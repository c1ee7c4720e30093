---------------------------- MODULE FailureCleanup ----------------------------
(***************************************************************************)
(* The lifecycle ledger of a receiver runtime                              *)
(* (include/tdlua/common/failure_cleanup.h) with the threads that call it: *)
(* Lua owners that create clients, send and close; the single receiver     *)
(* worker that observes TDLib's events; and, after a receiver failure, the *)
(* same worker draining TDLib (cleanupAfterFailure in                      *)
(* src/backend/json/runtime.cpp and src/backend/native/runtime.cpp).       *)
(*                                                                         *)
(* Every critical section of the ledger's mutex is one step; calls to      *)
(* TDLib are steps of their own, because the ledger makes them unlocked.   *)
(* The two intrusive work lists are sets here (the records whose `work' is *)
(* "Notify" or "Close"), so the drainer may take any member and not only   *)
(* the head: every result holds for the list order in particular.          *)
(***************************************************************************)
EXTENDS Integers, FiniteSets

CONSTANTS
    Clients,    \* TDLib client identities the allocator can hand out
    NoClient,   \* not an identity
    Senders,    \* concurrent send() calls of Lua owners
    MaxCloses,  \* bound: close/destroy requests an owner sends per client
    MayThrow,   \* whether td_send and the drain's calls may throw
    MayReject,  \* whether TDLib may answer a close with an error
    MayExpire   \* whether the drain's five second budget may run out

ASSUME ClientsFinite == IsFiniteSet(Clients)
ASSUME NoClientAssumption == NoClient \notin Clients
ASSUME SendersFinite == IsFiniteSet(Senders)
ASSUME MaxClosesNat == MaxCloses \in Nat
ASSUME FlagsBoolean == {MayThrow, MayReject, MayExpire} \subseteq BOOLEAN

VARIABLES
    rec,              \* records_ and history_: one record per identity
    stats,            \* the counters of stats_ the drain decides by
    phase,            \* stats_.phase
    failed,           \* failed_
    invariantBroken,  \* invariant_broken_
    worker,           \* the receiver thread: where it is, and on which client
    sender,           \* the send() calls in flight
    owner,            \* what each client's Lua owner has done with it
    engineFailed,     \* Runtime::failure_ # None, published before the drain
    td                \* external: TDLib's own state of each client

vars == <<rec, stats, phase, failed, invariantBroken, worker, sender, owner,
          engineFailed, td>>

-----------------------------------------------------------------------------
(***************************************************************************)
(* Records.  state "unknown" is an identity never registered, "retired"    *)
(* one that was erased from records_ and remains in history_ only.         *)
(***************************************************************************)
Record == [state : {"unknown", "live", "retired"},
           materialized : BOOLEAN, close_sent : BOOLEAN, terminal : BOOLEAN,
           uncertain : BOOLEAN, notified : BOOLEAN, close_uncertain : BOOLEAN,
           busy : BOOLEAN, active : Int, work : {"None", "Close", "Notify"}]

Blank(state) ==
    [state |-> state, materialized |-> FALSE, close_sent |-> FALSE,
     terminal |-> FALSE, uncertain |-> FALSE, notified |-> FALSE,
     close_uncertain |-> FALSE, busy |-> FALSE, active |-> 0, work |-> "None"]

Counters == {"remaining", "uncertain", "records", "reserved", "terminal_records",
             "active_sends", "close_work", "notification_work"}

Stats == [Counters -> Int]

Live(c) == rec[c].state = "live"

(***************************************************************************)
(* The private helpers change one record and the counters together: they   *)
(* map a pair [r, n] of record and counters to the pair they leave.        *)
(***************************************************************************)
Local == [r : Record, n : Stats]

At(c) == [r |-> rec[c], n |-> stats]

Add(n, counter, d) == [n EXCEPT ![counter] = @ + d]

With(p, field, value) == [r |-> [p.r EXCEPT ![field] = value], n |-> p.n]

Materialize(p) ==
    IF p.r.materialized THEN p
    ELSE [r |-> [p.r EXCEPT !.materialized = TRUE],
          n |-> Add(Add(p.n, "reserved", -1),
                    "remaining", IF p.r.terminal THEN 0 ELSE 1)]

MarkCloseSent(p) == With(With(p, "close_sent", TRUE), "close_uncertain", FALSE)

\* Mutant: the counter moves even when the flag does not.
SetUncertain_Unchecked(p, value) ==
    [r |-> [p.r EXCEPT !.uncertain = value],
     n |-> Add(p.n, "uncertain", IF value THEN 1 ELSE -1)]

SetUncertain(p, value) ==
    IF p.r.uncertain = value THEN p
    ELSE [r |-> [p.r EXCEPT !.uncertain = value],
          n |-> Add(p.n, "uncertain", IF value THEN 1 ELSE -1)]

\* The counter of the list a record with this work is on.
Counter(w) == IF w = "Notify" THEN "notification_work" ELSE "close_work"

Unlink(p) ==
    IF p.r.work = "None" THEN p
    ELSE [r |-> [p.r EXCEPT !.work = "None"],
          n |-> Add(p.n, Counter(p.r.work), -1)]

\* Mutant: a close whose outcome is unknown is queued again.
Desired_RetriesClose(r, f) ==
    IF /\ ~r.busy /\ ~r.notified
       /\ \/ r.terminal
          \/ f /\ ~r.materialized /\ ~r.uncertain /\ r.active = 0
    THEN "Notify"
    ELSE IF /\ ~r.busy /\ r.materialized /\ ~r.terminal /\ ~r.close_sent
    THEN "Close"
    ELSE "None"

\* Mutant: an uncertain record counts as never materialized.
Desired_TrustsReserved(r, f) ==
    IF /\ ~r.busy /\ ~r.notified
       /\ r.terminal \/ (f /\ ~r.materialized /\ r.active = 0)
    THEN "Notify"
    ELSE IF /\ ~r.busy /\ r.materialized /\ ~r.terminal
            /\ ~r.close_sent /\ ~r.close_uncertain
    THEN "Close"
    ELSE "None"

\* What refreshWork() wants queued for a record, given the failed_ flag.
Desired(r, f) ==
    IF /\ ~r.busy /\ ~r.notified
       /\ \/ r.terminal
          \/ f /\ ~r.materialized /\ ~r.uncertain /\ r.active = 0
    THEN "Notify"
    ELSE IF /\ ~r.busy /\ r.materialized /\ ~r.terminal
            /\ ~r.close_sent /\ ~r.close_uncertain
    THEN "Close"
    ELSE "None"

Link(p, w) ==
    IF w = "None" THEN p
    ELSE [r |-> [p.r EXCEPT !.work = w], n |-> Add(p.n, Counter(w), 1)]

RefreshWork(p, f) ==
    IF p.r.work = Desired(p.r, f) THEN p
    ELSE Link(Unlink(p), Desired(p.r, f))

Erase(p) ==
    [r |-> Blank("retired"),
     n |-> Add(Add(Add(p.n, "reserved", IF p.r.materialized THEN 0 ELSE -1),
                   "terminal_records", IF p.r.terminal THEN -1 ELSE 0),
               "records", -1)]

RetireIfReady(p) ==
    IF \/ ~p.r.notified \/ p.r.active # 0 \/ p.r.busy
       \/ ~p.r.terminal /\ (p.r.materialized \/ p.r.uncertain)
    THEN p
    ELSE Erase(Unlink(p))

\* Write a pair back to the ledger.
Commit(c, p) ==
    /\ rec' = [rec EXCEPT ![c] = p.r]
    /\ stats' = p.n

-----------------------------------------------------------------------------
WorkerPc == {"receive", "ack", "failed", "wait", "pick", "poll", "work",
             "finish", "done"}

Idle == [client |-> NoClient, close |-> FALSE, delivered |-> FALSE]

TypeOK ==
    /\ rec \in [Clients -> Record]
    /\ stats \in Stats
    /\ phase \in {"Idle", "Running", "Quiescent", "Deadline", "Error"}
    /\ failed \in BOOLEAN
    /\ invariantBroken \in BOOLEAN
    /\ worker \in [pc : WorkerPc, client : Clients \cup {NoClient},
                   work : {"None", "Close", "Notify"}]
    /\ sender \in [Senders -> [client : Clients \cup {NoClient},
                               close : BOOLEAN, delivered : BOOLEAN]]
    /\ owner \in [Clients -> [state : {"none", "creating", "open", "gone"},
                              shutdown : Nat]]
    /\ engineFailed \in BOOLEAN
    /\ td \in [Clients -> [actor : {"none", "open", "terminating", "closed"},
                           closes : Nat, rejected : Nat, refused : BOOLEAN]]

Init ==
    /\ rec = [c \in Clients |-> Blank("unknown")]
    /\ stats = [k \in Counters |-> 0]
    /\ phase = "Idle"
    /\ failed = FALSE
    /\ invariantBroken = FALSE
    /\ worker = [pc |-> "receive", client |-> NoClient, work |-> "None"]
    /\ sender = [s \in Senders |-> Idle]
    /\ owner = [c \in Clients |-> [state |-> "none", shutdown |-> 0]]
    /\ engineFailed = FALSE
    /\ td = [c \in Clients |-> [actor |-> "none", closes |-> 0, rejected |-> 0,
                            refused |-> FALSE]]

Goto(pc) == worker' = [worker EXCEPT !.pc = pc]

-----------------------------------------------------------------------------
(***************************************************************************)
(* Lua owners.                                                             *)
(***************************************************************************)

\* JsonRuntime::createClient reserves an identity: registerClient().
RegisterClient(c) ==
    /\ owner[c].state = "none"
    /\ ~engineFailed /\ ~failed
    /\ rec' = [rec EXCEPT ![c] = Blank("live")]
    /\ stats' = Add(Add(stats, "records", 1), "reserved", 1)
    /\ owner' = [owner EXCEPT ![c].state = "creating"]
    /\ UNCHANGED <<phase, failed, invariantBroken, worker, sender,
                   engineFailed, td>>

\* The client is bound and handed to Lua.
PublishClient(c) ==
    /\ owner[c].state = "creating"
    /\ owner' = [owner EXCEPT ![c].state = "open"]
    /\ UNCHANGED <<rec, stats, phase, failed, invariantBroken, worker, sender,
                   engineFailed, td>>

\* Notify the record and retire it unless something pins it: the common end
\* of retireUnused, retireReserved and acknowledgeTerminal.
NotifyAndRetire(c) ==
    Commit(c, RetireIfReady(RefreshWork(With(At(c), "notified", TRUE), failed)))

\* createClient's rollback: retireUnused() of an identity Lua never saw.
RetireUnused(c) ==
    /\ owner[c].state = "creating"
    /\ owner' = [owner EXCEPT ![c].state = "gone"]
    /\ IF Live(c) /\ ~rec[c].materialized /\ ~rec[c].uncertain /\ rec[c].active = 0
       THEN NotifyAndRetire(c)
       ELSE UNCHANGED <<rec, stats>>
    /\ UNCHANGED <<phase, failed, invariantBroken, worker, sender,
                   engineFailed, td>>

\* closeInternal's first attempt: retireReserved() of an identity that never
\* reached TDLib.  Otherwise it returns false and the owner closes the client.
RetireReserved(c) ==
    /\ owner[c].state = "open"
    /\ Live(c) => ~rec[c].materialized /\ ~rec[c].uncertain /\ rec[c].active = 0
    /\ owner' = [owner EXCEPT ![c].state = "gone"]
    /\ IF Live(c) THEN NotifyAndRetire(c) ELSE UNCHANGED <<rec, stats>>
    /\ UNCHANGED <<phase, failed, invariantBroken, worker, sender,
                   engineFailed, td>>

\* Runtime::admitSend and beginSend().  A refused send (a throw, or false for
\* a close) changes nothing.
BeginSend(s, c, close) ==
    /\ sender[s] = Idle
    /\ owner[c].state = "open"
    /\ close => owner[c].shutdown < MaxCloses
    /\ ~engineFailed /\ ~failed
    /\ Live(c) /\ ~rec[c].terminal /\ ~rec[c].notified
    /\ rec' = [rec EXCEPT ![c].active = @ + 1]
    /\ stats' = Add(stats, "active_sends", 1)
    /\ sender' = [sender EXCEPT ![s] = [client |-> c, close |-> close,
                                        delivered |-> FALSE]]
    /\ owner' = [owner EXCEPT ![c].shutdown = IF close THEN @ + 1 ELSE @]
    /\ UNCHANGED <<phase, failed, invariantBroken, worker, engineFailed, td>>

\* External.  A request reaches TDLib: the first one creates the client's
\* actor; TDLib answers a request to a closed client with an error.
TdAccept(c, close) ==
    td' = [td EXCEPT ![c] =
             IF @.actor = "closed" THEN @
             ELSE [actor |-> IF @.actor = "none" THEN "open" ELSE @.actor,
                   closes |-> IF close THEN @.closes + 1 ELSE @.closes,
                   rejected |-> @.rejected, refused |-> @.refused]]

TdSend(s) ==
    /\ sender[s] # Idle /\ ~sender[s].delivered
    /\ TdAccept(sender[s].client, sender[s].close)
    /\ sender' = [sender EXCEPT ![s].delivered = TRUE]
    /\ UNCHANGED <<rec, stats, phase, failed, invariantBroken, worker, owner,
                   engineFailed>>

\* The record's part of endSend().
EndSendLocal(p, close, success) ==
    LET down == [r |-> [p.r EXCEPT !.active = @ - 1],
                 n |-> Add(p.n, "active_sends", -1)]
        sent == Materialize(down)
        unsure == SetUncertain(down, TRUE)
    IN  IF success
        THEN IF close THEN MarkCloseSent(sent) ELSE sent
        ELSE IF p.r.terminal THEN down
        ELSE IF close THEN With(unsure, "close_uncertain", TRUE) ELSE unsure

\* td_send returned, or threw before or after it took effect: endSend().
EndSend(s, success) ==
    LET c == sender[s].client IN
    /\ sender[s] # Idle
    /\ success => sender[s].delivered
    /\ success \/ MayThrow
    /\ IF Live(c) /\ rec[c].active # 0
       THEN /\ Commit(c, RetireIfReady(RefreshWork(
                           EndSendLocal(At(c), sender[s].close, success), failed)))
            /\ UNCHANGED <<phase, invariantBroken>>
       ELSE /\ invariantBroken' = TRUE
            /\ phase' = "Error"
            /\ UNCHANGED <<rec, stats>>
    /\ sender' = [sender EXCEPT ![s] = Idle]
    /\ UNCHANGED <<failed, worker, owner, engineFailed, td>>

\* observeShutdownResponse(): the owner, which has no send of this client in
\* progress, reads an error answer to one of its shutdown requests.  When it
\* was the last unanswered one it calls rejectShutdown().
OwnerSeesRejection(c) ==
    /\ owner[c].state = "open"
    /\ td[c].rejected > 0 /\ owner[c].shutdown > 0
    /\ \A s \in Senders : sender[s].client # c
    /\ td' = [td EXCEPT ![c].rejected = @ - 1]
    /\ owner' = [owner EXCEPT ![c].shutdown = @ - 1]
    /\ IF owner[c].shutdown = 1 /\ ~failed /\ Live(c) /\ ~rec[c].terminal
       THEN Commit(c, RefreshWork(
              With(With(At(c), "close_sent", FALSE), "close_uncertain", FALSE),
              failed))
       ELSE UNCHANGED <<rec, stats>>
    /\ UNCHANGED <<phase, failed, invariantBroken, worker, sender, engineFailed>>

-----------------------------------------------------------------------------
(***************************************************************************)
(* TDLib (external): it may reject a close, and it ends a client, with the *)
(* terminal update last, when it was closed or logged out.  `refused' is a *)
(* history: some close of the client was rejected.                         *)
(***************************************************************************)
TdReject(c) ==
    /\ MayReject
    /\ td[c].actor = "open" /\ td[c].closes > 0
    /\ td' = [td EXCEPT ![c].closes = @ - 1, ![c].rejected = @ + 1,
                        ![c].refused = TRUE]
    /\ UNCHANGED <<rec, stats, phase, failed, invariantBroken, worker, sender,
                   owner, engineFailed>>

TdTerminate(c) ==
    /\ td[c].actor = "open"
    /\ td' = [td EXCEPT ![c].actor = "terminating", ![c].closes = 0]
    /\ UNCHANGED <<rec, stats, phase, failed, invariantBroken, worker, sender,
                   owner, engineFailed>>

\* td_receive hands out an item of client c.
TdDeliver(c, terminal) ==
    /\ td[c].actor # "none"
    /\ terminal => td[c].actor = "terminating"
    /\ td' = [td EXCEPT ![c].actor = IF terminal THEN "closed" ELSE @]

-----------------------------------------------------------------------------
(***************************************************************************)
(* The receiver worker.                                                    *)
(***************************************************************************)

\* The record's part of observe().
ObserveLocal(p, terminal) ==
    LET seen == Materialize(p)
        ended == IF terminal /\ ~seen.r.terminal
                 THEN [r |-> [seen.r EXCEPT !.terminal = TRUE],
                       n |-> Add(Add(seen.n, "remaining", -1),
                                 "terminal_records", 1)]
                 ELSE seen
        sure == IF terminal \/ ~ended.r.close_uncertain
                THEN SetUncertain(ended, FALSE) ELSE ended
    IN  RefreshWork(sure, failed)

\* observe() of an identity in history_: a retired one is only counted late.
Observe(c, terminal) ==
    IF Live(c) THEN Commit(c, ObserveLocal(At(c), terminal))
    ELSE UNCHANGED <<rec, stats>>

\* JsonSource::receive: take one item and observe it before it is published.
WorkerReceive(c, terminal) ==
    /\ worker.pc = "receive"
    /\ TdDeliver(c, terminal)
    /\ Observe(c, terminal)
    /\ worker' = [worker EXCEPT !.pc = IF terminal THEN "ack" ELSE "receive",
                                !.client = IF terminal THEN c ELSE NoClient]
    /\ UNCHANGED <<phase, failed, invariantBroken, sender, owner, engineFailed>>

\* terminalPublished(): acknowledgeTerminal() once the item is in its mailbox.
WorkerAck ==
    LET c == worker.client IN
    /\ worker.pc = "ack"
    /\ IF Live(c) THEN NotifyAndRetire(c) ELSE UNCHANGED <<rec, stats>>
    /\ worker' = [worker EXCEPT !.pc = "receive", !.client = NoClient]
    /\ UNCHANGED <<phase, failed, invariantBroken, sender, owner, engineFailed, td>>

\* Parsing, routing or memory failure, before or after the publication:
\* Runtime::fail.
WorkerFail ==
    /\ worker.pc \in {"receive", "ack"}
    /\ engineFailed' = TRUE
    /\ worker' = [worker EXCEPT !.pc = "failed", !.client = NoClient]
    /\ UNCHANGED <<rec, stats, phase, failed, invariantBroken, sender, owner, td>>

\* drain() ends: the worker leaves cleanupAfterFailure.
DrainEnd(p) ==
    /\ phase' = p
    /\ worker' = [worker EXCEPT !.pc = "done", !.client = NoClient, !.work = "None"]

DrainBegin ==
    /\ worker.pc = "failed"
    /\ IF invariantBroken
       THEN DrainEnd("Error") /\ UNCHANGED failed
       ELSE failed' = TRUE /\ phase' = "Running" /\ Goto("wait")
    /\ UNCHANGED <<rec, stats, invariantBroken, sender, owner, engineFailed, td>>

\* How many records the refresh of every record links to, less unlinks from,
\* one of the two lists.
RefreshDelta(w) ==
    LET after(c) == IF Live(c) THEN Desired(rec[c], failed) ELSE rec[c].work
    IN  Cardinality({c \in Clients : rec[c].work # w /\ after(c) = w})
          - Cardinality({c \in Clients : rec[c].work = w /\ after(c) # w})

\* Mutants: the drain does not wait for admitted sends, or does not visit the
\* records that were queued under the rules of a working receiver.
DrainStart_NoWait ==
    /\ worker.pc = "wait"
    /\ rec' = [c \in Clients |->
                 IF Live(c) THEN [rec[c] EXCEPT !.work = Desired(rec[c], failed)]
                 ELSE rec[c]]
    /\ stats' = Add(Add(stats, "notification_work", RefreshDelta("Notify")),
                    "close_work", RefreshDelta("Close"))
    /\ Goto("pick")
    /\ UNCHANGED <<phase, failed, invariantBroken, sender, owner, engineFailed, td>>

DrainStart_NoVisit ==
    /\ worker.pc = "wait"
    /\ invariantBroken \/ stats.active_sends = 0
    /\ IF invariantBroken THEN DrainEnd("Error") ELSE Goto("pick") /\ UNCHANGED phase
    /\ UNCHANGED <<rec, stats, failed, invariantBroken, sender, owner, engineFailed, td>>

\* The last admitted send has returned: visit every live record once.
DrainStart ==
    /\ worker.pc = "wait"
    /\ invariantBroken \/ stats.active_sends = 0
    /\ IF invariantBroken
       THEN DrainEnd("Error") /\ UNCHANGED <<rec, stats>>
       ELSE /\ rec' = [c \in Clients |->
                         IF Live(c) THEN [rec[c] EXCEPT !.work = Desired(rec[c], failed)]
                         ELSE rec[c]]
            /\ stats' = Add(Add(stats, "notification_work", RefreshDelta("Notify")),
                            "close_work", RefreshDelta("Close"))
            /\ Goto("pick")
            /\ UNCHANGED phase
    /\ UNCHANGED <<failed, invariantBroken, sender, owner, engineFailed, td>>

Queued(w) == {c \in Clients : rec[c].work = w}

NothingLeft ==
    /\ Queued("Notify") = {} /\ Queued("Close") = {}
    /\ stats.remaining = 0 /\ stats.uncertain = 0 /\ stats.reserved = 0

DrainQuiesce ==
    /\ worker.pc = "pick"
    /\ invariantBroken \/ NothingLeft
    /\ DrainEnd(IF invariantBroken THEN "Error" ELSE "Quiescent")
    /\ UNCHANGED <<rec, stats, failed, invariantBroken, sender, owner,
                   engineFailed, td>>

DrainExpire ==
    /\ MayExpire
    /\ ~invariantBroken
    /\ \/ worker.pc = "wait" /\ stats.active_sends # 0
       \/ worker.pc = "pick" /\ ~NothingLeft
    /\ DrainEnd("Deadline")
    /\ UNCHANGED <<rec, stats, failed, invariantBroken, sender, owner,
                   engineFailed, td>>

\* Take a notification before any close, unlink it and pin the record.
DrainPick(c) ==
    /\ worker.pc = "pick"
    /\ ~invariantBroken /\ ~NothingLeft
    /\ c \in IF Queued("Notify") # {} THEN Queued("Notify") ELSE Queued("Close")
    /\ Commit(c, With(Unlink(At(c)), "busy", TRUE))
    /\ worker' = [pc |-> "work", client |-> c, work |-> rec[c].work]
    /\ UNCHANGED <<phase, failed, invariantBroken, sender, owner, engineFailed, td>>

\* Nothing queued, something remains: receive from TDLib.
DrainPoll ==
    /\ worker.pc = "pick"
    /\ ~invariantBroken /\ ~NothingLeft
    /\ Queued("Notify") = {} /\ Queued("Close") = {}
    /\ Goto("poll")
    /\ UNCHANGED <<rec, stats, phase, failed, invariantBroken, sender, owner,
                   engineFailed, td>>

DrainObserve(c, terminal) ==
    /\ worker.pc = "poll"
    /\ TdDeliver(c, terminal)
    /\ Observe(c, terminal)
    /\ Goto("pick")
    /\ UNCHANGED <<phase, failed, invariantBroken, sender, owner, engineFailed>>

\* The receive timed out.
DrainEmpty ==
    /\ worker.pc = "poll"
    /\ Goto("pick")
    /\ UNCHANGED <<rec, stats, phase, failed, invariantBroken, sender, owner,
                   engineFailed, td>>

\* The receive or observe threw: drain() reports Error.
DrainReceiveThrows ==
    /\ MayThrow
    /\ worker.pc = "poll"
    /\ DrainEnd("Error")
    /\ UNCHANGED <<rec, stats, failed, invariantBroken, sender, owner,
                   engineFailed, td>>

\* performWork()'s unlocked call: transport.close or transport.terminal.
DrainEffect ==
    /\ worker.pc = "work"
    /\ IF worker.work = "Close" THEN TdAccept(worker.client, TRUE) ELSE UNCHANGED td
    /\ Goto("finish")
    /\ UNCHANGED <<rec, stats, phase, failed, invariantBroken, sender, owner,
                   engineFailed>>

\* performWork() after the call returned.
DrainFinish ==
    LET c == worker.client
        p == IF worker.work = "Close" THEN MarkCloseSent(At(c)) ELSE With(At(c), "notified", TRUE)
    IN
    /\ worker.pc = "finish"
    /\ Commit(c, RetireIfReady(RefreshWork(With(p, "busy", FALSE), failed)))
    /\ worker' = [pc |-> "pick", client |-> NoClient, work |-> "None"]
    /\ UNCHANGED <<phase, failed, invariantBroken, sender, owner, engineFailed, td>>

\* performWork() when the call threw, before or after it took effect.
DrainThrow ==
    LET c == worker.client
        p == With(At(c), "busy", FALSE)
        unsure == SetUncertain(p, TRUE)
    IN
    /\ MayThrow
    /\ worker.pc \in {"work", "finish"}
    /\ Commit(c, RetireIfReady(RefreshWork(
         IF worker.work = "Close" /\ ~p.r.terminal
         THEN With(unsure, "close_uncertain", TRUE)
         ELSE p, failed)))
    /\ DrainEnd("Error")
    /\ UNCHANGED <<failed, invariantBroken, sender, owner, engineFailed, td>>

-----------------------------------------------------------------------------
OwnerStep ==
    \/ \E c \in Clients : \/ RegisterClient(c) \/ PublishClient(c)
                          \/ RetireUnused(c) \/ RetireReserved(c)
                          \/ OwnerSeesRejection(c)
    \/ \E s \in Senders, c \in Clients, close \in BOOLEAN : BeginSend(s, c, close)

SendStep(s) == TdSend(s) \/ \E success \in BOOLEAN : EndSend(s, success)

TdStep == \E c \in Clients : TdReject(c) \/ TdTerminate(c)

DrainStep ==
    \/ DrainBegin \/ DrainStart \/ DrainQuiesce
    \/ \E c \in Clients : DrainPick(c)
    \/ DrainPoll \/ DrainEmpty \/ DrainEffect \/ DrainFinish \/ DrainThrow
    \/ DrainReceiveThrows
    \/ \E c \in Clients, terminal \in BOOLEAN : DrainObserve(c, terminal)

WorkerStep ==
    \/ \E c \in Clients, terminal \in BOOLEAN : WorkerReceive(c, terminal)
    \/ WorkerAck \/ WorkerFail

Next == \/ OwnerStep \/ TdStep \/ WorkerStep \/ DrainStep \/ DrainExpire
        \/ \E s \in Senders : SendStep(s)

Spec == Init /\ [][Next]_vars

-----------------------------------------------------------------------------
(***************************************************************************)
(* Properties.                                                             *)
(***************************************************************************)

\* The handles the threads keep across an unlocked section name a client.
Handles ==
    /\ worker.pc \in {"ack", "work", "finish"} => worker.client \in Clients
    /\ \A s \in Senders : sender[s].client = NoClient => sender[s] = Idle
    /\ worker.pc \in {"wait", "pick", "poll", "work", "finish"} => failed
    /\ failed \/ worker.pc = "failed" => engineFailed
    /\ \A c \in Clients : owner[c].state = "none" => rec[c].state = "unknown"

\* What every record satisfies between critical sections; the proofs need it.
WellFormed(r) ==
    /\ r \in Record
    /\ r.state # "live" => r = Blank(r.state)
    /\ r.terminal => r.materialized
    /\ r.uncertain => ~r.terminal
    /\ r.busy => r.work = "None"

\* Every counter equals the number of records it stands for.  The drain
\* decides by the counters alone that TDLib is quiescent, through every mix
\* of success, failure, retirement and terminal update.
RecordAccounting ==
    /\ stats.records = Cardinality({c \in Clients : Live(c)})
    /\ stats.reserved = Cardinality({c \in Clients : Live(c) /\ ~rec[c].materialized})
    /\ stats.remaining =
         Cardinality({c \in Clients : rec[c].materialized /\ ~rec[c].terminal})
    /\ stats.uncertain = Cardinality({c \in Clients : rec[c].uncertain})
    /\ stats.terminal_records = Cardinality({c \in Clients : rec[c].terminal})
    /\ stats.notification_work = Cardinality(Queued("Notify"))
    /\ stats.close_work = Cardinality(Queued("Close"))

Accounting ==
    /\ RecordAccounting
    /\ stats.active_sends = Cardinality({s \in Senders : sender[s] # Idle})

\* A send in flight pins its record, so endSend() never finds it missing and
\* never declares the accounting broken.
SendsPinRecords ==
    /\ ~invariantBroken
    /\ \A c \in Clients :
         rec[c].active = Cardinality({s \in Senders : sender[s].client = c})

\* performWork() dereferences the record after an unlocked call: the record it
\* works on stays live, pinned and out of both lists until it is done.
BusyPinned ==
    \A c \in Clients :
      /\ rec[c].busy <=> worker.pc \in {"work", "finish"} /\ worker.client = c
      /\ rec[c].busy => Live(c) /\ rec[c].work = "None"

\* A record is never erased under a thread that will come back to it: neither
\* endSend() nor performWork() finds its record gone.
Pinned == SendsPinRecords /\ BusyPinned

\* What the drain decides by, and what every thread comes back to, is right.
LedgerSound == TypeOK /\ Accounting /\ Pinned

\* A close that TDLib may still act on is never followed by the automatic
\* close of the drain ("An uncertain send must not trigger an automatic
\* duplicate shutdown").
NoDuplicateClose ==
    worker.pc = "work" /\ worker.work = "Close" => td[worker.client].closes = 0

\* A drain that reports Quiescent left no TDLib client running, and none can
\* start afterwards: "process teardown is proven safe".
QuiescentMeansSafe ==
    phase = "Quiescent" =>
      /\ \A c \in Clients : td[c].actor \in {"none", "closed"}
      /\ \A s \in Senders : sender[s] = Idle

\* An identity leaves the ledger, or is announced terminal by the drain, only
\* when TDLib has no client under it.
RetiredIsDead ==
    \A c \in Clients :
      \/ rec[c].state = "retired"
      \/ worker.pc \in {"work", "finish"} /\ worker.client = c /\ worker.work = "Notify"
      => td[c].actor \in {"none", "closed"}

\* What the module says of one client, and of all of them, is over, is over in
\* TDLib too.
Retirement == RetiredIsDead /\ QuiescentMeansSafe

\* Once the drain has passed its wait, no owner's request reaches TDLib: the
\* worker alone decides which clients are closed.
DrainExcludesSends ==
    worker.pc \in {"pick", "poll", "work", "finish"} =>
      \A s \in Senders : sender[s] = Idle

\* The drain never waits for an update nobody asked for: while it polls, every
\* client left in the ledger holds a close TDLib has accepted or already acted
\* on, unless its state is in doubt or TDLib refused its close.
WaitJustified ==
    worker.pc = "poll" =>
      \A c \in Clients : Live(c) /\ ~rec[c].terminal =>
        \/ td[c].closes > 0 \/ td[c].actor \in {"terminating", "closed"}
        \/ rec[c].uncertain \/ rec[c].close_uncertain
        \/ td[c].refused
=============================================================================
