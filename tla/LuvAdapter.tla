----------------------------- MODULE LuvAdapter -----------------------------
(***************************************************************************)
(* The luv adapter of tdlua_eventloop/luv.lua around the driver: a poll on *)
(* the owner's descriptor and a one-shot timer are all that starts a turn, *)
(* and every result of a turn arms the timer anew.  Operations on the      *)
(* driver, from its callbacks, from on_stall() or between turns, arm it    *)
(* through the hook on_kick.                                               *)
(*                                                                         *)
(* The descriptor is level-triggered, as Doorbell shows, until its         *)
(* transport fails; from then on only the timer is left.                   *)
(***************************************************************************)
EXTENDS EventLoopDriver

VARIABLES
    adapter,   \* "open", in on_stall() ("notice"), or "stopped"
    timer,     \* "off", "soon", or armed for the nearest deadline
    timed,     \* clients with waiters whose deadline is still to come
    reliable,  \* the transport of the descriptor has not failed
    missed     \* history: it failed while the host slept without a timeout

luv == <<adapter, timer, timed, reliable, missed>>
luvVars == <<vars, luv>>

LuvTypeOK ==
    /\ TypeOK
    /\ adapter \in {"open", "notice", "stopped"}
    /\ timer \in {"off", "soon", "deadline"}
    /\ timed \subseteq Clients
    /\ reliable \in BOOLEAN /\ missed \in BOOLEAN

\* The initial check is left to the loop.
LuvInit ==
    /\ Init
    /\ adapter = "open" /\ timer = "soon" /\ timed = {}
    /\ reliable = TRUE /\ missed = FALSE

-----------------------------------------------------------------------------
(***************************************************************************)
(* Turns.                                                                  *)
(***************************************************************************)

Armed_ForDeadlines ==
    CASE expired # {} -> "soon" [] expired = {} /\ timed # {} -> "deadline" [] OTHER -> "off"

\* _arm() of a "sleep": an unreliable transport is polled at a bounded rate, a
\* deadline arms the timer, and otherwise it is stopped, whoever armed it.
Armed ==
    CASE ~reliable \/ expired # {} -> "soon"
      [] reliable /\ expired = {} /\ timed # {} -> "deadline"
      [] OTHER -> "off"

\* _tick() after driver.tick() returned.
Continue ==
    LET ends == result'.state \in {"closed", "error"} \/ result'.fatal
    IN  IF ends \/ adapter = "stopped"
        THEN adapter' = "stopped" /\ timer' = "off"
        ELSE /\ adapter' = IF result'.state = "stalled" THEN "notice" ELSE adapter
             /\ timer' = CASE result'.state = "again" -> "soon"
                           [] result'.state = "sleep" -> Armed
                           [] OTHER -> timer

\* Nothing else runs while _finish() stops the driver.
Finishing == adapter = "stopped" /\ ~d.stopped

StartsTurn ==
    /\ StartTurn
    /\ IF pc' = "idle" THEN Continue ELSE UNCHANGED <<adapter, timer>>

\* The timer's callback; it has fired and is no longer active.
TimerFires ==
    /\ adapter = "open"
    /\ timer = "soon" \/ (timer = "deadline" /\ expired # {})
    /\ StartTurn
    /\ IF pc' = "idle" THEN Continue ELSE adapter' = adapter /\ timer' = "off"
    /\ UNCHANGED <<timed, reliable, missed>>

\* The poll's callback, for work or for nothing.
PollFires ==
    /\ adapter = "open" /\ reliable
    /\ StartsTurn
    /\ UNCHANGED <<timed, reliable, missed>>

\* ... or with an error: the adapter fails, and stops the driver.
PollFails ==
    /\ "raise" \in Happens /\ adapter = "open" /\ pc = "idle"
    /\ adapter' = "stopped" /\ timer' = "off"
    /\ UNCHANGED <<vars, timed, reliable, missed>>

TurnGoesOn ==
    /\ TurnStep
    /\ IF pc' = "idle" THEN Continue ELSE UNCHANGED <<adapter, timer>>
    /\ UNCHANGED <<timed, reliable, missed>>

FinishDriver ==
    /\ Finishing
    /\ d' = Stopped(d)
    /\ UNCHANGED <<turn, world, history, luv>>

\* on_stall() returned: the turn retries after a delay.
NoticeGiven ==
    /\ adapter = "notice"
    /\ adapter' = "open" /\ timer' = "soon"
    /\ UNCHANGED <<vars, timed, reliable, missed>>

-----------------------------------------------------------------------------
(***************************************************************************)
(* Operations of the application.                                          *)
(***************************************************************************)
Hooked_Ignored == adapter' = adapter /\ timer' = timer

\* The hook arms the timer for now.
Hooked == adapter' = adapter /\ timer' = IF adapter = "stopped" THEN timer ELSE "soon"

\* The timer cannot be started: the adapter fails, and stops the driver.
HookFails == "raise" \in Happens /\ adapter' = "stopped" /\ timer' = "off"

Operates ==
    /\ ~Finishing
    /\ \/ \E c \in Clients : Add(c) /\ Hooked
       \/ \E c \in Clients : AddFails(c) /\ d'.stopped /\ HookFails
       \/ \E c \in Clients :
            RemoveClient(c) /\ IF d'.stopped THEN Hooked ELSE UNCHANGED <<adapter, timer>>
       \/ Stop /\ (Hooked \/ HookFails)
       \/ Kick /\ Hooked
       \/ Progress /\ UNCHANGED <<adapter, timer>>
    /\ UNCHANGED <<timed, reliable, missed>>

\* adapter:stop()
AdapterStops ==
    /\ adapter # "stopped" /\ MayCall("stop")
    /\ d' = Stopped(d)
    /\ adapter' = "stopped" /\ timer' = "off"
    /\ UNCHANGED <<turn, world, history, timed, reliable, missed>>

\* A request with a timeout, or a wait: its deadline may be the nearest.  One
\* between turns is followed by kick(), as the descriptor does not ring for it.
WaitsInTurn(c) ==
    /\ pc \in {"receive", "deliver"} /\ "expire" \in Happens /\ c \notin timed
    /\ timed' = timed \cup {c}
    /\ UNCHANGED <<vars, adapter, timer, reliable, missed>>

WaitsBetween(c) ==
    /\ ~Finishing /\ pc = "idle" /\ "expire" \in Happens /\ c \notin timed
    /\ Kick /\ Hooked
    /\ timed' = timed \cup {c}
    /\ UNCHANGED <<reliable, missed>>

-----------------------------------------------------------------------------
(***************************************************************************)
(* The world.                                                              *)
(***************************************************************************)
DeadlinePasses(c) ==
    /\ c \in timed /\ Expire(c)
    /\ timed' = timed \ {c}
    /\ UNCHANGED <<adapter, timer, reliable, missed>>

TransportFails ==
    /\ "break" \in Happens /\ reliable
    /\ reliable' = FALSE
    /\ missed' = (pc = "idle" /\ adapter = "open" /\ timer # "soon")
    /\ UNCHANGED <<vars, adapter, timer, timed>>

Elsewhere ==
    /\ \/ \E c \in Clients : Arrive(c) \/ Close(c)
       \/ Foreign \/ OwnerLost
    /\ UNCHANGED luv

LuvNext ==
    \/ TimerFires \/ PollFires \/ PollFails \/ TurnGoesOn \/ FinishDriver \/ NoticeGiven
    \/ Operates \/ AdapterStops
    \/ \E c \in Clients : WaitsInTurn(c) \/ WaitsBetween(c) \/ DeadlinePasses(c)
    \/ TransportFails \/ Elsewhere

LuvSpec == LuvInit /\ [][LuvNext]_luvVars

\* The loop runs what is due: an expired timer, a readable descriptor, and the
\* turn it has begun.
LuvFairness ==
    /\ WF_luvVars(TimerFires \/ (PollFires /\ Work))
    /\ WF_luvVars(TurnGoesOn) /\ WF_luvVars(FinishDriver) /\ WF_luvVars(NoticeGiven)

-----------------------------------------------------------------------------
(***************************************************************************)
(* Properties.  A transport that fails while the host sleeps without a     *)
(* timeout wakes it no more, and is exempted by missed.                    *)
(***************************************************************************)

\* A host that sleeps without a timeout misses nothing: no stop, kick or deadline
\* is pending, and the descriptor is there to wake it.
SleepsSafely ==
    /\ LuvTypeOK
    /\ pc = "idle" /\ adapter = "open" /\ timer = "off" =>
         /\ ~d.stopped /\ ~d.kicked
         /\ timed = {} /\ expired = {}
         /\ reliable \/ missed

\* Round-robin: an update of a registered client is received, or the client is
\* gone, however busy the other clients are and whatever armed or stopped the
\* timer; a terminal client is removed, though receive(0) returns nothing; and a
\* waiter whose deadline passes is resumed, though the descriptor is silent.
Served ==
    \A c \in Clients :
        /\ backlog[c] > 0 /\ Registered(c) ~> backlog[c] = 0 \/ ~Registered(c) \/ missed
        /\ c \in closed /\ Registered(c) ~> ~Registered(c) \/ missed
        /\ c \in expired /\ Registered(c) ~> c \notin expired \/ ~Registered(c) \/ missed

StallReached ==
    foreign ~> ~foreign \/ d.stallReported \/ d.stopped \/ updates > 0 \/ missed

Settled ==
    /\ UNCHANGED {d.clients[i].client : i \in DOMAIN d.clients}
    /\ d'.kicked => d.kicked
    /\ d'.roundProgress => d.roundProgress \/ updates' > updates

\* Work that nothing here consumes is reported as a stall once the registrations
\* no longer change and nobody kicks or calls progress(), however small the
\* budget, unless updates are delivered.
StallReachedAtRest == <>[][Settled]_vars => StallReached

\* However the driver stops, the adapter retires: its handles are closed and the
\* host is told.
Retires == d.stopped ~> adapter = "stopped"
=============================================================================
