---------------------------- MODULE MCScheduler ----------------------------
(***************************************************************************)
(* Small instances of Scheduler, one of which is chosen at the start:      *)
(* requests and their waiters, updates with their handlers, or receive()   *)
(* in callbacks.  Bounds that let all of it happen in one behaviour are    *)
(* out of reach, so each instance leaves out some of what Lua may do.      *)
(***************************************************************************)
EXTENDS Scheduler

VARIABLE instance

\* "requests": two Tasks or Futures.  "events": two updates, a request, and
\* coroutines that Lua resumes.  "nested": two updates, a request, and callbacks
\* that call receive().  "replaced": two updates, a request, and handlers that replace
\* each other.
Asked == [requests |-> {"Future", "Task"},
          events |-> {"Future", "Raw", "LegacyAwait", "LegacyRequest"},
          nested |-> {"Future", "Raw", "LegacyAwait"},
          replaced |-> {"Future"}]

WithinBounds ==
    /\ \A x \in States : core'.st[x].kind \in Asked[instance] \cup {"none", "EventTask"}
    /\ IF instance = "requests" THEN core'.event = core.event ELSE core'.next <= 2
    /\ core'.handlers > 1 => instance = "replaced"

\* Lua calls receive() inside a tick(), or resumes a coroutine that waits on tdlua.
Reenters ==
    /\ runsLua /\ Len(stack') > Len(stack) /\ stack'[Len(stack')] = TickFrame
    /\ \E i \in DOMAIN stack : stack[i].at \in Ticking
Interferes ==
    \E i \in DOMAIN stack' : /\ stack'[i].at = "lua" /\ stack'[i].by = "lua"
                             /\ stack'[i].thread \in core.waitBindings

MCInit == Init /\ instance \in DOMAIN Asked

MCNext ==
    /\ Next /\ WithinBounds
    /\ Reenters => instance = "nested"
    /\ Interferes => instance = "events"
    /\ UNCHANGED instance

MCSpec == MCInit /\ [][MCNext]_<<instance, vars>>
=============================================================================
