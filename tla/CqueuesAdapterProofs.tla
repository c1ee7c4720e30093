------------------------ MODULE CqueuesAdapterProofs ------------------------
(***************************************************************************)
(* The cqueues adapter loses no kick and tears down in order, whoever owns *)
(* the controller and whichever of its failures may occur.                 *)
(***************************************************************************)
EXTENDS CqueuesAdapter, TLAPS

Running == {"turn", "notice", "parked"}

\* How the fields of the adapter, its coroutine and the loop belong together.
Wellformed ==
  /\ a.hook = ~a.stopped
  /\ a.stopped => driver = "stopped"
  /\ a.released \/ a.notified \/ a.pending_notify \/ a.drain_required => a.stopped
  /\ a.started = (co # "none")
  /\ a.started \/ owns
  /\ a.loop_running = (co \in Running /\ ~a.released)
  /\ co = "dead" => a.released
  /\ a.retirement_scheduled => co = "dead"
  /\ loop # "none" => a.started
  /\ loop = "drain" => a.stopped
  /\ loop \in {"run", "drain"} => ~a.drain_required
  /\ a.drain_required => a.started

\* A host that waits for on_stop has the coroutine dead, or a drain to do.
PendingJustified ==
  a.pending_notify /\ ~a.notified => co = "dead" \/ a.drain_required \/ loop = "drain"

\* The socketpair of a coroutine that runs is only closed after a failure.
ReleasedJustified == a.released /\ co \in Running => loop = "failed" \/ lost

\* A kick or a stop that comes anywhere in the turn has its byte in the pair.
Signal ==
  co \in Running /\ (owed \/ a.stopped) /\ ~a.released /\ ~lost => a.kick_pending

Inv ==
  /\ TypeOK /\ TeardownFirst
  /\ Wellformed /\ PendingJustified /\ ReleasedJustified /\ Signal

-----------------------------------------------------------------------------
(***************************************************************************)
(* What the parts of retirement do to the fields.                          *)
(***************************************************************************)

\* Releasing the socketpair changes three fields.
LEMMA ReleasedFields ==
  ASSUME NEW x \in Adapter
  PROVE  /\ Released(x) \in Adapter
         /\ Released(x).released /\ ~Released(x).loop_running
         /\ ~Released(x).kick_pending
         /\ Released(x).stopped = x.stopped /\ Released(x).started = x.started
         /\ Released(x).hook = x.hook /\ Released(x).notified = x.notified
         /\ Released(x).pending_notify = x.pending_notify
         /\ Released(x).drain_required = x.drain_required
         /\ Released(x).retirement_scheduled = x.retirement_scheduled
         /\ Released(x).registration_dead = x.registration_dead
         /\ Released(x).error = x.error
  BY DEF Released, Adapter

\* Telling the host changes three fields.
LEMMA NotifiedFields ==
  ASSUME NEW x \in Adapter, NEW c
  PROVE  /\ Notified(x, c) \in Adapter
         /\ Notified(x, c).notified /\ ~Notified(x, c).pending_notify
         /\ c \in {"none", "dead"} => Notified(x, c).registration_dead = "true"
         /\ c \notin {"none", "dead"} => Notified(x, c).registration_dead = "false"
         /\ Notified(x, c).stopped = x.stopped /\ Notified(x, c).started = x.started
         /\ Notified(x, c).hook = x.hook /\ Notified(x, c).released = x.released
         /\ Notified(x, c).kick_pending = x.kick_pending
         /\ Notified(x, c).loop_running = x.loop_running
         /\ Notified(x, c).drain_required = x.drain_required
         /\ Notified(x, c).retirement_scheduled = x.retirement_scheduled
         /\ Notified(x, c).error = x.error
  BY DEF Notified, Adapter

\* A signal writes the byte or fails, and changes nothing else.
LEMMA SignalledFields ==
  ASSUME NEW x \in Adapter, NEW y \in Signalled(x)
  PROVE  /\ y \in Adapter
         /\ y.stopped = x.stopped /\ y.hook = x.hook
         /\ y.started = x.started /\ y.released = x.released
         /\ y.notified = x.notified /\ y.pending_notify = x.pending_notify
         /\ y.loop_running = x.loop_running /\ y.drain_required = x.drain_required
         /\ y.retirement_scheduled = x.retirement_scheduled
         /\ y.registration_dead = x.registration_dead
<1>1. y = x \/ y = [x EXCEPT !.kick_pending = TRUE]
  BY Zenon DEF Signalled
<1>2. CASE y = x
  BY <1>2, Zenon
<1>3. CASE y = [x EXCEPT !.kick_pending = TRUE]
  BY <1>3 DEF Adapter
<1> QED
  BY <1>1, <1>2, <1>3

\* The logical stop.
LEMMA HaltedFields ==
  ASSUME NEW x \in Adapter, NEW reason, NEW y \in Halted(x, reason)
  PROVE  /\ y \in Adapter
         /\ y.stopped /\ ~y.hook
         /\ y.started = x.started /\ y.released = x.released
         /\ y.notified = x.notified /\ y.pending_notify = x.pending_notify
         /\ y.loop_running = x.loop_running /\ y.drain_required = x.drain_required
         /\ y.retirement_scheduled = x.retirement_scheduled
         /\ y.registration_dead = x.registration_dead
<1> DEFINE z == [x EXCEPT !.stopped = TRUE, !.hook = FALSE,
                          !.error = @ \/ reason = "error"]
<1>1. /\ z \in Adapter
      /\ z.stopped /\ ~z.hook
      /\ z.started = x.started /\ z.released = x.released
      /\ z.notified = x.notified /\ z.pending_notify = x.pending_notify
      /\ z.loop_running = x.loop_running /\ z.drain_required = x.drain_required
      /\ z.retirement_scheduled = x.retirement_scheduled
      /\ z.registration_dead = x.registration_dead
  BY DEF Adapter
<1>2. y \in Signalled(z)
  BY DEF Halted
<1> HIDE DEF z
<1> QED
  BY <1>1, <1>2, SignalledFields

\* What _finish() makes of the adapter x: nothing if it is stopped already; else
\* the logical stop, and what the one who steps the controller allows beyond it.
Ended(x, y, hard, running) ==
  /\ y \in Adapter
  /\ x.stopped => y = x
  /\ ~x.stopped =>
       /\ y.stopped /\ ~y.hook /\ y.started = x.started
       /\ y.retirement_scheduled = x.retirement_scheduled
       /\ \/ /\ ~x.started
             /\ y.released /\ ~y.loop_running /\ y.notified
             /\ y.drain_required = x.drain_required
             /\ ~y.pending_notify /\ y.registration_dead = "true"
          \/ /\ x.started
             /\ y.notified = x.notified
             /\ y.registration_dead = x.registration_dead
             /\ \/ /\ y.released = x.released
                   /\ y.loop_running = x.loop_running
                   /\ \/ /\ y.pending_notify = x.pending_notify
                         /\ y.drain_required = x.drain_required
                      \/ /\ owns /\ ~running /\ y.pending_notify
                         /\ y.drain_required = (x.drain_required \/ ~hard)
                \/ /\ ~owns /\ ~x.loop_running
                   /\ y.released /\ ~y.loop_running
                   /\ y.pending_notify = x.pending_notify
                   /\ y.drain_required = x.drain_required

\* _finish() does so.
LEMMA FinishedFields ==
  ASSUME NEW x \in Adapter, owns \in BOOLEAN, NEW reason,
         NEW hard, NEW running,
         NEW y \in Finished(x, reason, hard, running)
  PROVE  Ended(x, y, hard, running)
<1> USE DEF Ended
<1>1. CASE x.stopped
  BY <1>1, Zenon DEF Finished
<1>2. CASE ~x.stopped /\ ~x.started
  <2>1. PICK s \in Halted(x, reason) : y = Notified(Released(s), "none")
    BY <1>2, x \in Adapter DEF Finished, Adapter
  <2>2. PICK r : r = Released(s)
    OBVIOUS
  <2>3. /\ s \in Adapter /\ s.stopped /\ ~s.hook /\ s.started = x.started
        /\ s.retirement_scheduled = x.retirement_scheduled
        /\ s.drain_required = x.drain_required
    BY HaltedFields
  <2>4. /\ r \in Adapter /\ r.stopped = s.stopped /\ r.hook = s.hook
        /\ r.started = s.started /\ r.released /\ ~r.loop_running
        /\ r.retirement_scheduled = s.retirement_scheduled
        /\ r.drain_required = s.drain_required
    BY <2>2, <2>3, ReleasedFields
  <2> QED
    <3>1. /\ y \in Adapter /\ y.stopped = r.stopped /\ y.hook = r.hook
          /\ y.notified /\ ~y.pending_notify /\ y.registration_dead = "true"
          /\ y.started = r.started /\ y.released = r.released
          /\ y.loop_running = r.loop_running
          /\ y.retirement_scheduled = r.retirement_scheduled
          /\ y.drain_required = r.drain_required
      <4>1. y = Notified(r, "none")
        BY <2>1, <2>2
      <4>2. r \in Adapter
        BY <2>4
      <4> QED
        BY <4>1, <4>2 DEF Notified, Adapter
    <3> QED
      BY <1>2, <2>3, <2>4, <3>1
<1>3. CASE ~x.stopped /\ x.started /\ owns /\ ~running
  <2>1. PICK s \in Halted(x, reason) :
          y = [s EXCEPT !.drain_required = @ \/ ~hard, !.pending_notify = TRUE]
    BY <1>3 DEF Finished
  <2>2. s \in Adapter
    BY HaltedFields, Zenon
  <2>3. /\ y \in Adapter /\ y.pending_notify
        /\ y.drain_required = (s.drain_required \/ ~hard)
        /\ y.stopped = s.stopped /\ y.hook = s.hook /\ y.started = s.started
        /\ y.retirement_scheduled = s.retirement_scheduled
        /\ y.notified = s.notified /\ y.registration_dead = s.registration_dead
        /\ y.released = s.released /\ y.loop_running = s.loop_running
    BY <2>1, <2>2 DEF Adapter
  <2>4. /\ s.stopped /\ ~s.hook
        /\ s.started = x.started /\ s.released = x.released
        /\ s.notified = x.notified /\ s.loop_running = x.loop_running
        /\ s.drain_required = x.drain_required
        /\ s.retirement_scheduled = x.retirement_scheduled
        /\ s.registration_dead = x.registration_dead
    BY HaltedFields
  <2> QED
    BY <1>3, <2>3, <2>4
<1>4. CASE ~x.stopped /\ x.started /\ ~owns /\ ~x.loop_running
  <2>1. PICK s \in Halted(x, reason) : y = Released(s)
    BY <1>4 DEF Finished
  <2>2. s \in Adapter
    BY HaltedFields
  <2> QED
    <3>1. /\ y \in Adapter /\ y.stopped = s.stopped /\ y.hook = s.hook
          /\ y.notified = s.notified /\ y.pending_notify = s.pending_notify
          /\ y.registration_dead = s.registration_dead
          /\ y.started = s.started /\ y.released /\ ~y.loop_running
          /\ y.retirement_scheduled = s.retirement_scheduled
          /\ y.drain_required = s.drain_required
      BY <2>1, <2>2, ReleasedFields
    <3>2. /\ s.stopped /\ ~s.hook /\ s.started = x.started
          /\ s.notified = x.notified /\ s.pending_notify = x.pending_notify
          /\ s.drain_required = x.drain_required
          /\ s.retirement_scheduled = x.retirement_scheduled
          /\ s.registration_dead = x.registration_dead
      BY HaltedFields
    <3> QED
      BY <1>4, <3>1, <3>2
<1>5. CASE ~x.stopped /\ x.started /\ (owns => running) /\ (owns \/ x.loop_running)
  <2>1. y \in Halted(x, reason)
    BY <1>5 DEF Finished
  <2> QED
    BY <1>5, <2>1, HaltedFields
<1> QED
  BY <1>1, <1>2, <1>3, <1>4, <1>5 DEF Adapter

\* A fresh adapter satisfies the inductive invariant.
LEMMA InitInv == Init => Inv
<1> SUFFICES ASSUME Init PROVE Inv
  OBVIOUS
<1>1. TypeOK /\ TeardownFirst
  BY DEF Init, TypeOK, Adapter, TeardownFirst
<1>2. Wellformed
  BY DEF Init, Wellformed, Running
<1>3. PendingJustified /\ ReleasedJustified /\ Signal
  BY DEF Init, PendingJustified, ReleasedJustified, Signal, Running
<1> QED
  BY <1>1, <1>2, <1>3 DEF Inv

\* The end of the adapter from a call of the application, wherever it comes from,
\* preserves the inductive invariant.
LEMMA EndsInv ==
  ASSUME Inv, MayCall, NEW reason, Ends(reason),
         UNCHANGED <<owns, co, loop, ready, owed>>
  PROVE  Inv'
<1> USE DEF TypeOK
<1>1. PICK elsewhere \in Elsewhere :
        /\ \E x \in Finished(a, reason, FALSE, Stepping \/ elsewhere) : Becomes(x)
        /\ misplaced' = (owns /\ a.started /\ ~InTurn /\ (Stepping \/ elsewhere))
  BY DEF Ends
<1>2. elsewhere \in BOOLEAN
  BY <1>1 DEF Elsewhere
<1> DEFINE running == Stepping \/ elsewhere
<1>3. loop \in {"run", "drain"} => running
  BY DEF Stepping
<1>4. PICK x \in Finished(a, reason, FALSE, running) : Becomes(x)
  BY <1>1
<1>5. a \in Adapter /\ owns \in BOOLEAN /\ ~a.stopped
  BY DEF Inv, MayCall
<1> HIDE DEF running
<1>6. Ended(a, x, FALSE, running)
  BY <1>4, <1>5, FinishedFields, Zenon
<1>7. /\ a' = x /\ driver' = "stopped"
      /\ lost' = (lost \/ (x.stopped /\ ~a.stopped /\ ~x.released /\ ~x.kick_pending))
  BY <1>4, <1>5, <1>6 DEF Becomes, Ended
<1>8. misplaced' \in BOOLEAN /\ lost' \in BOOLEAN
  BY <1>1, <1>7
<1> HIDE DEF TypeOK
<1>9. TypeOK'
  BY <1>6, <1>7, <1>8 DEF Ended, Inv, TypeOK
<1>10. TeardownFirst'
  BY <1>5, <1>6, <1>7, <1>9 DEF Ended, Inv, TeardownFirst, Wellformed, TypeOK, Running
<1>11. Wellformed'
  BY <1>3, <1>5, <1>6, <1>7 DEF Ended, Inv, Wellformed, TypeOK, Running, Adapter
<1>12. PendingJustified' /\ ReleasedJustified' /\ Signal'
  BY <1>5, <1>6, <1>7
  DEF Ended, Inv, Wellformed, PendingJustified, ReleasedJustified, Signal, TypeOK, Running
<1> QED
  BY <1>9, <1>10, <1>11, <1>12 DEF Inv

\* The calls of the application preserve the inductive invariant.
LEMMA CallsInv == ASSUME Inv, Calls PROVE Inv'
<1>1. CASE Stop \/ KickRefused \/ KickUnwritable
  BY <1>1, EndsInv DEF Stop, KickRefused, KickUnwritable
<1>2. CASE Kick
  <2> USE <1>2 DEF Kick, MayCall, Inv
  <2>1. a \in Adapter /\ ~a.stopped
    BY DEF TypeOK
  <2>2. /\ a' \in Adapter /\ a'.kick_pending
        /\ a'.stopped = a.stopped /\ a'.hook = a.hook /\ a'.started = a.started
        /\ a'.released = a.released /\ a'.notified = a.notified
        /\ a'.pending_notify = a.pending_notify
        /\ a'.loop_running = a.loop_running /\ a'.drain_required = a.drain_required
        /\ a'.retirement_scheduled = a.retirement_scheduled
        /\ a'.registration_dead = a.registration_dead
    BY <2>1 DEF Adapter
  <2>3. TypeOK'
    BY <2>2 DEF TypeOK
  <2>4. TeardownFirst' /\ PendingJustified' /\ ReleasedJustified' /\ Signal'
    BY <2>1, <2>2, <2>3
    DEF TeardownFirst, Wellformed, PendingJustified, ReleasedJustified, Signal
  <2>5. Wellformed'
    BY <2>1, <2>2 DEF Wellformed
  <2> QED
    BY <2>3, <2>4, <2>5
<1> QED
  BY <1>1, <1>2 DEF Calls

\* The application's loop that begins, and the one that ends, preserve it.
LEMMA HostInv == ASSUME Inv, HostLoops \/ HostLeaves \/ Run PROVE Inv'
<1> USE DEF Inv
<1>1. CASE HostLoops
  <2>1. TypeOK' /\ TeardownFirst'
    BY <1>1 DEF HostLoops, TypeOK, TeardownFirst
  <2>2. Wellformed' /\ PendingJustified' /\ ReleasedJustified' /\ Signal'
    BY <1>1 DEF HostLoops, Wellformed, PendingJustified, ReleasedJustified, Signal
  <2> QED
    BY <2>1, <2>2
<1>2. CASE HostLeaves
  <2>1. TypeOK' /\ TeardownFirst'
    BY <1>2 DEF HostLeaves, TypeOK, TeardownFirst
  <2>2. Wellformed' /\ PendingJustified' /\ ReleasedJustified' /\ Signal'
    BY <1>2 DEF HostLeaves, Wellformed, PendingJustified, ReleasedJustified, Signal
  <2> QED
    BY <2>1, <2>2
<1>3. CASE Run
  <2>1. a \in Adapter /\ ~a.stopped
    BY <1>3 DEF Run, TypeOK
  <2>2. /\ a' \in Adapter /\ a'.started /\ a'.kick_pending = a.kick_pending
        /\ a'.stopped = a.stopped /\ a'.hook = a.hook
        /\ a'.released = a.released /\ a'.notified = a.notified
        /\ a'.pending_notify = a.pending_notify
        /\ a'.loop_running = a.loop_running /\ a'.drain_required = a.drain_required
        /\ a'.retirement_scheduled = a.retirement_scheduled
    BY <1>3, <2>1 DEF Run, Adapter
  <2>3. TypeOK' /\ TeardownFirst'
    BY <1>3, <2>1, <2>2 DEF Run, TypeOK, TeardownFirst, Wellformed
  <2>4. Wellformed' /\ PendingJustified' /\ ReleasedJustified' /\ Signal'
    BY <1>3, <2>1, <2>2
    DEF Run, TypeOK, Wellformed, PendingJustified, ReleasedJustified, Signal, Running
  <2> QED
    BY <2>3, <2>4
<1> QED
  BY <1>1, <1>2, <1>3

\* What the delivery of a pending notice does to the fields.
LEMMA DeliverFields ==
  ASSUME NEW x \in Adapter
  PROVE  LET y == DeliverPending(x)
         IN /\ y \in Adapter
            /\ y.stopped = x.stopped /\ y.hook = x.hook /\ y.started = x.started
            /\ y.released = x.released /\ y.kick_pending = x.kick_pending
            /\ y.loop_running = x.loop_running
            /\ y.drain_required = x.drain_required
            /\ y.retirement_scheduled = x.retirement_scheduled
            /\ y.error = x.error
            /\ \/ y = x /\ (x.pending_notify => x.notified)
               \/ /\ x.pending_notify /\ ~x.notified
                  /\ y.notified /\ ~y.pending_notify
                  /\ co \in {"none", "dead"} => y.registration_dead = "true"
                  /\ co \notin {"none", "dead"} => y.registration_dead = "false"
<1>1. CASE x.pending_notify /\ ~x.notified
  <2>1. DeliverPending(x) = Notified(x, co)
    BY <1>1 DEF DeliverPending
  <2> QED
    BY <1>1, <2>1, NotifiedFields
<1>2. CASE ~(x.pending_notify /\ ~x.notified)
  <2>1. DeliverPending(x) = x
    BY <1>2 DEF DeliverPending
  <2> QED
    BY <1>2, <2>1
<1> QED
  BY <1>1, <1>2

\* A notice that is delivered outside the loop, or as the loop returns, finds the
\* coroutine dead, or its socketpair closed or its byte lost.
LEMMA DeliverInv ==
  ASSUME Inv, Becomes(DeliverPending(a)), loop' = "none", ~a.drain_required,
         loop = "run" \/ loop = "none" \/ (loop = "drain" /\ co = "dead"),
         UNCHANGED <<owns, co, ready, owed, misplaced>>
  PROVE  Inv'
<1> USE DEF Inv
<1>1. PICK y : y = DeliverPending(a)
  OBVIOUS
<1>2. a \in Adapter
  BY DEF TypeOK
<1>3. /\ y \in Adapter
      /\ y.stopped = a.stopped /\ y.hook = a.hook /\ y.started = a.started
      /\ y.released = a.released /\ y.kick_pending = a.kick_pending
      /\ y.loop_running = a.loop_running /\ y.drain_required = a.drain_required
      /\ y.retirement_scheduled = a.retirement_scheduled
      /\ \/ y = a /\ (a.pending_notify => a.notified)
         \/ /\ a.pending_notify /\ ~a.notified
            /\ y.notified /\ ~y.pending_notify
            /\ co \in {"none", "dead"} => y.registration_dead = "true"
            /\ co \notin {"none", "dead"} => y.registration_dead = "false"
  BY <1>1, <1>2, DeliverFields
<1>4. a' = y /\ driver' = driver /\ lost' = lost
  BY <1>1, <1>3 DEF Becomes, Wellformed, TypeOK
<1>5. TypeOK'
  BY <1>3, <1>4 DEF TypeOK
<1>6. a.pending_notify /\ ~a.notified => co = "dead"
  BY DEF PendingJustified
<1>7. TeardownFirst'
  BY <1>3, <1>4, <1>5, <1>6 DEF TeardownFirst, Wellformed
<1>8. Wellformed' /\ PendingJustified'
  BY <1>3, <1>4, <1>6 DEF Wellformed, PendingJustified, Running
<1>9. ReleasedJustified' /\ Signal'
  BY <1>3, <1>4 DEF ReleasedJustified, Signal
<1> QED
  BY <1>5, <1>7, <1>8, <1>9

\* The loop of run() returns: a pending notice is delivered.
LEMMA ReturnsInv == ASSUME Inv, Drain \/ RunReturns PROVE Inv'
<1>1. CASE RunReturns
  <2>1. ~a.drain_required
    BY <1>1 DEF Inv, Wellformed, RunReturns
  <2> QED
    BY <1>1, <2>1, DeliverInv DEF RunReturns
<1>2. CASE Drain /\ ~a.drain_required
  BY <1>2, DeliverInv DEF Drain
<1>3. CASE Drain /\ a.drain_required
  <2> USE DEF Inv
  <2>1. a \in Adapter /\ loop' = "drain"
        /\ UNCHANGED <<owns, co, ready, driver, owed, lost, misplaced>>
    BY <1>3 DEF TypeOK, Drain
  <2>2. /\ a' \in Adapter /\ ~a'.drain_required
        /\ a'.stopped = a.stopped /\ a'.hook = a.hook /\ a'.started = a.started
        /\ a'.released = a.released /\ a'.notified = a.notified
        /\ a'.pending_notify = a.pending_notify
        /\ a'.kick_pending = a.kick_pending
        /\ a'.loop_running = a.loop_running
        /\ a'.retirement_scheduled = a.retirement_scheduled
        /\ a'.registration_dead = a.registration_dead
    BY <1>3, <2>1 DEF Drain, Adapter
  <2>3. a.stopped /\ loop = "none"
    BY <1>3 DEF Drain
  <2>4. TypeOK' /\ TeardownFirst'
    BY <2>1, <2>2, <2>3 DEF TypeOK, TeardownFirst
  <2>5. a.started
    BY <1>3 DEF Wellformed
  <2>6. Wellformed' /\ PendingJustified'
    BY <2>1, <2>2, <2>3, <2>5 DEF Wellformed, PendingJustified
  <2>7. ReleasedJustified' /\ Signal'
    BY <2>1, <2>2, <2>3 DEF ReleasedJustified, Signal
  <2> QED
    BY <2>4, <2>6, <2>7
<1> QED
  BY <1>1, <1>2, <1>3

\* What _abort() does to an adapter that has been started.
LEMMA AbortedFields ==
  ASSUME NEW x \in Adapter, owns \in BOOLEAN, x.started, x.hook = ~x.stopped,
         NEW y \in Aborted(x)
  PROVE  /\ y \in Adapter
         /\ y.stopped /\ ~y.hook /\ y.started /\ y.released /\ ~y.loop_running
         /\ y.notified /\ ~y.kick_pending
         /\ y.retirement_scheduled = x.retirement_scheduled
         /\ x.stopped => y.drain_required = x.drain_required
         /\ \/ x.notified /\ y.registration_dead = x.registration_dead
            \/ co \in {"none", "dead"} /\ y.registration_dead = "true"
            \/ co \notin {"none", "dead"} /\ y.registration_dead = "false"
<1> DEFINE z == [x EXCEPT !.error = TRUE]
<1>1. /\ z \in Adapter /\ z.stopped = x.stopped /\ z.hook = x.hook
      /\ z.started = x.started /\ z.notified = x.notified
      /\ z.retirement_scheduled = x.retirement_scheduled
      /\ z.drain_required = x.drain_required
      /\ z.registration_dead = x.registration_dead
  BY DEF Adapter
<1>2. PICK s \in Finished(z, "error", TRUE, FALSE) :
        y = IF Released(s).notified THEN Released(s) ELSE Notified(Released(s), co)
  BY DEF Aborted
<1> HIDE DEF z
<1>3. Ended(z, s, TRUE, FALSE)
  BY <1>1, <1>2, FinishedFields, Zenon
<1>4. /\ s \in Adapter /\ s.stopped /\ ~s.hook /\ s.started
      /\ s.retirement_scheduled = x.retirement_scheduled
      /\ s.notified = x.notified /\ s.registration_dead = x.registration_dead
      /\ x.stopped => s.drain_required = x.drain_required
  BY <1>1, <1>3 DEF Ended
<1>5. PICK r : r = Released(s)
  OBVIOUS
<1>6. /\ r \in Adapter /\ r.stopped /\ ~r.hook /\ r.started /\ r.released
      /\ ~r.loop_running /\ ~r.kick_pending
      /\ r.retirement_scheduled = x.retirement_scheduled
      /\ r.notified = x.notified /\ r.registration_dead = x.registration_dead
      /\ x.stopped => r.drain_required = x.drain_required
  BY <1>4, <1>5, ReleasedFields
<1>7. CASE r.notified
  BY <1>2, <1>5, <1>6, <1>7
<1>8. CASE ~r.notified
  <2>1. y = Notified(r, co)
    BY <1>2, <1>5, <1>8
  <2> QED
    BY <1>6, <2>1, NotifiedFields
<1> QED
  BY <1>7, <1>8

\* A failed controller: the socketpair is closed and the host is told.
LEMMA FailsInv == ASSUME Inv, LoopFails PROVE Inv'
<1> USE DEF Inv
<1>1. a \in Adapter /\ owns \in BOOLEAN /\ a.hook = ~a.stopped
  BY DEF TypeOK, Wellformed
<1>2. a.started /\ loop' = "failed"
  BY DEF LoopFails, Wellformed, TypeOK, Stepping
<1>3. PICK y \in Aborted(a) : Becomes(y)
  BY DEF LoopFails
<1>4. /\ y \in Adapter
      /\ y.stopped /\ ~y.hook /\ y.started /\ y.released /\ ~y.loop_running
      /\ y.notified /\ ~y.kick_pending
      /\ y.retirement_scheduled = a.retirement_scheduled
      /\ \/ a.notified /\ y.registration_dead = a.registration_dead
         \/ co \in {"none", "dead"} /\ y.registration_dead = "true"
         \/ co \notin {"none", "dead"} /\ y.registration_dead = "false"
  BY <1>1, <1>2, <1>3, AbortedFields
<1>5. a' = y /\ driver' = "stopped" /\ lost' = lost
  BY <1>3, <1>4 DEF Becomes, TypeOK
<1>6. UNCHANGED <<owns, co, ready, owed, misplaced>>
  BY DEF LoopFails
<1>7. TypeOK' /\ TeardownFirst'
  BY <1>2, <1>4, <1>5, <1>6 DEF TypeOK, TeardownFirst
<1>8. Wellformed' /\ PendingJustified' /\ ReleasedJustified' /\ Signal'
  BY <1>2, <1>4, <1>5, <1>6
  DEF Wellformed, PendingJustified, ReleasedJustified, Signal, Adapter
<1> QED
  BY <1>7, <1>8

\* drain() gives a parked coroutine up only if the byte that stops it was lost.
LEMMA DrainReturnsInv == ASSUME Inv, DrainReturns PROVE Inv'
<1> USE DEF Inv
<1>1. CASE co = "dead"
  <2>1. DeliverPending(a).released = a.released
    BY DeliverFields DEF TypeOK
  <2>2. Becomes(DeliverPending(a))
    BY <1>1, <2>1 DEF DrainReturns, Wellformed
  <2> QED
    BY <1>1, <2>2, DeliverInv DEF DrainReturns, Wellformed
<1>2. CASE co = "parked"
  <2>1. /\ a \in Adapter /\ owns \in BOOLEAN /\ a.stopped /\ ~a.hook /\ a.started
        /\ loop = "drain" /\ loop' = "none" /\ ~a.kick_pending
        /\ UNCHANGED <<owns, co, ready, owed, misplaced>>
    BY <1>2 DEF DrainReturns, TypeOK, Wellformed
  <2>2. lost
    BY <1>2, <2>1 DEF ReleasedJustified, Signal, Running
  <2>3. PICK x : x = DeliverPending(a)
    OBVIOUS
  <2>4. /\ x \in Adapter /\ x.stopped /\ ~x.hook /\ x.started
        /\ x.released = a.released /\ x.loop_running = a.loop_running
        /\ x.drain_required = a.drain_required
        /\ x.retirement_scheduled = a.retirement_scheduled
        /\ x.notified => x.registration_dead # "true"
        /\ x.pending_notify => x.notified
    BY <1>2, <2>1, <2>3, DeliverFields DEF TeardownFirst
  <2>5. PICK y : Becomes(y) /\ (y = x \/ y \in Aborted(x))
    BY <2>3 DEF DrainReturns
  <2>6. /\ y \in Adapter /\ y.stopped /\ ~y.hook /\ y.started
        /\ y.drain_required = a.drain_required
        /\ y.retirement_scheduled = a.retirement_scheduled
        /\ y.notified => y.registration_dead # "true"
        /\ y.pending_notify => y.notified
        /\ y.loop_running = ~y.released
    <3>1. CASE y = x
      BY <1>2, <2>4, <3>1 DEF Wellformed, Running
    <3>2. CASE y \in Aborted(x)
      <4>1. /\ y \in Adapter
            /\ y.stopped /\ ~y.hook /\ y.started /\ y.released /\ ~y.loop_running
            /\ y.notified /\ y.drain_required = x.drain_required
            /\ y.retirement_scheduled = x.retirement_scheduled
            /\ \/ x.notified /\ y.registration_dead = x.registration_dead
               \/ co \in {"none", "dead"} /\ y.registration_dead = "true"
               \/ y.registration_dead = "false"
        BY <2>1, <2>4, <3>2, AbortedFields DEF Adapter
      <4> QED
        BY <1>2, <2>4, <4>1 DEF Adapter
    <3> QED
      BY <2>5, <3>1, <3>2
  <2>7. a' = y /\ driver' = "stopped" /\ lost' = lost /\ lost
    BY <2>1, <2>2, <2>5, <2>6 DEF Becomes, TypeOK
  <2>8. TypeOK' /\ TeardownFirst'
    BY <2>1, <2>6, <2>7 DEF TypeOK, TeardownFirst
  <2>9. Wellformed' /\ PendingJustified' /\ ReleasedJustified' /\ Signal'
    BY <1>2, <2>1, <2>6, <2>7
    DEF Wellformed, PendingJustified, ReleasedJustified, Signal, Running, Adapter
  <2> QED
    BY <2>8, <2>9
<1> QED
  BY <1>1, <1>2 DEF DrainReturns

-----------------------------------------------------------------------------
(***************************************************************************)
(* The steps of the coroutine.                                             *)
(***************************************************************************)

\* What the way out of the coroutine does to the fields.
LEMMA ScheduleFields ==
  ASSUME NEW x \in Adapter
  PROVE  LET y == ScheduleRetirement(Released(x))
         IN /\ y \in Adapter
            /\ y.stopped = x.stopped /\ y.hook = x.hook /\ y.started = x.started
            /\ y.released /\ ~y.kick_pending /\ ~y.loop_running
            /\ y.drain_required = x.drain_required
            /\ y.notified = x.notified
            /\ y.registration_dead = x.registration_dead
<1>1. PICK r : r = Released(x)
  OBVIOUS
<1>2. /\ r \in Adapter /\ r.stopped = x.stopped /\ r.hook = x.hook
      /\ r.started = x.started /\ r.released /\ ~r.kick_pending /\ ~r.loop_running
      /\ r.drain_required = x.drain_required /\ r.notified = x.notified
      /\ r.registration_dead = x.registration_dead
  BY <1>1, ReleasedFields
<1>3. PICK y : y = ScheduleRetirement(r)
  OBVIOUS
<1>4. \/ y = r
      \/ y = [r EXCEPT !.pending_notify = TRUE]
      \/ y = [r EXCEPT !.retirement_scheduled = TRUE]
  BY <1>3 DEF ScheduleRetirement
<1>5. /\ y \in Adapter /\ y.stopped = r.stopped /\ y.hook = r.hook
      /\ y.started = r.started /\ y.released = r.released
      /\ y.kick_pending = r.kick_pending /\ y.loop_running = r.loop_running
      /\ y.drain_required = r.drain_required /\ y.notified = r.notified
      /\ y.registration_dead = r.registration_dead
  <2>1. CASE y = r
    BY <1>2, <2>1
  <2>2. CASE y = [r EXCEPT !.pending_notify = TRUE]
    BY <1>2, <2>2 DEF Adapter
  <2>3. CASE y = [r EXCEPT !.retirement_scheduled = TRUE]
    BY <1>2, <2>3 DEF Adapter
  <2> QED
    BY <1>4, <2>1, <2>2, <2>3
<1> QED
  BY <1>1, <1>2, <1>3, <1>5

\* The exit of a stopped adapter, from its fields or from those the stop itself
\* leaves, preserves the inductive invariant.
LEMMA ExitsInv ==
  ASSUME Inv, NEW x \in Adapter, Exits(x), x.stopped, ~x.hook,
         x.notified = a.notified, x.registration_dead = a.registration_dead,
         x.started, Stepping, owed' \in BOOLEAN,
         UNCHANGED <<owns, loop, ready, misplaced>>,
         loop \in {"run", "drain"} => ~x.drain_required
  PROVE  Inv'
<1> USE DEF Inv
<1>1. PICK y : y = ScheduleRetirement(Released(x))
  OBVIOUS
<1>2. /\ y \in Adapter
      /\ y.stopped /\ ~y.hook /\ y.started
      /\ y.released /\ ~y.kick_pending /\ ~y.loop_running
      /\ y.drain_required = x.drain_required
      /\ y.notified = a.notified
      /\ y.registration_dead = a.registration_dead
  BY <1>1, ScheduleFields
<1>3. a' = y /\ driver' = "stopped" /\ lost' = lost /\ co' = "dead"
  BY <1>1, <1>2 DEF Exits, Becomes, TypeOK
<1>4. TypeOK' /\ TeardownFirst'
  BY <1>2, <1>3 DEF TypeOK, TeardownFirst
<1>5. Wellformed'
  BY <1>2, <1>3 DEF Wellformed, Running, Adapter
<1>6. PendingJustified' /\ ReleasedJustified' /\ Signal'
  BY <1>2, <1>3 DEF PendingJustified, ReleasedJustified, Signal, Running
<1> QED
  BY <1>4, <1>5, <1>6

\* The same when the coroutine itself stops the adapter.
LEMMA StopsAndExitsInv ==
  ASSUME Inv, NEW x \in Adapter, ~x.stopped, x.notified = a.notified,
         x.registration_dead = a.registration_dead, x.started, ~a.drain_required,
         x.drain_required = a.drain_required, NEW reason,
         NEW y \in Finished(x, reason, FALSE, TRUE), Exits(y),
         Stepping, owed' \in BOOLEAN, UNCHANGED <<owns, loop, ready, misplaced>>
  PROVE  Inv'
<1>1. owns \in BOOLEAN
  BY DEF Inv, TypeOK
<1>2. Ended(x, y, FALSE, TRUE)
  BY <1>1, FinishedFields, Zenon
<1>3. /\ y \in Adapter /\ y.stopped /\ ~y.hook /\ y.started
      /\ y.notified = a.notified /\ y.registration_dead = a.registration_dead
      /\ ~y.drain_required
  BY <1>2 DEF Ended
<1> QED
  BY <1>3, ExitsInv

\* A turn begins with a clean slate of kicks.
LEMMA TurnBeginsInv ==
  ASSUME Inv, NEW x \in Adapter, TurnBegins(x), ~a.stopped, co # "none",
         x.stopped = a.stopped, x.hook = a.hook, x.started = a.started,
         x.released = a.released, x.notified = a.notified, x.loop_running,
         x.pending_notify = a.pending_notify, x.drain_required = a.drain_required,
         x.retirement_scheduled = a.retirement_scheduled,
         UNCHANGED <<owns, loop, ready, misplaced>>
  PROVE  Inv'
<1> USE DEF Inv
<1>1. a' = x /\ co' = "turn" /\ owed' = FALSE /\ UNCHANGED <<driver, lost>>
  BY DEF TurnBegins
<1>2. TypeOK' /\ TeardownFirst'
  BY <1>1 DEF TypeOK, TeardownFirst, Wellformed
<1>3. Wellformed'
  BY <1>1 DEF Wellformed, Running, Adapter
<1>4. PendingJustified' /\ ReleasedJustified' /\ Signal'
  BY <1>1 DEF Wellformed, PendingJustified, ReleasedJustified, Signal, Running
<1> QED
  BY <1>2, <1>3, <1>4

\* The first turn of the coroutine, or its exit if the adapter is stopped.
LEMMA BeginsInv == ASSUME Inv, Begins PROVE Inv'
<1>1. /\ a \in Adapter /\ co = "attached" /\ Stepping
      /\ UNCHANGED <<owns, loop, ready, misplaced>> /\ a.started
      /\ a.hook = ~a.stopped /\ (loop \in {"run", "drain"} => ~a.drain_required)
  BY DEF Begins, Inv, TypeOK, Wellformed
<1>2. CASE a.stopped /\ Exits(a) /\ UNCHANGED owed
  <2>1. owed' \in BOOLEAN
    BY <1>2 DEF Inv, TypeOK
  <2> QED
    BY <1>1, <1>2, <2>1, ExitsInv
<1>3. CASE ~a.stopped /\ TurnBegins([a EXCEPT !.loop_running = TRUE])
  <2>1. PICK x : x = [a EXCEPT !.loop_running = TRUE]
    OBVIOUS
  <2>2. /\ x \in Adapter /\ x.stopped = a.stopped /\ x.hook = a.hook
        /\ x.started = a.started /\ x.released = a.released
        /\ x.notified = a.notified /\ x.loop_running
        /\ x.pending_notify = a.pending_notify
        /\ x.drain_required = a.drain_required
        /\ x.retirement_scheduled = a.retirement_scheduled
    BY <1>1, <2>1 DEF Adapter
  <2> QED
    BY <1>1, <1>3, <2>1, <2>2, TurnBeginsInv
<1> QED
  BY <1>2, <1>3 DEF Begins

\* poll() returned: the coroutine exits, turns again or fails.
LEMMA WakesInv == ASSUME Inv, Wakes PROVE Inv'
<1>1. /\ a \in Adapter /\ co = "parked" /\ Stepping
      /\ UNCHANGED <<owns, loop, ready, misplaced>> /\ a.started
      /\ a.hook = ~a.stopped /\ (loop \in {"run", "drain"} => ~a.drain_required)
      /\ a.drain_required => a.stopped
  BY DEF Wakes, Inv, TypeOK, Wellformed
<1>2. PICK byte \in BOOLEAN, unreadable \in BOOLEAN :
        LET x == [a EXCEPT !.kick_pending = byte, !.wake_at = FALSE,
                           !.error = @ \/ unreadable]
        IN \/ a.stopped /\ Exits(x) /\ UNCHANGED owed
           \/ ~a.stopped /\ TurnBegins(x)
           \/ /\ ~a.stopped
              /\ \E y \in Finished(x, "error", FALSE, TRUE) : Exits(y)
              /\ UNCHANGED owed
  BY <1>1 DEF Wakes, Adapter
<1>3. PICK x : x = [a EXCEPT !.kick_pending = byte, !.wake_at = FALSE,
                             !.error = @ \/ unreadable]
  OBVIOUS
<1>4. /\ x \in Adapter /\ x.stopped = a.stopped /\ x.hook = a.hook
      /\ x.started = a.started /\ x.released = a.released
      /\ x.notified = a.notified /\ x.loop_running = a.loop_running
      /\ x.pending_notify = a.pending_notify
      /\ x.drain_required = a.drain_required
      /\ x.retirement_scheduled = a.retirement_scheduled
      /\ x.registration_dead = a.registration_dead
  BY <1>1, <1>3 DEF Adapter
<1>5. CASE a.stopped /\ Exits(x) /\ UNCHANGED owed
  <2>1. owed' \in BOOLEAN
    BY <1>5 DEF Inv, TypeOK
  <2> QED
    BY <1>1, <1>4, <1>5, <2>1, ExitsInv
<1>6. CASE ~a.stopped /\ TurnBegins(x)
  <2>1. x.loop_running
    BY <1>1, <1>4, <1>6 DEF Inv, Wellformed, Running
  <2> QED
    BY <1>1, <1>4, <1>6, <2>1, TurnBeginsInv
<1>7. CASE /\ ~a.stopped
           /\ \E y \in Finished(x, "error", FALSE, TRUE) : Exits(y)
           /\ UNCHANGED owed
  <2>1. PICK y \in Finished(x, "error", FALSE, TRUE) : Exits(y)
    BY <1>7
  <2>2. owed' \in BOOLEAN
    BY <1>7 DEF Inv, TypeOK
  <2> QED
    BY <1>1, <1>4, <1>7, <2>1, <2>2, StopsAndExitsInv
<1> QED
  BY <1>2, <1>3, <1>5, <1>6, <1>7

\* The end of the turn that ends the adapter.
LEMMA TurnEndsInv == ASSUME Inv, TurnEnds PROVE Inv'
<1>1. /\ a \in Adapter /\ co \in Running /\ Stepping
      /\ UNCHANGED <<owns, loop, ready, owed, misplaced>> /\ owed' \in BOOLEAN
      /\ a.started /\ a.hook = ~a.stopped
      /\ loop \in {"run", "drain"} => ~a.drain_required
      /\ a.drain_required => a.stopped
  BY DEF TurnEnds, InTurn, Running, Inv, TypeOK, Wellformed
<1>2. CASE a.stopped /\ Exits(a)
  BY <1>1, <1>2, ExitsInv
<1>3. CASE ~a.stopped
  <2>1. PICK reason \in {"closed", "stalled", "error"} :
          \E x \in Finished(a, reason, FALSE, TRUE) : Exits(x)
    BY <1>3 DEF TurnEnds
  <2>2. PICK x \in Finished(a, reason, FALSE, TRUE) : Exits(x)
    BY <2>1
  <2> QED
    BY <1>1, <1>3, <2>2, StopsAndExitsInv
<1> QED
  BY <1>2, <1>3 DEF TurnEnds

\* The turn that goes on, and a stall that the host is told of.
LEMMA ParksInv == ASSUME Inv, Stalls \/ Parks PROVE Inv'
<1> USE DEF Inv
<1>1. CASE Stalls
  <2>1. TypeOK' /\ TeardownFirst'
    BY <1>1 DEF Stalls, TypeOK, TeardownFirst
  <2>2. Wellformed' /\ PendingJustified' /\ ReleasedJustified' /\ Signal'
    BY <1>1
    DEF Stalls, Wellformed, PendingJustified, ReleasedJustified, Signal, Running
  <2> QED
    BY <2>1, <2>2
<1>2. CASE Parks
  <2>1. a \in Adapter /\ ~a.stopped /\ co \in Running /\ co' = "parked"
        /\ UNCHANGED <<owns, loop, driver, owed, lost, misplaced>>
        /\ ready' = FALSE
    BY <1>2 DEF Parks, InTurn, Running, TypeOK
  <2>2. /\ a' \in Adapter /\ a'.stopped = a.stopped /\ a'.hook = a.hook
        /\ a'.started = a.started /\ a'.released = a.released
        /\ a'.notified = a.notified /\ a'.loop_running = a.loop_running
        /\ a'.pending_notify = a.pending_notify
        /\ a'.drain_required = a.drain_required
        /\ a'.retirement_scheduled = a.retirement_scheduled
        /\ a'.registration_dead = a.registration_dead
        /\ a'.kick_pending = a.kick_pending
    BY <1>2, <2>1 DEF Parks, Adapter
  <2>3. TypeOK' /\ TeardownFirst'
    BY <2>1, <2>2 DEF TypeOK, TeardownFirst, Wellformed
  <2>4. Wellformed'
    BY <2>1, <2>2 DEF Wellformed, Running
  <2>5. PendingJustified' /\ ReleasedJustified' /\ Signal'
    BY <2>1, <2>2 DEF Wellformed, PendingJustified, ReleasedJustified, Signal, Running
  <2> QED
    BY <2>3, <2>4, <2>5
<1> QED
  BY <1>1, <1>2

\* The one-shot coroutine tells the host after the adapter's own has exited.
LEMMA RetirementInv == ASSUME Inv, RetirementTurn PROVE Inv'
<1> USE DEF Inv
<1>1. /\ a \in Adapter /\ co = "dead" /\ a.released /\ a.stopped /\ ~a.hook
      /\ driver = "stopped" /\ loop = "host" /\ a.started
      /\ UNCHANGED <<owns, co, loop, ready, owed, misplaced>>
  BY DEF RetirementTurn, TypeOK, Wellformed
<1>2. PICK x : x = [a EXCEPT !.retirement_scheduled = FALSE]
  OBVIOUS
<1>3. /\ x \in Adapter /\ x.stopped /\ ~x.hook /\ x.started /\ x.released
      /\ x.notified = a.notified /\ x.loop_running = a.loop_running
      /\ x.registration_dead = a.registration_dead
      /\ ~x.retirement_scheduled
  BY <1>1, <1>2 DEF Adapter
<1>4. PICK y : Becomes(y) /\ y = IF x.notified THEN x ELSE Notified(x, co)
  BY <1>2 DEF RetirementTurn
<1>5. /\ y \in Adapter /\ y.stopped /\ ~y.hook /\ y.started /\ y.released
      /\ y.notified /\ y.loop_running = a.loop_running /\ ~y.retirement_scheduled
      /\ y.registration_dead \in {a.registration_dead, "true"}
      /\ a.notified => y.registration_dead = a.registration_dead
  <2>1. CASE x.notified
    BY <1>3, <1>4, <2>1
  <2>2. CASE ~x.notified
    <3>1. y = Notified(x, co)
      BY <1>4, <2>2
    <3> QED
      BY <1>1, <1>3, <2>2, <3>1, NotifiedFields
  <2> QED
    BY <2>1, <2>2
<1>6. a' = y /\ driver' = "stopped" /\ lost' = lost
  BY <1>1, <1>4, <1>5 DEF Becomes, TypeOK
<1>7. a.notified \/ y.registration_dead = "true"
  <2>1. CASE ~x.notified
    <3>1. y = Notified(x, co)
      BY <1>4, <2>1
    <3> QED
      BY <1>1, <1>3, <3>1, NotifiedFields
  <2> QED
    BY <1>3, <2>1
<1>8. TypeOK' /\ TeardownFirst'
  BY <1>1, <1>5, <1>6, <1>7 DEF TypeOK, TeardownFirst
<1>9. Wellformed' /\ PendingJustified' /\ ReleasedJustified' /\ Signal'
  BY <1>1, <1>5, <1>6
  DEF Wellformed, PendingJustified, ReleasedJustified, Signal, Running, Adapter
<1> QED
  BY <1>8, <1>9

\* The owner's readiness preserves the inductive invariant.
LEMMA RingsInv == ASSUME Inv, Rings PROVE Inv'
  BY DEF Rings, Inv, TypeOK, TeardownFirst, Wellformed, PendingJustified,
         ReleasedJustified, Signal

\* Every step of the adapter, or none, preserves the inductive invariant.
LEMMA NextInv == Inv /\ [Next]_vars => Inv'
<1> SUFFICES ASSUME Inv, [Next]_vars PROVE Inv'
  OBVIOUS
<1>1. CASE UNCHANGED vars
  BY <1>1 DEF vars, Inv, TypeOK, TeardownFirst, Wellformed, PendingJustified,
              ReleasedJustified, Signal
<1>2. CASE Next
  BY <1>2, CallsInv, HostInv, ReturnsInv, DrainReturnsInv, FailsInv, BeginsInv,
     WakesInv, TurnEndsInv, ParksInv, RetirementInv, RingsInv
  DEF Next, HostSteps, Returns, Coroutine
<1> QED
  BY <1>1, <1>2

\* The inductive invariant holds in every reachable state of the adapter.
THEOREM Invariance == Spec => []Inv
  BY InitInv, NextInv, PTL DEF Spec

\* A kick, or a stop, that comes while the coroutine is parked has its byte in
\* the socketpair, whichever writes, reads and loops fail.
THEOREM NoKickLost == Spec => []KickNotLost
<1>1. Inv => KickNotLost
  BY DEF Inv, Signal, KickNotLost, Running
<1> QED
  BY <1>1, Invariance, PTL

-----------------------------------------------------------------------------
(***************************************************************************)
(* The order of a teardown.                                                *)
(***************************************************************************)

\* A call of the application does not close the socketpair under a coroutine
\* that is parked.
LEMMA EndsKeepsPair ==
  ASSUME Inv, MayCall, NEW reason, Ends(reason), co = "parked", ~a.released
  PROVE  ~a'.released
<1>1. a \in Adapter /\ owns \in BOOLEAN /\ ~a.stopped /\ a.started /\ a.loop_running
  BY DEF Inv, TypeOK, Wellformed, MayCall, Running, Adapter
<1>2. PICK elsewhere \in Elsewhere :
        \E x \in Finished(a, reason, FALSE, Stepping \/ elsewhere) : Becomes(x)
  BY DEF Ends
<1> DEFINE running == Stepping \/ elsewhere
<1>3. PICK x \in Finished(a, reason, FALSE, running) : Becomes(x)
  BY <1>2
<1> HIDE DEF running
<1>4. Ended(a, x, FALSE, running)
  BY <1>1, <1>3, FinishedFields, Zenon
<1> QED
  BY <1>1, <1>3, <1>4 DEF Ended, Becomes

\* No step closes the socketpair under the parked coroutine of a controller that
\* works, unless the byte of the stop was lost.
LEMMA StepKeepsPair ==
  ASSUME Inv, [Next]_vars, a'.released, ~a.released, co = "parked"
  PROVE  co' = "dead" \/ loop' = "failed" \/ lost
<1>1. a \in Adapter /\ a.started
  BY DEF Inv, TypeOK, Wellformed
<1>2. CASE UNCHANGED vars \/ HostLoops \/ HostLeaves \/ Stalls \/ Rings
  BY <1>2 DEF vars, HostLoops, HostLeaves, Stalls, Rings
<1>3. CASE Stop \/ KickRefused \/ KickUnwritable
  BY <1>3, EndsKeepsPair DEF Stop, KickRefused, KickUnwritable
<1>4. CASE Kick
  BY <1>1, <1>4 DEF Kick, Adapter
<1>5. CASE Run \/ (Drain /\ a.drain_required)
  BY <1>1, <1>5 DEF Run, Drain, Adapter
<1>6. CASE (Drain /\ ~a.drain_required) \/ RunReturns
  BY <1>1, <1>6, DeliverFields DEF Drain, RunReturns, Becomes
<1>7. CASE DrainReturns
  BY <1>7 DEF DrainReturns, Inv, Wellformed, Signal, Running
<1>8. CASE LoopFails
  BY <1>8 DEF LoopFails
<1>9. CASE Begins \/ TurnEnds \/ Parks \/ RetirementTurn
  BY <1>9 DEF Begins, TurnEnds, Parks, InTurn, RetirementTurn, Inv, Wellformed
<1>10. CASE Wakes
  <2>1. CASE a.stopped
    BY <1>10, <2>1 DEF Wakes, Exits
  <2>2. CASE co' = "turn"
    <3>1. PICK byte, unreadable :
            TurnBegins([a EXCEPT !.kick_pending = byte, !.wake_at = FALSE,
                                 !.error = @ \/ unreadable])
      BY <1>10, <2>2 DEF Wakes, Exits
    <3> QED
      BY <1>1, <3>1 DEF TurnBegins, Adapter
  <2>3. CASE ~a.stopped /\ co' # "turn"
    BY <1>10, <2>3 DEF Wakes, TurnBegins, Exits
  <2> QED
    BY <2>1, <2>2, <2>3
<1> QED
  BY <1>2, <1>3, <1>4, <1>5, <1>6, <1>7, <1>8, <1>9, <1>10
  DEF Next, Calls, HostSteps, Returns, Coroutine

\* Teardown first, then the callback; and the socketpair is never closed under
\* the parked coroutine of a controller that works.
THEOREM OrderlyTeardown == Spec => Orderly
<1>1. Inv => TeardownFirst
  BY DEF Inv
<1>2. Inv /\ [Next]_vars =>
        [a'.released /\ ~a.released /\ co = "parked" =>
           co' = "dead" \/ loop' = "failed" \/ lost]_vars
  BY StepKeepsPair
<1> QED
  BY <1>1, <1>2, Invariance, PTL DEF Spec, Orderly, NotUnderPark
=============================================================================
