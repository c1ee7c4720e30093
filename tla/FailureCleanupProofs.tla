------------------------ MODULE FailureCleanupProofs ------------------------
(***************************************************************************)
(* Proofs about the ledger of FailureCleanup, for any finite sets of       *)
(* clients and of concurrent sends.                                        *)
(*                                                                         *)
(* Each private helper moves a record and the counters together.  A helper *)
(* is Balanced when it moves every counter by exactly what the record's    *)
(* contribution to it changes.  The helpers are Balanced, so compositions  *)
(* are, and a critical section that commits a Balanced pair keeps each     *)
(* counter equal to the number of records it stands for.                   *)
(***************************************************************************)
EXTENDS FailureCleanup, FiniteSetTheorems, TLAPS

One(b) == IF b THEN 1 ELSE 0

Reserved(r) == r.state = "live" /\ ~r.materialized
Remaining(r) == r.materialized /\ ~r.terminal

\* From p to q every counter of records moves as the record's share of it.
Balanced(p, q) ==
    /\ q.n.records - One(q.r.state = "live") = p.n.records - One(p.r.state = "live")
    /\ q.n.reserved - One(Reserved(q.r)) = p.n.reserved - One(Reserved(p.r))
    /\ q.n.remaining - One(Remaining(q.r)) = p.n.remaining - One(Remaining(p.r))
    /\ q.n.uncertain - One(q.r.uncertain) = p.n.uncertain - One(p.r.uncertain)
    /\ q.n.terminal_records - One(q.r.terminal)
         = p.n.terminal_records - One(p.r.terminal)
    /\ q.n.notification_work - One(q.r.work = "Notify")
         = p.n.notification_work - One(p.r.work = "Notify")
    /\ q.n.close_work - One(q.r.work = "Close")
         = p.n.close_work - One(p.r.work = "Close")

\* The pairs the helpers are applied to.
Good(p) == p \in Local /\ WellFormed(p.r) /\ p.r.state = "live"

\* A pair that may be committed in place of p.
Sound(p, q) ==
    /\ q \in Local
    /\ WellFormed(q.r)
    /\ Balanced(p, q)

-----------------------------------------------------------------------------
(***************************************************************************)
(* The helpers.                                                            *)
(***************************************************************************)

\* A counter moves by what is added to it and the others stay.
LEMMA AddStats ==
    ASSUME NEW n \in Stats, NEW k \in Counters, NEW d \in Int
    PROVE  /\ Add(n, k, d) \in Stats
           /\ Add(n, k, d)[k] = n[k] + d
           /\ \A j \in Counters \ {k} : Add(n, k, d)[j] = n[j]
  BY DEF Stats, Add

\* materialize() turns a reserved record into a remaining one.
LEMMA MaterializeSound ==
    ASSUME NEW p, Good(p)
    PROVE  /\ Good(Materialize(p)) /\ Balanced(p, Materialize(p))
           /\ Materialize(p).r = [p.r EXCEPT !.materialized = TRUE]
           /\ Materialize(p).n.active_sends = p.n.active_sends
<1> DEFINE q == Materialize(p)
<1>1. p \in Local /\ p.r \in Record /\ p.n \in Stats
  BY DEF Good, Local
<1>2. q.r = [p.r EXCEPT !.materialized = TRUE]
  BY <1>1 DEF Materialize, Record
<1>3. q.r \in Record /\ WellFormed(q.r) /\ q.r.state = "live"
  BY <1>1, <1>2 DEF Good, Record, WellFormed
<1>4. CASE p.r.materialized
  <2>1. q = p
    BY <1>4 DEF Materialize
  <2> QED
    BY <1>1, <1>2, <2>1 DEF Good, Balanced
<1>5. CASE ~p.r.materialized
  <2> DEFINE d == IF p.r.terminal THEN 0 ELSE 1
             m == Add(p.n, "reserved", -1)
             n == Add(m, "remaining", d)
  <2>1. q.n = n /\ q \in [r : {q.r}, n : {n}]
    BY <1>5 DEF Materialize
  <2>2. m \in Stats /\ m.reserved = p.n.reserved - 1
        /\ \A k \in Counters \ {"reserved"} : m[k] = p.n[k]
    <3>1. -1 \in Int /\ "reserved" \in Counters
      BY DEF Counters
    <3> QED
      BY <1>1, <3>1, AddStats
  <2>3. n \in Stats /\ n.remaining = m.remaining + d
        /\ \A k \in Counters \ {"remaining"} : n[k] = m[k]
    <3>1. d \in Int /\ "remaining" \in Counters
      BY DEF Counters
    <3> HIDE DEF d
    <3> QED
      BY <2>2, <3>1, AddStats
  <2> HIDE DEF m, n
  <2>4. q \in Local
    BY <1>3, <2>1, <2>3 DEF Local
  <2>5. Balanced(p, q)
    BY <1>1, <1>2, <1>5, <2>1, <2>2, <2>3
       DEF Balanced, One, Reserved, Remaining, Good, WellFormed, Record, Stats, Counters
  <2> QED
    BY <1>2, <1>3, <2>1, <2>2, <2>3, <2>4, <2>5 DEF Good, Counters
<1> QED
  BY <1>4, <1>5

\* setUncertain() counts each change of the flag once.
LEMMA SetUncertainSound ==
    ASSUME NEW p, Good(p), NEW v \in BOOLEAN, v => ~p.r.terminal
    PROVE  /\ Good(SetUncertain(p, v)) /\ Balanced(p, SetUncertain(p, v))
           /\ SetUncertain(p, v).r = [p.r EXCEPT !.uncertain = v]
           /\ SetUncertain(p, v).n.active_sends = p.n.active_sends
<1> DEFINE q == SetUncertain(p, v)
<1>1. p \in Local /\ p.r \in Record /\ p.n \in Stats
  BY DEF Good, Local
<1>2. q.r = [p.r EXCEPT !.uncertain = v]
  BY <1>1 DEF SetUncertain, Record
<1>3. q.r \in Record /\ WellFormed(q.r) /\ q.r.state = "live"
  BY <1>1, <1>2 DEF Good, Record, WellFormed
<1>4. CASE p.r.uncertain = v
  <2>1. q = p
    BY <1>4 DEF SetUncertain
  <2> QED
    BY <1>1, <1>2, <2>1 DEF Good, Balanced
<1>5. CASE p.r.uncertain # v
  <2> DEFINE d == IF v THEN 1 ELSE -1
             n == Add(p.n, "uncertain", d)
  <2>1. q.n = n /\ q \in [r : {q.r}, n : {n}]
    BY <1>5 DEF SetUncertain
  <2>2. n \in Stats /\ n.uncertain = p.n.uncertain + d
        /\ \A k \in Counters \ {"uncertain"} : n[k] = p.n[k]
    <3>1. d \in Int /\ "uncertain" \in Counters
      BY DEF Counters
    <3> HIDE DEF d
    <3> QED
      BY <1>1, <3>1, AddStats
  <2> HIDE DEF n
  <2>3. q \in Local
    BY <1>3, <2>1, <2>2 DEF Local
  <2>4. Balanced(p, q)
    BY <1>1, <1>2, <1>5, <2>1, <2>2
       DEF Balanced, One, Reserved, Remaining, Record, Stats, Counters
  <2> QED
    BY <1>2, <1>3, <2>1, <2>2, <2>3, <2>4 DEF Good, Counters
<1> QED
  BY <1>4, <1>5

\* unlink() takes a record off the list it is on.
LEMMA UnlinkSound ==
    ASSUME NEW p, Good(p)
    PROVE  /\ Good(Unlink(p)) /\ Balanced(p, Unlink(p))
           /\ Unlink(p).r = [p.r EXCEPT !.work = "None"]
           /\ Unlink(p).n.active_sends = p.n.active_sends
<1> DEFINE q == Unlink(p)
<1>1. p \in Local /\ p.r \in Record /\ p.n \in Stats
  BY DEF Good, Local
<1>2. q.r = [p.r EXCEPT !.work = "None"]
  BY <1>1 DEF Unlink, Record
<1>3. q.r \in Record /\ WellFormed(q.r) /\ q.r.state = "live"
  BY <1>1, <1>2 DEF Good, Record, WellFormed
<1>4. CASE p.r.work = "None"
  <2>1. q = p
    BY <1>4 DEF Unlink
  <2> QED
    BY <1>1, <1>2, <2>1 DEF Good, Balanced
<1>5. CASE ~(p.r.work = "None")
  <2> DEFINE k == Counter(p.r.work)
             n == Add(p.n, k, -1)
  <2>1. q.n = n /\ q \in [r : {q.r}, n : {n}]
    BY <1>5 DEF Unlink
  <2>2. k \in {"notification_work", "close_work"}
    BY DEF Counter
  <2>3. n \in Stats /\ n[k] = p.n[k] + (-1)
        /\ \A j \in Counters \ {k} : n[j] = p.n[j]
    <3>1. -1 \in Int /\ k \in Counters
      BY <2>2 DEF Counters
    <3> HIDE DEF k
    <3> QED
      BY <1>1, <3>1, AddStats
  <2> HIDE DEF n
  <2>4. q \in Local
    BY <1>3, <2>1, <2>3 DEF Local
  <2>5. Balanced(p, q)
    BY <1>1, <1>2, <1>5, <2>1, <2>2, <2>3
       DEF Balanced, One, Reserved, Remaining, Record, Stats, Counters, Counter
  <2> QED
    BY <1>2, <1>3, <2>1, <2>2, <2>3, <2>4, <2>5 DEF Good, Counters
<1> QED
  BY <1>4, <1>5

\* refreshWork() wants a record on one list at most, and never a busy one.
LEMMA DesiredType ==
    ASSUME NEW r, NEW f
    PROVE  /\ Desired(r, f) \in {"None", "Close", "Notify"}
           /\ r.busy => Desired(r, f) = "None"
  BY DEF Desired

\* Appending an unlinked record to a list.
LEMMA LinkSound ==
    ASSUME NEW p, Good(p), p.r.work = "None",
           NEW w \in {"None", "Close", "Notify"}, p.r.busy => w = "None"
    PROVE  /\ Good(Link(p, w)) /\ Balanced(p, Link(p, w))
           /\ Link(p, w).r = [p.r EXCEPT !.work = w]
           /\ Link(p, w).n.active_sends = p.n.active_sends
<1> DEFINE q == Link(p, w)
<1>1. p \in Local /\ p.r \in Record /\ p.n \in Stats
  BY DEF Good, Local
<1>2. q.r = [p.r EXCEPT !.work = w]
  BY <1>1 DEF Link, Record
<1>3. q.r \in Record /\ WellFormed(q.r) /\ q.r.state = "live"
  BY <1>1, <1>2 DEF Good, Record, WellFormed
<1>4. CASE w = "None"
  <2>1. q = p
    BY <1>4 DEF Link
  <2> QED
    BY <1>1, <1>2, <2>1 DEF Good, Balanced
<1>5. CASE ~(w = "None")
  <2> DEFINE k == Counter(w)
             n == Add(p.n, k, 1)
  <2>1. q.n = n /\ q \in [r : {q.r}, n : {n}]
    BY <1>5 DEF Link
  <2>2. k \in {"notification_work", "close_work"}
    BY DEF Counter
  <2>3. n \in Stats /\ n[k] = p.n[k] + 1
        /\ \A j \in Counters \ {k} : n[j] = p.n[j]
    <3>1. 1 \in Int /\ k \in Counters
      BY <2>2 DEF Counters
    <3> HIDE DEF k
    <3> QED
      BY <1>1, <3>1, AddStats
  <2> HIDE DEF n
  <2>4. q \in Local
    BY <1>3, <2>1, <2>3 DEF Local
  <2>5. Balanced(p, q)
    BY <1>1, <1>2, <1>5, <2>1, <2>2, <2>3
       DEF Balanced, One, Reserved, Remaining, Record, Stats, Counters, Counter
  <2> QED
    BY <1>2, <1>3, <2>1, <2>2, <2>3, <2>4, <2>5 DEF Good, Counters
<1> QED
  BY <1>4, <1>5

\* Two steps that each keep the counters in step with one record do so together.
LEMMA BalancedTrans ==
    ASSUME NEW p, NEW q, NEW t, p \in Local, q \in Local, t \in Local,
           Balanced(p, q), Balanced(q, t)
    PROVE  Balanced(p, t)
  BY DEF Balanced, One, Local, Stats, Record, Reserved, Remaining

\* refreshWork() leaves the record on the list it is wanted on, and nowhere else.
LEMMA RefreshWorkSound ==
    ASSUME NEW p, Good(p), NEW f \in BOOLEAN
    PROVE  /\ Good(RefreshWork(p, f)) /\ Balanced(p, RefreshWork(p, f))
           /\ RefreshWork(p, f).r = [p.r EXCEPT !.work = Desired(p.r, f)]
           /\ RefreshWork(p, f).n.active_sends = p.n.active_sends
<1> DEFINE w == Desired(p.r, f)
<1>1. w \in {"None", "Close", "Notify"} /\ (p.r.busy => w = "None")
  BY DesiredType
<1>2. CASE p.r.work = w
  BY <1>2 DEF RefreshWork, Balanced, Good, Local, Record, Stats
<1>3. CASE p.r.work # w
  <2> DEFINE u == Unlink(p)
  <2>1. /\ Good(u) /\ Balanced(p, u) /\ u.r = [p.r EXCEPT !.work = "None"]
        /\ u.n.active_sends = p.n.active_sends
    BY UnlinkSound
  <2>2. u.r.work = "None" /\ u.r.busy = p.r.busy
    BY <2>1 DEF Good, Local, Record
  <2>3. /\ Good(Link(u, w)) /\ Balanced(u, Link(u, w))
        /\ Link(u, w).r = [u.r EXCEPT !.work = w]
        /\ Link(u, w).n.active_sends = u.n.active_sends
    BY <1>1, <2>1, <2>2, LinkSound
  <2>4. Balanced(p, Link(u, w))
    BY <2>1, <2>3, BalancedTrans DEF Good
  <2>5. [u.r EXCEPT !.work = w] = [p.r EXCEPT !.work = w]
    BY <2>1 DEF Good, Local, Record
  <2> QED
    BY <1>3, <2>1, <2>3, <2>4, <2>5 DEF RefreshWork
<1> QED
  BY <1>2, <1>3

\* retireIfReady() erases a record only when every counter that still holds
\* it is given back.
LEMMA RetireSound ==
    ASSUME NEW p, Good(p)
    PROVE  /\ Sound(p, RetireIfReady(p))
           /\ RetireIfReady(p).n.active_sends = p.n.active_sends
           /\ \/ RetireIfReady(p) = p
              \/ /\ RetireIfReady(p).r = Blank("retired")
                 /\ p.r.notified /\ p.r.active = 0 /\ ~p.r.busy
                 /\ p.r.terminal \/ (~p.r.materialized /\ ~p.r.uncertain)
<1> DEFINE keep == \/ ~p.r.notified \/ p.r.active # 0 \/ p.r.busy
                   \/ ~p.r.terminal /\ (p.r.materialized \/ p.r.uncertain)
<1>1. CASE keep
  <2>1. RetireIfReady(p) = p
    BY <1>1 DEF RetireIfReady
  <2> QED
    BY <2>1 DEF Sound, Good, Balanced
<1>2. CASE ~keep
  <2> DEFINE u == Unlink(p)
             e == Erase(u)
             i == IF u.r.materialized THEN 0 ELSE -1
             j == IF u.r.terminal THEN -1 ELSE 0
             m == Add(u.n, "reserved", i)
             n == Add(m, "terminal_records", j)
             o == Add(n, "records", -1)
  <2>1. /\ Good(u) /\ Balanced(p, u) /\ u.r = [p.r EXCEPT !.work = "None"]
        /\ u.n.active_sends = p.n.active_sends
    BY UnlinkSound
  <2>2. RetireIfReady(p) = e
    BY <1>2 DEF RetireIfReady
  <2>3. /\ u.r \in Record /\ u.n \in Stats /\ u.r.state = "live" /\ u.r.work = "None"
        /\ u.r.uncertain => ~u.r.terminal
        /\ u.r.terminal => u.r.materialized
        /\ u.r.terminal \/ (~u.r.materialized /\ ~u.r.uncertain)
    BY <1>2, <2>1 DEF Good, Local, Record, WellFormed
  <2>4. i \in Int /\ j \in Int /\ -1 \in Int
        /\ {"reserved", "terminal_records", "records"} \subseteq Counters
    BY DEF Counters
  <2>5. e = [r |-> Blank("retired"), n |-> o]
    BY DEF Erase
  <2> HIDE DEF u, i, j
  <2>6. m \in Stats /\ m.reserved = u.n.reserved + i
        /\ \A k \in Counters \ {"reserved"} : m[k] = u.n[k]
    BY <2>3, <2>4, AddStats
  <2> HIDE DEF m
  <2>7. n \in Stats /\ n.terminal_records = m.terminal_records + j
        /\ \A k \in Counters \ {"terminal_records"} : n[k] = m[k]
    BY <2>4, <2>6, AddStats
  <2> HIDE DEF n
  <2>8. o \in Stats /\ o.records = n.records - 1
        /\ \A k \in Counters \ {"records"} : o[k] = n[k]
    BY <2>4, <2>7, AddStats
  <2> HIDE DEF o
  <2>9. Blank("retired") \in Record /\ WellFormed(Blank("retired"))
    BY DEF Blank, Record, WellFormed
  <2>10. e \in Local /\ WellFormed(e.r) /\ e.r = Blank("retired") /\ e.n = o
    BY <2>5, <2>8, <2>9 DEF Local
  <2>11. e.n.active_sends = u.n.active_sends
    BY <2>6, <2>7, <2>8, <2>10 DEF Counters
  <2>12. Balanced(u, e)
    BY <2>3, <2>6, <2>7, <2>8, <2>10
       DEF Balanced, One, Reserved, Remaining, Blank, Record, Stats, Counters, i, j
  <2>13. Balanced(p, e)
    BY <2>1, <2>10, <2>12, BalancedTrans DEF Good
  <2>14. /\ p.r.notified /\ p.r.active = 0 /\ ~p.r.busy
         /\ p.r.terminal \/ (~p.r.materialized /\ ~p.r.uncertain)
    BY <1>2
  <2> HIDE DEF e
  <2>15. Sound(p, RetireIfReady(p)) /\ RetireIfReady(p).r = Blank("retired")
    BY <2>2, <2>10, <2>13 DEF Sound
  <2>16. RetireIfReady(p).n.active_sends = p.n.active_sends
    BY <2>1, <2>2, <2>11
  <2> QED
    BY <2>14, <2>15, <2>16
<1> QED
  BY <1>1, <1>2

\* Setting a flag no counter depends on.
LEMMA WithSound ==
    ASSUME NEW p, Good(p), NEW v \in BOOLEAN,
           NEW f \in {"notified", "close_sent", "close_uncertain"}
    PROVE  /\ Good(With(p, f, v)) /\ Balanced(p, With(p, f, v))
           /\ With(p, f, v).r = [p.r EXCEPT ![f] = v]
           /\ With(p, f, v).n = p.n
<1> DEFINE q == With(p, f, v)
<1>1. p \in Local /\ p.r \in Record /\ p.n \in Stats
  BY DEF Good, Local
<1>2. q.r = [p.r EXCEPT ![f] = v] /\ q.n = p.n /\ q \in [r : {q.r}, n : {q.n}]
  BY DEF With
<1>3. q.r \in Record /\ WellFormed(q.r) /\ q.r.state = "live"
  BY <1>1, <1>2 DEF Good, Record, WellFormed
<1>4. q \in Local
  BY <1>1, <1>2, <1>3 DEF Local
<1>5. Balanced(p, q)
  BY <1>1, <1>2 DEF Balanced, One, Reserved, Remaining, Record
<1> QED
  BY <1>2, <1>3, <1>4, <1>5 DEF Good

\* The same for two flags, as rejectShutdown() and markCloseSent() set them.
LEMMA WithTwiceSound ==
    ASSUME NEW p, Good(p), NEW u \in BOOLEAN, NEW v \in BOOLEAN,
           NEW f \in {"notified", "close_sent", "close_uncertain"},
           NEW g \in {"notified", "close_sent", "close_uncertain"}
    PROVE  LET b == With(With(p, f, u), g, v) IN
           /\ Good(b) /\ Balanced(p, b) /\ b.n = p.n
           /\ b.r = [[p.r EXCEPT ![f] = u] EXCEPT ![g] = v]
           /\ b.r.active = p.r.active /\ b.r.busy = p.r.busy
<1> DEFINE a == With(p, f, u)
           b == With(a, g, v)
<1>1. Good(a) /\ Balanced(p, a) /\ a.n = p.n /\ a.r = [p.r EXCEPT ![f] = u]
  BY WithSound
<1> HIDE DEF a
<1>2. Good(b) /\ Balanced(a, b) /\ b.n = a.n /\ b.r = [a.r EXCEPT ![g] = v]
  BY <1>1, WithSound
<1> HIDE DEF b
<1>3. p.r \in Record /\ a.r \in Record
  BY <1>1 DEF Good, Local
<1>4. a.r.active = p.r.active /\ a.r.busy = p.r.busy
  BY <1>1, <1>3 DEF Record
<1>5. b.r.active = a.r.active /\ b.r.busy = a.r.busy
  BY <1>2, <1>3 DEF Record
<1>6. Balanced(p, b)
  BY <1>1, <1>2, BalancedTrans DEF Good
<1> QED
  BY <1>1, <1>2, <1>4, <1>5, <1>6 DEF b, a

\* Pinning an unlinked record, and unpinning any.
LEMMA PinSound ==
    ASSUME NEW p, Good(p), NEW v \in BOOLEAN, v => p.r.work = "None"
    PROVE  /\ Good(With(p, "busy", v)) /\ Balanced(p, With(p, "busy", v))
           /\ With(p, "busy", v).r = [p.r EXCEPT !.busy = v]
           /\ With(p, "busy", v).n = p.n
<1> DEFINE q == With(p, "busy", v)
<1>1. p \in Local /\ p.r \in Record /\ p.n \in Stats
  BY DEF Good, Local
<1>2. q.r = [p.r EXCEPT !.busy = v] /\ q.n = p.n /\ q \in [r : {q.r}, n : {q.n}]
  BY DEF With
<1>3. q.r \in Record /\ WellFormed(q.r) /\ q.r.state = "live"
  BY <1>1, <1>2 DEF Good, Record, WellFormed
<1>4. q \in Local
  BY <1>1, <1>2, <1>3 DEF Local
<1>5. Balanced(p, q)
  BY <1>1, <1>2 DEF Balanced, One, Reserved, Remaining, Record
<1> QED
  BY <1>2, <1>3, <1>4, <1>5 DEF Good

\* Everything a critical section may do to a record besides counting sends.
Settles(p, q) ==
    /\ Sound(p, q)
    /\ q.n.active_sends = p.n.active_sends
    /\ q.r.active = p.r.active
    /\ q.r.busy = p.r.busy

\* refreshWork() then retireIfReady(), the end of most critical sections.
LEMMA FinishSound ==
    ASSUME NEW p, Good(p), NEW f \in BOOLEAN
    PROVE  /\ Settles(p, RetireIfReady(RefreshWork(p, f)))
           /\ \/ RetireIfReady(RefreshWork(p, f)).r = [p.r EXCEPT !.work = Desired(p.r, f)]
              \/ /\ RetireIfReady(RefreshWork(p, f)).r = Blank("retired")
                 /\ p.r.notified /\ p.r.active = 0 /\ ~p.r.busy
                 /\ p.r.terminal \/ (~p.r.materialized /\ ~p.r.uncertain)
<1> DEFINE w == RefreshWork(p, f)
           q == RetireIfReady(w)
<1>1. /\ Good(w) /\ Balanced(p, w) /\ w.r = [p.r EXCEPT !.work = Desired(p.r, f)]
      /\ w.n.active_sends = p.n.active_sends
  BY RefreshWorkSound
<1> HIDE DEF w
<1>2. /\ Sound(w, q) /\ q.n.active_sends = w.n.active_sends
      /\ \/ q = w
         \/ /\ q.r = Blank("retired")
            /\ w.r.notified /\ w.r.active = 0 /\ ~w.r.busy
            /\ w.r.terminal \/ (~w.r.materialized /\ ~w.r.uncertain)
  BY <1>1, RetireSound
<1> HIDE DEF q
<1>3. Balanced(p, q) /\ Sound(p, q)
  BY <1>1, <1>2, BalancedTrans DEF Good, Sound
<1>4. p.r \in Record
  BY DEF Good, Local
<1>5. /\ w.r.notified = p.r.notified /\ w.r.active = p.r.active
      /\ w.r.busy = p.r.busy /\ w.r.terminal = p.r.terminal
      /\ w.r.materialized = p.r.materialized /\ w.r.uncertain = p.r.uncertain
  BY <1>1, <1>4 DEF Record
<1>6. q.r.active = p.r.active /\ q.r.busy = p.r.busy
  <2>1. CASE q = w
    BY <1>5, <2>1
  <2>2. CASE q.r = Blank("retired") /\ w.r.active = 0 /\ ~w.r.busy
    <3>1. p.r.busy \in BOOLEAN
      BY <1>4 DEF Record
    <3>2. q.r.active = 0 /\ q.r.busy = FALSE
      BY <2>2 DEF Blank
    <3>3. p.r.busy = FALSE
      BY <1>5, <2>2, <3>1
    <3> QED
      BY <1>5, <2>2, <3>2, <3>3
  <2> QED
    BY <1>2, <2>1, <2>2
<1>7. Settles(p, q)
  BY <1>1, <1>2, <1>3, <1>6 DEF Settles
<1>8. \/ q.r = [p.r EXCEPT !.work = Desired(p.r, f)]
      \/ /\ q.r = Blank("retired")
         /\ p.r.notified /\ p.r.active = 0 /\ ~p.r.busy
         /\ p.r.terminal \/ (~p.r.materialized /\ ~p.r.uncertain)
  BY <1>1, <1>2, <1>5
<1> QED
  BY <1>7, <1>8 DEF q, w

\* A settled record stays settled through a change that leaves its pins alone.
LEMMA SettlesTrans ==
    ASSUME NEW p, NEW q, NEW t, p \in Local, q \in Local, Balanced(p, q),
           q.n.active_sends = p.n.active_sends, q.r.active = p.r.active,
           q.r.busy = p.r.busy, Settles(q, t)
    PROVE  Settles(p, t)
  BY BalancedTrans DEF Settles, Sound

\* acknowledgeTerminal(), retireUnused() and retireReserved().
LEMMA NotifySound ==
    ASSUME NEW p, Good(p), NEW f \in BOOLEAN
    PROVE  Settles(p, RetireIfReady(RefreshWork(With(p, "notified", TRUE), f)))
<1> DEFINE q == With(p, "notified", TRUE)
<1>1. /\ Good(q) /\ Balanced(p, q) /\ q.n = p.n
      /\ q.r = [p.r EXCEPT !["notified"] = TRUE]
  BY WithSound
<1>2. q.r.active = p.r.active /\ q.r.busy = p.r.busy
  BY <1>1 DEF Good, Local, Record
<1> HIDE DEF q
<1>3. Settles(q, RetireIfReady(RefreshWork(q, f)))
  BY <1>1, FinishSound
<1>4. Settles(p, RetireIfReady(RefreshWork(q, f)))
  BY <1>1, <1>2, <1>3, SettlesTrans DEF Good
<1> QED
  BY <1>4 DEF q

\* observe() counts a materialization, a terminal update and a resolved doubt.
LEMMA ObserveSound ==
    ASSUME NEW p, Good(p), NEW terminal \in BOOLEAN, failed \in BOOLEAN
    PROVE  Settles(p, ObserveLocal(p, terminal))
<1> DEFINE seen == Materialize(p)
           ended == IF terminal /\ ~seen.r.terminal
                    THEN [r |-> [seen.r EXCEPT !.terminal = TRUE],
                          n |-> Add(Add(seen.n, "remaining", -1),
                                    "terminal_records", 1)]
                    ELSE seen
           sure == IF terminal \/ ~ended.r.close_uncertain
                   THEN SetUncertain(ended, FALSE) ELSE ended
<1>1. /\ Good(seen) /\ Balanced(p, seen) /\ seen.r.materialized
      /\ seen.n.active_sends = p.n.active_sends
      /\ seen.r.active = p.r.active /\ seen.r.busy = p.r.busy
  <2>1. p.r \in Record
    BY DEF Good, Local
  <2>2. /\ Good(seen) /\ Balanced(p, seen) /\ seen.n.active_sends = p.n.active_sends
        /\ seen.r = [p.r EXCEPT !.materialized = TRUE]
    BY MaterializeSound
  <2> HIDE DEF seen
  <2> QED
    BY <2>1, <2>2 DEF Record
<1> HIDE DEF seen
<1>2. seen \in Local /\ seen.r \in Record /\ seen.n \in Stats
  BY <1>1 DEF Good, Local
<1>3. ObserveLocal(p, terminal) = RefreshWork(sure, failed)
  BY DEF ObserveLocal, seen
<1>4. CASE terminal /\ ~seen.r.terminal
  <2> DEFINE m == Add(seen.n, "remaining", -1)
             n == Add(m, "terminal_records", 1)
             e == [r |-> [seen.r EXCEPT !.terminal = TRUE], n |-> n]
             q == SetUncertain(e, FALSE)
  <2>1. -1 \in Int /\ 1 \in Int /\ {"remaining", "terminal_records"} \subseteq Counters
    BY DEF Counters
  <2>2. m \in Stats /\ m.remaining = seen.n.remaining - 1
        /\ \A k \in Counters \ {"remaining"} : m[k] = seen.n[k]
    BY <1>2, <2>1, AddStats
  <2> HIDE DEF m
  <2>3. n \in Stats /\ n.terminal_records = m.terminal_records + 1
        /\ \A k \in Counters \ {"terminal_records"} : n[k] = m[k]
    BY <2>1, <2>2, AddStats
  <2> HIDE DEF n
  <2>4. e.r \in Record /\ e \in Local /\ e.n = n /\ e.r.terminal
        /\ e.r.active = p.r.active /\ e.r.busy = p.r.busy
    BY <1>1, <1>2, <2>3 DEF Local, Record
  <2>5. n.active_sends = p.n.active_sends
    BY <1>1, <2>2, <2>3 DEF Counters
  <2>6. Balanced(seen, e)
    BY <1>1, <1>2, <1>4, <2>2, <2>3
       DEF Balanced, One, Reserved, Remaining, Record, Stats, Counters
  <2>7. Balanced(p, e)
    BY <1>1, <1>2, <2>4, <2>6, BalancedTrans DEF Good
  \* An uncertain record that ends keeps the doubt only until this line.
  <2>8. /\ q \in Local /\ Balanced(e, q) /\ q.r = [e.r EXCEPT !.uncertain = FALSE]
        /\ q.n.active_sends = e.n.active_sends
    <3>1. CASE e.r.uncertain = FALSE
      BY <2>4, <3>1 DEF SetUncertain, Balanced, Record
    <3>2. CASE e.r.uncertain # FALSE
      <4> DEFINE k == Add(e.n, "uncertain", -1)
      <4>1. k \in Stats /\ k.uncertain = e.n.uncertain - 1
            /\ \A j \in Counters \ {"uncertain"} : k[j] = e.n[j]
        <5>1. "uncertain" \in Counters /\ e.n \in Stats
          BY <2>3, <2>4 DEF Counters
        <5> QED
          BY <2>1, <5>1, AddStats
      <4>2. q = [r |-> [e.r EXCEPT !.uncertain = FALSE], n |-> k]
        BY <3>2 DEF SetUncertain
      <4> HIDE DEF k, q, e
      <4>3. q \in Local
        BY <2>4, <4>1, <4>2 DEF Local, Record
      <4>4. Balanced(e, q)
        <5>1. e.r.uncertain /\ q.n = k /\ q.r = [e.r EXCEPT !.uncertain = FALSE]
          BY <2>4, <3>2, <4>2 DEF Record
        <5> QED
          BY <2>3, <2>4, <4>1, <5>1
             DEF Balanced, One, Reserved, Remaining, Record, Stats, Counters
      <4> QED
        BY <4>1, <4>2, <4>3, <4>4 DEF Counters
    <3> QED
      BY <3>1, <3>2
  <2>9. sure = q
    BY <1>4 DEF m, n
  <2>10. e.r.state = "live" /\ e.r.materialized /\ (e.r.busy => e.r.work = "None")
    BY <1>1, <1>2 DEF Good, WellFormed, Record
  <2> HIDE DEF e, q
  <2>11. Good(q) /\ Balanced(p, q) /\ q.n.active_sends = p.n.active_sends
         /\ q.r.active = p.r.active /\ q.r.busy = p.r.busy
    <3>1. q.r \in Record
      BY <2>8 DEF Local
    <3>2. WellFormed(q.r) /\ q.r.state = "live"
          /\ q.r.active = p.r.active /\ q.r.busy = p.r.busy
      BY <2>4, <2>8, <2>10, <3>1 DEF WellFormed, Record
    <3>3. Balanced(p, q)
      BY <2>4, <2>7, <2>8, BalancedTrans DEF Good
    <3> QED
      BY <2>4, <2>5, <2>8, <3>2, <3>3 DEF Good
  <2>12. /\ Good(RefreshWork(q, failed)) /\ Balanced(q, RefreshWork(q, failed))
         /\ RefreshWork(q, failed).r = [q.r EXCEPT !.work = Desired(q.r, failed)]
         /\ RefreshWork(q, failed).n.active_sends = q.n.active_sends
    BY <2>11, RefreshWorkSound
  <2>13. RefreshWork(q, failed).r.active = q.r.active
         /\ RefreshWork(q, failed).r.busy = q.r.busy
    BY <2>11, <2>12 DEF Good, Local, Record
  <2>14. Balanced(p, RefreshWork(q, failed))
    BY <2>11, <2>12, BalancedTrans DEF Good
  <2> HIDE DEF sure
  <2> QED
    BY <1>3, <2>9, <2>11, <2>12, <2>13, <2>14 DEF Settles, Sound, Good
<1>5. CASE ~(terminal /\ ~seen.r.terminal)
  <2>1. ended = seen
    BY <1>5
  <2> HIDE DEF ended
  <2>2. /\ Good(sure) /\ Balanced(seen, sure)
        /\ sure.n.active_sends = seen.n.active_sends
        /\ sure.r.active = seen.r.active /\ sure.r.busy = seen.r.busy
    <3>1. CASE terminal \/ ~ended.r.close_uncertain
      <4>1. sure = SetUncertain(seen, FALSE)
        BY <2>1, <3>1
      <4> HIDE DEF sure
      <4>2. /\ Good(sure) /\ Balanced(seen, sure)
            /\ sure.r = [seen.r EXCEPT !.uncertain = FALSE]
            /\ sure.n.active_sends = seen.n.active_sends
        BY <1>1, <4>1, SetUncertainSound
      <4> QED
        BY <1>2, <4>2 DEF Record
    <3>2. CASE ~(terminal \/ ~ended.r.close_uncertain)
      <4>1. sure = seen
        BY <2>1, <3>2
      <4> HIDE DEF sure
      <4> QED
        BY <1>1, <4>1 DEF Balanced
    <3> QED
      BY <3>1, <3>2
  <2> HIDE DEF sure
  <2>3. /\ Good(RefreshWork(sure, failed)) /\ Balanced(sure, RefreshWork(sure, failed))
        /\ RefreshWork(sure, failed).r = [sure.r EXCEPT !.work = Desired(sure.r, failed)]
        /\ RefreshWork(sure, failed).n.active_sends = sure.n.active_sends
    BY <2>2, RefreshWorkSound
  <2>4. RefreshWork(sure, failed).r.active = sure.r.active
        /\ RefreshWork(sure, failed).r.busy = sure.r.busy
    BY <2>2, <2>3 DEF Good, Local, Record
  <2>5. Balanced(seen, RefreshWork(sure, failed))
    BY <1>1, <2>2, <2>3, BalancedTrans DEF Good
  <2>6. Balanced(p, RefreshWork(sure, failed))
    BY <1>1, <2>3, <2>5, BalancedTrans DEF Good
  <2> QED
    BY <1>1, <1>3, <2>2, <2>3, <2>4, <2>6 DEF Settles, Sound, Good
<1> QED
  BY <1>4, <1>5

\* endSend() gives back one send and counts what the send has shown.
LEMMA EndSendSound ==
    ASSUME NEW p, Good(p), NEW close \in BOOLEAN, NEW success \in BOOLEAN
    PROVE  LET q == EndSendLocal(p, close, success) IN
           /\ Good(q) /\ Balanced(p, q)
           /\ q.n.active_sends = p.n.active_sends - 1
           /\ q.r.active = p.r.active - 1 /\ q.r.busy = p.r.busy
<1> DEFINE down == [r |-> [p.r EXCEPT !.active = @ - 1],
                    n |-> Add(p.n, "active_sends", -1)]
           q == EndSendLocal(p, close, success)
<1>1. p \in Local /\ p.r \in Record /\ p.n \in Stats
  BY DEF Good, Local
<1>2. -1 \in Int /\ "active_sends" \in Counters
  BY DEF Counters
<1>3. down.n \in Stats /\ down.n.active_sends = p.n.active_sends - 1
      /\ \A k \in Counters \ {"active_sends"} : down.n[k] = p.n[k]
  BY <1>1, <1>2, AddStats
<1>4. /\ down.r = [p.r EXCEPT !.active = @ - 1] /\ down.r \in Record /\ down \in Local
      /\ WellFormed(down.r) /\ down.r.state = "live"
      /\ down.r.active = p.r.active - 1 /\ down.r.busy = p.r.busy
      /\ down.r.terminal = p.r.terminal
  BY <1>1, <1>3 DEF Local, Record, Good, WellFormed
<1>5. Balanced(p, down)
  BY <1>1, <1>3, <1>4
     DEF Balanced, One, Reserved, Remaining, Record, Stats, Counters
<1>6. q = IF success
          THEN IF close THEN MarkCloseSent(Materialize(down)) ELSE Materialize(down)
          ELSE IF p.r.terminal THEN down
          ELSE IF close THEN With(SetUncertain(down, TRUE), "close_uncertain", TRUE)
                        ELSE SetUncertain(down, TRUE)
  BY DEF EndSendLocal
<1> HIDE DEF down, q
<1>7. Good(down)
  BY <1>4 DEF Good
<1> DEFINE goal == /\ Good(q) /\ Balanced(down, q)
                   /\ q.n.active_sends = down.n.active_sends
                   /\ q.r.active = down.r.active /\ q.r.busy = down.r.busy
<1>9. ASSUME success PROVE goal
  <2> DEFINE m == Materialize(down)
  <2>1. /\ Good(m) /\ Balanced(down, m) /\ m.n.active_sends = down.n.active_sends
        /\ m.r = [down.r EXCEPT !.materialized = TRUE]
    BY <1>7, MaterializeSound
  <2> HIDE DEF m
  <2>2. m.r.active = down.r.active /\ m.r.busy = down.r.busy
    BY <1>4, <2>1 DEF Record
  <2>3. CASE ~close
    <3>1. q = m
      BY <1>6, <1>9, <2>3 DEF m
    <3> QED
      BY <2>1, <2>2, <3>1
  <2>4. CASE close
    <3> DEFINE b == With(With(m, "close_sent", TRUE), "close_uncertain", FALSE)
    <3>1. /\ Good(b) /\ Balanced(m, b) /\ b.n = m.n
          /\ b.r.active = m.r.active /\ b.r.busy = m.r.busy
      BY <2>1, WithTwiceSound
    <3> HIDE DEF b
    <3>2. Balanced(down, b)
      BY <1>7, <2>1, <3>1, BalancedTrans DEF Good
    <3>3. q = b
      BY <1>6, <1>9, <2>4 DEF MarkCloseSent, b, m
    <3> QED
      BY <2>1, <2>2, <3>1, <3>2, <3>3
  <2> QED
    BY <2>3, <2>4
<1>10. ASSUME ~success, p.r.terminal PROVE goal
  <2>1. q = down
    BY <1>6, <1>10
  <2> QED
    BY <1>7, <2>1 DEF Balanced
<1>11. ASSUME ~success, ~p.r.terminal PROVE goal
  <2> DEFINE m == SetUncertain(down, TRUE)
  <2>1. /\ Good(m) /\ Balanced(down, m) /\ m.n.active_sends = down.n.active_sends
        /\ m.r = [down.r EXCEPT !.uncertain = TRUE]
    BY <1>4, <1>7, <1>11, SetUncertainSound
  <2> HIDE DEF m
  <2>2. m.r.active = down.r.active /\ m.r.busy = down.r.busy
    BY <1>4, <2>1 DEF Record
  <2>3. CASE ~close
    <3>1. q = m
      BY <1>6, <1>11, <2>3 DEF m
    <3> QED
      BY <2>1, <2>2, <3>1
  <2>4. CASE close
    <3> DEFINE b == With(m, "close_uncertain", TRUE)
    <3>1. /\ Good(b) /\ Balanced(m, b) /\ b.n = m.n
          /\ b.r = [m.r EXCEPT !["close_uncertain"] = TRUE]
      BY <2>1, WithSound
    <3> HIDE DEF b
    <3>2. b.r.active = m.r.active /\ b.r.busy = m.r.busy
      BY <2>1, <3>1 DEF Good, Local, Record
    <3>3. Balanced(down, b)
      BY <1>7, <2>1, <3>1, BalancedTrans DEF Good
    <3>4. q = b
      BY <1>6, <1>11, <2>4 DEF b, m
    <3> QED
      BY <2>1, <2>2, <3>1, <3>2, <3>3, <3>4
  <2> QED
    BY <2>3, <2>4
<1>12. goal
  BY <1>9, <1>10, <1>11
<1>13. Balanced(p, q)
  BY <1>1, <1>4, <1>5, <1>12, BalancedTrans DEF Good
<1> QED
  BY <1>3, <1>4, <1>12, <1>13 DEF q

-----------------------------------------------------------------------------
(***************************************************************************)
(* Committing a pair.                                                      *)
(***************************************************************************)

\* Changing the membership of one element changes a cardinality by at most one.
LEMMA CardinalityStep ==
    ASSUME NEW X, IsFiniteSet(X), NEW S \in SUBSET X, NEW T \in SUBSET X, NEW c \in X,
           \A d \in X \ {c} : d \in S <=> d \in T
    PROVE  /\ Cardinality(S) \in Nat /\ Cardinality(T) \in Nat
           /\ Cardinality(T) - One(c \in T) = Cardinality(S) - One(c \in S)
<1>1. IsFiniteSet(S) /\ IsFiniteSet(T)
  BY FS_Subset
<1>2. Cardinality(S) \in Nat /\ Cardinality(T) \in Nat
  BY <1>1, FS_CardinalityType
<1>3. CASE c \in S /\ c \notin T
  <2>1. T = S \ {c}
    BY <1>3
  <2> QED
    BY <1>1, <1>2, <1>3, <2>1, FS_RemoveElement DEF One
<1>4. CASE c \notin S /\ c \in T
  <2>1. T = S \cup {c}
    BY <1>4
  <2> QED
    BY <1>1, <1>2, <1>4, <2>1, FS_AddElement DEF One
<1>5. CASE c \in S <=> c \in T
  <2>1. S = T
    BY <1>5
  <2> QED
    BY <1>2, <2>1 DEF One
<1> QED
  BY <1>3, <1>4, <1>5

\* A counter that moved by an element's share still counts the set.
LEMMA CounterStep ==
    ASSUME NEW S \in SUBSET Clients, NEW T \in SUBSET Clients, NEW c \in Clients,
           \A d \in Clients \ {c} : d \in S <=> d \in T,
           NEW a \in Int, NEW b \in Int,
           a = Cardinality(S), b - One(c \in T) = a - One(c \in S)
    PROVE  b = Cardinality(T)
  BY CardinalityStep, ClientsFinite DEF One

\* A critical section that commits a Sound pair keeps the counters equal to
\* the numbers of records they stand for, and every record well formed.
LEMMA CommitSound ==
    ASSUME rec \in [Clients -> Record], stats \in Stats,
           \A d \in Clients : WellFormed(rec[d]),
           RecordAccounting,
           NEW c \in Clients, NEW q, Sound(At(c), q), Commit(c, q)
    PROVE  /\ rec' \in [Clients -> Record] /\ stats' \in Stats
           /\ \A d \in Clients : WellFormed(rec[d])'
           /\ RecordAccounting'
           /\ rec'[c] = q.r
           /\ \A d \in Clients \ {c} : rec'[d] = rec[d]
<1>1. q.r \in Record /\ q.n \in Stats /\ WellFormed(q.r)
  BY DEF Sound, Local
<1>2. /\ rec' \in [Clients -> Record] /\ stats' \in Stats
      /\ rec'[c] = q.r /\ stats' = q.n
      /\ \A d \in Clients \ {c} : rec'[d] = rec[d]
  BY <1>1 DEF Commit
<1>3. \A d \in Clients : WellFormed(rec'[d])
  BY <1>1, <1>2
<1>4. \A k \in Counters : stats[k] \in Int /\ stats'[k] \in Int
  BY <1>1, <1>2 DEF Stats
<1>5. stats'.records = Cardinality({d \in Clients : rec'[d].state = "live"})
  <2> DEFINE S == {d \in Clients : rec[d].state = "live"}
             T == {d \in Clients : rec'[d].state = "live"}
  <2>1. \A d \in Clients \ {c} : d \in S <=> d \in T
    BY <1>2
  <2>2. stats.records = Cardinality(S)
    BY DEF RecordAccounting, Live, Queued
  <2>3. stats'.records - One(c \in T) = stats.records - One(c \in S)
    BY <1>2 DEF Sound, Balanced, At, Reserved, Remaining, One
  <2>4. stats.records \in Int /\ stats'.records \in Int
    BY <1>4 DEF Counters
  <2> HIDE DEF S, T
  <2>5. S \in SUBSET Clients /\ T \in SUBSET Clients
    BY DEF S, T
  <2>6. stats'.records = Cardinality(T)
    BY <2>1, <2>2, <2>3, <2>4, <2>5, CounterStep
  <2> QED
    BY <2>6 DEF T
<1>6. stats'.reserved = Cardinality({d \in Clients : rec'[d].state = "live" /\ ~rec'[d].materialized})
  <2> DEFINE S == {d \in Clients : rec[d].state = "live" /\ ~rec[d].materialized}
             T == {d \in Clients : rec'[d].state = "live" /\ ~rec'[d].materialized}
  <2>1. \A d \in Clients \ {c} : d \in S <=> d \in T
    BY <1>2
  <2>2. stats.reserved = Cardinality(S)
    BY DEF RecordAccounting, Live, Queued
  <2>3. stats'.reserved - One(c \in T) = stats.reserved - One(c \in S)
    BY <1>2 DEF Sound, Balanced, At, Reserved, Remaining, One
  <2>4. stats.reserved \in Int /\ stats'.reserved \in Int
    BY <1>4 DEF Counters
  <2> HIDE DEF S, T
  <2>5. S \in SUBSET Clients /\ T \in SUBSET Clients
    BY DEF S, T
  <2>6. stats'.reserved = Cardinality(T)
    BY <2>1, <2>2, <2>3, <2>4, <2>5, CounterStep
  <2> QED
    BY <2>6 DEF T
<1>7. stats'.remaining = Cardinality({d \in Clients : rec'[d].materialized /\ ~rec'[d].terminal})
  <2> DEFINE S == {d \in Clients : rec[d].materialized /\ ~rec[d].terminal}
             T == {d \in Clients : rec'[d].materialized /\ ~rec'[d].terminal}
  <2>1. \A d \in Clients \ {c} : d \in S <=> d \in T
    BY <1>2
  <2>2. stats.remaining = Cardinality(S)
    BY DEF RecordAccounting, Live, Queued
  <2>3. stats'.remaining - One(c \in T) = stats.remaining - One(c \in S)
    BY <1>2 DEF Sound, Balanced, At, Reserved, Remaining, One
  <2>4. stats.remaining \in Int /\ stats'.remaining \in Int
    BY <1>4 DEF Counters
  <2> HIDE DEF S, T
  <2>5. S \in SUBSET Clients /\ T \in SUBSET Clients
    BY DEF S, T
  <2>6. stats'.remaining = Cardinality(T)
    BY <2>1, <2>2, <2>3, <2>4, <2>5, CounterStep
  <2> QED
    BY <2>6 DEF T
<1>8. stats'.uncertain = Cardinality({d \in Clients : rec'[d].uncertain})
  <2> DEFINE S == {d \in Clients : rec[d].uncertain}
             T == {d \in Clients : rec'[d].uncertain}
  <2>1. \A d \in Clients \ {c} : d \in S <=> d \in T
    BY <1>2
  <2>2. stats.uncertain = Cardinality(S)
    BY DEF RecordAccounting, Live, Queued
  <2>3. stats'.uncertain - One(c \in T) = stats.uncertain - One(c \in S)
    BY <1>2 DEF Sound, Balanced, At, Reserved, Remaining, One
  <2>4. stats.uncertain \in Int /\ stats'.uncertain \in Int
    BY <1>4 DEF Counters
  <2> HIDE DEF S, T
  <2>5. S \in SUBSET Clients /\ T \in SUBSET Clients
    BY DEF S, T
  <2>6. stats'.uncertain = Cardinality(T)
    BY <2>1, <2>2, <2>3, <2>4, <2>5, CounterStep
  <2> QED
    BY <2>6 DEF T
<1>9. stats'.terminal_records = Cardinality({d \in Clients : rec'[d].terminal})
  <2> DEFINE S == {d \in Clients : rec[d].terminal}
             T == {d \in Clients : rec'[d].terminal}
  <2>1. \A d \in Clients \ {c} : d \in S <=> d \in T
    BY <1>2
  <2>2. stats.terminal_records = Cardinality(S)
    BY DEF RecordAccounting, Live, Queued
  <2>3. stats'.terminal_records - One(c \in T) = stats.terminal_records - One(c \in S)
    BY <1>2 DEF Sound, Balanced, At, Reserved, Remaining, One
  <2>4. stats.terminal_records \in Int /\ stats'.terminal_records \in Int
    BY <1>4 DEF Counters
  <2> HIDE DEF S, T
  <2>5. S \in SUBSET Clients /\ T \in SUBSET Clients
    BY DEF S, T
  <2>6. stats'.terminal_records = Cardinality(T)
    BY <2>1, <2>2, <2>3, <2>4, <2>5, CounterStep
  <2> QED
    BY <2>6 DEF T
<1>10. stats'.notification_work = Cardinality({d \in Clients : rec'[d].work = "Notify"})
  <2> DEFINE S == {d \in Clients : rec[d].work = "Notify"}
             T == {d \in Clients : rec'[d].work = "Notify"}
  <2>1. \A d \in Clients \ {c} : d \in S <=> d \in T
    BY <1>2
  <2>2. stats.notification_work = Cardinality(S)
    BY DEF RecordAccounting, Live, Queued
  <2>3. stats'.notification_work - One(c \in T) = stats.notification_work - One(c \in S)
    BY <1>2 DEF Sound, Balanced, At, Reserved, Remaining, One
  <2>4. stats.notification_work \in Int /\ stats'.notification_work \in Int
    BY <1>4 DEF Counters
  <2> HIDE DEF S, T
  <2>5. S \in SUBSET Clients /\ T \in SUBSET Clients
    BY DEF S, T
  <2>6. stats'.notification_work = Cardinality(T)
    BY <2>1, <2>2, <2>3, <2>4, <2>5, CounterStep
  <2> QED
    BY <2>6 DEF T
<1>11. stats'.close_work = Cardinality({d \in Clients : rec'[d].work = "Close"})
  <2> DEFINE S == {d \in Clients : rec[d].work = "Close"}
             T == {d \in Clients : rec'[d].work = "Close"}
  <2>1. \A d \in Clients \ {c} : d \in S <=> d \in T
    BY <1>2
  <2>2. stats.close_work = Cardinality(S)
    BY DEF RecordAccounting, Live, Queued
  <2>3. stats'.close_work - One(c \in T) = stats.close_work - One(c \in S)
    BY <1>2 DEF Sound, Balanced, At, Reserved, Remaining, One
  <2>4. stats.close_work \in Int /\ stats'.close_work \in Int
    BY <1>4 DEF Counters
  <2> HIDE DEF S, T
  <2>5. S \in SUBSET Clients /\ T \in SUBSET Clients
    BY DEF S, T
  <2>6. stats'.close_work = Cardinality(T)
    BY <2>1, <2>2, <2>3, <2>4, <2>5, CounterStep
  <2> QED
    BY <2>6 DEF T
<1> QED
  BY <1>2, <1>3, <1>5, <1>6, <1>7, <1>8, <1>9, <1>10, <1>11
     DEF RecordAccounting, Live, Queued

-----------------------------------------------------------------------------
(***************************************************************************)
(* The invariant.  Accounting alone is not inductive: that a retirement    *)
(* gives back every share of a record needs WellFormed, that the record a  *)
(* send or the drain returns to still exists needs the pins, and that a    *)
(* registration is a fresh identity needs Handles.                         *)
(***************************************************************************)
Inv ==
    /\ TypeOK
    /\ Handles
    /\ \A c \in Clients : WellFormed(rec[c])
    /\ Accounting
    /\ SendsPinRecords
    /\ BusyPinned

\* A live record of a reachable ledger meets the precondition of the local lemmas.
LEMMA LiveGood ==
    ASSUME Inv, NEW c \in Clients, Live(c)
    PROVE  Good(At(c))
  BY DEF Inv, TypeOK, Good, Local, At, Live

\* A record with a send in flight is live.
LEMMA SenderPins ==
    ASSUME Inv, NEW s \in Senders, sender[s] # Idle
    PROVE  /\ sender[s].client \in Clients
           /\ rec[sender[s].client].active # 0
           /\ Live(sender[s].client)
<1> DEFINE c == sender[s].client
           S == {t \in Senders : sender[t].client = c}
<1>1. c \in Clients
  BY DEF Inv, Handles, TypeOK
<1>2. IsFiniteSet(S)
  BY SendersFinite, FS_Subset
<1>3. Cardinality(S) # 0
  BY <1>2, FS_EmptySet
<1>4. rec[c].active = Cardinality(S)
  BY <1>1 DEF Inv, SendsPinRecords
<1>5. WellFormed(rec[c])
  BY <1>1 DEF Inv
<1>6. rec[c].state = "live"
  BY <1>3, <1>4, <1>5 DEF WellFormed, Blank
<1> QED
  BY <1>1, <1>3, <1>4, <1>6 DEF Live

\* A critical section that settles one record and leaves the sends alone.
LEMMA KeepStep ==
    ASSUME Inv, NEW c \in Clients, NEW q, Settles(At(c), q), Commit(c, q),
           UNCHANGED <<sender, invariantBroken>>
    PROVE  /\ rec' \in [Clients -> Record] /\ stats' \in Stats
           /\ \A d \in Clients : WellFormed(rec[d])'
           /\ Accounting' /\ SendsPinRecords'
           /\ \A d \in Clients : rec'[d].busy = rec[d].busy
           /\ \A d \in Clients \ {c} : rec'[d] = rec[d]
           /\ rec'[c] = q.r
<1>1. /\ rec' \in [Clients -> Record] /\ stats' \in Stats
      /\ \A d \in Clients : WellFormed(rec[d])'
      /\ RecordAccounting'
      /\ rec'[c] = q.r
      /\ \A d \in Clients \ {c} : rec'[d] = rec[d]
  BY CommitSound DEF Inv, TypeOK, Accounting, Settles
<1>2. \A d \in Clients : rec'[d].busy = rec[d].busy /\ rec'[d].active = rec[d].active
  BY <1>1 DEF Settles, At
<1>3. stats'.active_sends = stats.active_sends
  BY DEF Settles, At, Commit
<1>4. Accounting'
  BY <1>1, <1>3 DEF Inv, Accounting
<1>5. SendsPinRecords'
  BY <1>2 DEF Inv, SendsPinRecords
<1> QED
  BY <1>1, <1>2, <1>4, <1>5

\* BusyPinned once the pins are known: the rest is in WellFormed.
LEMMA BusyFromPins ==
    ASSUME \A d \in Clients : WellFormed(rec'[d]),
           \A d \in Clients : rec'[d].busy <=> (worker'.pc \in {"work", "finish"}
                                                 /\ worker'.client = d)
    PROVE  BusyPinned'
<1> SUFFICES ASSUME NEW d \in Clients, rec'[d].busy
             PROVE  rec'[d].state = "live" /\ rec'[d].work = "None"
  BY DEF BusyPinned, Live
<1>1. WellFormed(rec'[d])
  OBVIOUS
<1> QED
  BY <1>1 DEF WellFormed, Blank

\* The steps that change neither the ledger's records nor its sends.
LEMMA IdleStep ==
    ASSUME Inv, UNCHANGED <<rec, stats, sender, invariantBroken>>,
           TypeOK', Handles',
           \A d \in Clients : (worker.pc \in {"work", "finish"} /\ worker.client = d)
                          <=> (worker'.pc \in {"work", "finish"} /\ worker'.client = d)
    PROVE  Inv'
<1>1. \A c \in Clients : WellFormed(rec[c])'
  BY DEF Inv
<1>2. Accounting' /\ SendsPinRecords'
  BY DEF Inv, Accounting, RecordAccounting, SendsPinRecords, Live, Queued
<1>3. BusyPinned'
  BY <1>1, BusyFromPins DEF Inv, BusyPinned
<1> QED
  BY <1>1, <1>2, <1>3 DEF Inv

\* A step that settles the record of one live client.
LEMMA SettleStep ==
    ASSUME Inv, NEW c \in Clients, Live(c), NEW q, Settles(At(c), q), Commit(c, q),
           UNCHANGED <<phase, failed, invariantBroken, sender, engineFailed>>,
           worker' \in [pc : WorkerPc, client : Clients \cup {NoClient},
                        work : {"None", "Close", "Notify"}],
           owner' \in [Clients -> [state : {"none", "creating", "open", "gone"},
                                   shutdown : Nat]],
           td' \in [Clients -> [actor : {"none", "open", "terminating", "closed"},
                                closes : Nat, rejected : Nat, refused : BOOLEAN]],
           \A d \in Clients : (owner'[d].state = "none") <=> (owner[d].state = "none"),
           worker'.pc \in {"ack", "work", "finish"} => worker'.client \in Clients,
           worker'.pc \in {"wait", "pick", "poll", "work", "finish"} => failed,
           worker'.pc # "failed" \/ worker.pc = "failed",
           \A d \in Clients : (worker.pc \in {"work", "finish"} /\ worker.client = d)
                          <=> (worker'.pc \in {"work", "finish"} /\ worker'.client = d)
    PROVE  Inv'
<1>1. /\ rec' \in [Clients -> Record] /\ stats' \in Stats
      /\ \A d \in Clients : WellFormed(rec[d])'
      /\ Accounting' /\ SendsPinRecords'
      /\ \A d \in Clients : rec'[d].busy = rec[d].busy
      /\ \A d \in Clients \ {c} : rec'[d] = rec[d]
  BY KeepStep
<1>2. TypeOK'
  BY <1>1 DEF Inv, TypeOK
<1>3. Handles'
  BY <1>1 DEF Inv, Handles, Live
<1>4. BusyPinned'
  BY <1>1, BusyFromPins DEF Inv, BusyPinned
<1> QED
  BY <1>1, <1>2, <1>3, <1>4 DEF Inv

-----------------------------------------------------------------------------
(***************************************************************************)
(* One lemma per kind of step.                                             *)
(***************************************************************************)

\* The empty ledger satisfies the invariant.
LEMMA InitInv == Init => Inv
<1> SUFFICES ASSUME Init PROVE Inv
  OBVIOUS
<1>1. Blank("unknown") \in Record /\ WellFormed(Blank("unknown"))
  BY DEF Blank, Record, WellFormed
<1>2. TypeOK
  <2>1. rec \in [Clients -> Record] /\ stats \in Stats
    BY <1>1 DEF Init, Stats
  <2>2. worker \in [pc : WorkerPc, client : Clients \cup {NoClient},
                   work : {"None", "Close", "Notify"}]
    BY DEF Init, WorkerPc
  <2>3. /\ sender \in [Senders -> [client : Clients \cup {NoClient},
                                   close : BOOLEAN, delivered : BOOLEAN]]
        /\ owner \in [Clients -> [state : {"none", "creating", "open", "gone"},
                                  shutdown : Nat]]
        /\ td \in [Clients -> [actor : {"none", "open", "terminating", "closed"},
                               closes : Nat, rejected : Nat, refused : BOOLEAN]]
    BY DEF Init, Idle
  <2> QED
    BY <2>1, <2>2, <2>3 DEF Init, TypeOK
<1>3. Handles
  BY DEF Init, Handles, Blank, Idle
<1>4. \A c \in Clients : WellFormed(rec[c])
  BY <1>1 DEF Init
<1>5. Accounting
  <2>1. /\ {c \in Clients : Live(c)} = {}
        /\ {c \in Clients : Live(c) /\ ~rec[c].materialized} = {}
        /\ {c \in Clients : rec[c].materialized /\ ~rec[c].terminal} = {}
        /\ {c \in Clients : rec[c].uncertain} = {}
        /\ {c \in Clients : rec[c].terminal} = {}
        /\ Queued("Notify") = {} /\ Queued("Close") = {}
    BY DEF Init, Blank, Live, Queued
  <2>2. {s \in Senders : sender[s] # Idle} = {}
    BY DEF Init
  <2>3. \A k \in Counters : stats[k] = 0
    BY DEF Init
  <2> QED
    BY <2>1, <2>2, <2>3, FS_EmptySet DEF Accounting, RecordAccounting, Counters
<1>6. SendsPinRecords
  <2>1. ASSUME NEW c \in Clients
        PROVE  {s \in Senders : sender[s].client = c} = {}
    BY NoClientAssumption DEF Init, Idle
  <2> QED
    BY <2>1, FS_EmptySet DEF SendsPinRecords, Init, Blank
<1>7. BusyPinned
  BY DEF Init, BusyPinned, Blank
<1> QED
  BY <1>2, <1>3, <1>4, <1>5, <1>6, <1>7 DEF Inv

\* registerClient() creates one reserved record.
LEMMA RegisterInv ==
    ASSUME Inv, NEW c \in Clients, RegisterClient(c)
    PROVE  Inv'
<1> DEFINE m == Add(stats, "records", 1)
           n == Add(m, "reserved", 1)
           q == [r |-> Blank("live"), n |-> n]
<1>1. rec[c] = Blank("unknown") /\ stats \in Stats /\ rec[c] \in Record
  BY DEF Inv, TypeOK, Handles, WellFormed, RegisterClient
<1>2. 1 \in Int /\ {"records", "reserved"} \subseteq Counters
  BY DEF Counters
<1>3. m \in Stats /\ m.records = stats.records + 1
      /\ \A k \in Counters \ {"records"} : m[k] = stats[k]
  BY <1>1, <1>2, AddStats
<1> HIDE DEF m
<1>4. n \in Stats /\ n.reserved = m.reserved + 1
      /\ \A k \in Counters \ {"reserved"} : n[k] = m[k]
  BY <1>2, <1>3, AddStats
<1>5. Commit(c, q)
  BY DEF RegisterClient, Commit, m
<1> HIDE DEF n
<1>6. Blank("live") \in Record /\ WellFormed(Blank("live"))
  BY DEF Blank, Record, WellFormed
<1>7. q \in Local
  BY <1>4, <1>6 DEF Local
<1>8. Balanced(At(c), q)
  BY <1>1, <1>3, <1>4
     DEF Balanced, One, Reserved, Remaining, At, Blank, Stats, Counters
<1>9. Settles(At(c), q)
  <2>1. n.active_sends = stats.active_sends
    BY <1>3, <1>4 DEF Counters
  <2>2. Blank("live").active = Blank("unknown").active
        /\ Blank("live").busy = Blank("unknown").busy
    BY DEF Blank
  <2> QED
    BY <1>1, <1>6, <1>7, <1>8, <2>1, <2>2 DEF Settles, Sound, At
<1> HIDE DEF q
<1>10. /\ rec' \in [Clients -> Record] /\ stats' \in Stats
       /\ \A d \in Clients : WellFormed(rec[d])'
       /\ Accounting' /\ SendsPinRecords'
       /\ \A d \in Clients : rec'[d].busy = rec[d].busy
       /\ \A d \in Clients \ {c} : rec'[d] = rec[d]
  BY <1>5, <1>9, KeepStep DEF RegisterClient
<1>11. TypeOK' /\ Handles'
  BY <1>10 DEF Inv, TypeOK, Handles, RegisterClient
<1>12. BusyPinned'
  BY <1>10, BusyFromPins DEF Inv, BusyPinned, RegisterClient
<1> QED
  BY <1>10, <1>11, <1>12 DEF Inv

\* retireUnused() and retireReserved() settle a record the owner gives back.
LEMMA RetireInv ==
    ASSUME Inv, NEW c \in Clients, RetireUnused(c) \/ RetireReserved(c)
    PROVE  Inv'
<1>1. /\ owner' = [owner EXCEPT ![c].state = "gone"] /\ owner[c].state # "none"
      /\ UNCHANGED <<phase, failed, invariantBroken, worker, sender, engineFailed, td>>
      /\ (Live(c) /\ NotifyAndRetire(c)) \/ UNCHANGED <<rec, stats>>
  BY DEF RetireUnused, RetireReserved
<1>2. /\ owner' \in [Clients -> [state : {"none", "creating", "open", "gone"},
                                 shutdown : Nat]]
      /\ \A d \in Clients : (owner'[d].state = "none") <=> (owner[d].state = "none")
  BY <1>1 DEF Inv, TypeOK
<1>3. CASE Live(c) /\ NotifyAndRetire(c)
  <2>1. Settles(At(c), RetireIfReady(RefreshWork(With(At(c), "notified", TRUE), failed)))
    BY <1>3, LiveGood, NotifySound DEF Inv, TypeOK
  <2>2. Commit(c, RetireIfReady(RefreshWork(With(At(c), "notified", TRUE), failed)))
    BY <1>3 DEF NotifyAndRetire
  <2>3. /\ UNCHANGED <<phase, failed, invariantBroken, sender, engineFailed>>
        /\ worker' = worker /\ td' = td
    BY <1>1
  <2>4. /\ worker' \in [pc : WorkerPc, client : Clients \cup {NoClient},
                        work : {"None", "Close", "Notify"}]
        /\ td' \in [Clients -> [actor : {"none", "open", "terminating", "closed"},
                                closes : Nat, rejected : Nat, refused : BOOLEAN]]
        /\ worker'.pc \in {"ack", "work", "finish"} => worker'.client \in Clients
        /\ worker'.pc \in {"wait", "pick", "poll", "work", "finish"} => failed
        /\ worker'.pc # "failed" \/ worker.pc = "failed"
    BY <2>3 DEF Inv, TypeOK, Handles
  <2> QED
    BY <1>2, <1>3, <2>1, <2>2, <2>3, <2>4, SettleStep
<1>4. CASE UNCHANGED <<rec, stats>>
  <2>1. TypeOK' /\ Handles'
    BY <1>1, <1>2, <1>4 DEF Inv, TypeOK, Handles
  <2> QED
    BY <1>1, <1>4, <2>1, IdleStep
<1> QED
  BY <1>1, <1>3, <1>4

\* The sends in flight in the table f, and those of one client.
InFlight(f) == {t \in Senders : f[t] # Idle}
InFlightOf(f, c) == {t \in Senders : f[t].client = c}

\* The sends are counted once in the totals and once in their record.
LEMMA SendCount ==
    ASSUME Inv, NEW s \in Senders, NEW x, sender' = [sender EXCEPT ![s] = x]
    PROVE  /\ Cardinality(InFlight(sender')) - One(x # Idle)
                = Cardinality(InFlight(sender)) - One(sender[s] # Idle)
           /\ Cardinality(InFlight(sender')) \in Nat
           /\ Cardinality(InFlight(sender)) \in Nat
<1>1. sender'[s] = x /\ \A t \in Senders \ {s} : sender'[t] = sender[t]
  BY DEF Inv, TypeOK
<1> DEFINE S == InFlight(sender)
           T == InFlight(sender')
<1>2. /\ S \in SUBSET Senders /\ T \in SUBSET Senders
      /\ \A t \in Senders \ {s} : t \in S <=> t \in T
      /\ (s \in T) = (x # Idle) /\ (s \in S) = (sender[s] # Idle)
  BY <1>1 DEF InFlight
<1> HIDE DEF S, T
<1>3. Cardinality(T) - One(s \in T) = Cardinality(S) - One(s \in S)
      /\ Cardinality(S) \in Nat /\ Cardinality(T) \in Nat
  BY <1>2, CardinalityStep, SendersFinite
<1>4. Cardinality(T) - One(x # Idle) = Cardinality(S) - One(sender[s] # Idle)
  BY <1>2, <1>3
<1> QED
  BY <1>3, <1>4 DEF S, T

\* A sender that moves changes the sends in flight of its own clients only.
LEMMA ClientSendCount ==
    ASSUME Inv, NEW s \in Senders, NEW x, sender' = [sender EXCEPT ![s] = x],
           NEW c \in Clients
    PROVE  /\ Cardinality(InFlightOf(sender', c)) - One(x.client = c)
                = Cardinality(InFlightOf(sender, c)) - One(sender[s].client = c)
           /\ Cardinality(InFlightOf(sender', c)) \in Nat
           /\ Cardinality(InFlightOf(sender, c)) \in Nat
<1>1. sender'[s] = x /\ \A t \in Senders \ {s} : sender'[t] = sender[t]
  BY DEF Inv, TypeOK
<1> DEFINE S == InFlightOf(sender, c)
           T == InFlightOf(sender', c)
<1>2. /\ S \in SUBSET Senders /\ T \in SUBSET Senders
      /\ \A t \in Senders \ {s} : t \in S <=> t \in T
      /\ (s \in T) = (x.client = c) /\ (s \in S) = (sender[s].client = c)
  BY <1>1 DEF InFlightOf
<1> HIDE DEF S, T
<1>3. Cardinality(T) - One(s \in T) = Cardinality(S) - One(s \in S)
      /\ Cardinality(S) \in Nat /\ Cardinality(T) \in Nat
  BY <1>2, CardinalityStep, SendersFinite
<1>4. Cardinality(T) - One(x.client = c) = Cardinality(S) - One(sender[s].client = c)
  BY <1>2, <1>3
<1> QED
  BY <1>3, <1>4 DEF S, T

\* beginSend() pins the record and counts the send.
LEMMA BeginSendInv ==
    ASSUME Inv, NEW s \in Senders, NEW c \in Clients, NEW close \in BOOLEAN,
           BeginSend(s, c, close)
    PROVE  Inv'
<1> DEFINE x == [client |-> c, close |-> close, delivered |-> FALSE]
           n == Add(stats, "active_sends", 1)
           q == [r |-> [rec[c] EXCEPT !.active = @ + 1], n |-> n]
<1>1. Good(At(c)) /\ rec[c] \in Record /\ stats \in Stats
  BY LiveGood DEF BeginSend, Inv, TypeOK
<1>2. n \in Stats /\ n.active_sends = stats.active_sends + 1
      /\ \A k \in Counters \ {"active_sends"} : n[k] = stats[k]
  <2>1. 1 \in Int /\ "active_sends" \in Counters
    BY DEF Counters
  <2> QED
    BY <1>1, <2>1, AddStats
<1>3. Commit(c, q)
  BY <1>1 DEF BeginSend, Commit, Inv, TypeOK
<1> HIDE DEF n
<1>4. /\ q.r \in Record /\ q \in Local /\ WellFormed(q.r)
      /\ q.r.active = rec[c].active + 1 /\ q.r.busy = rec[c].busy
  BY <1>1, <1>2 DEF Local, Record, Good, WellFormed, At
<1>5. Balanced(At(c), q)
  BY <1>1, <1>2 DEF Balanced, One, Reserved, Remaining, At, Record, Stats, Counters
<1>6. Sound(At(c), q)
  BY <1>4, <1>5 DEF Sound
<1> HIDE DEF q
<1>7. /\ rec' \in [Clients -> Record] /\ stats' \in Stats
      /\ \A d \in Clients : WellFormed(rec[d])'
      /\ RecordAccounting' /\ rec'[c] = q.r
      /\ \A d \in Clients \ {c} : rec'[d] = rec[d]
  BY <1>3, <1>6, CommitSound DEF Inv, TypeOK, Accounting
<1>8. stats'.active_sends = stats.active_sends + 1
  BY <1>2 DEF BeginSend, n
<1>9. /\ x \in [client : Clients \cup {NoClient}, close : BOOLEAN, delivered : BOOLEAN]
      /\ x.client = c /\ x # Idle /\ (x.client = NoClient => x = Idle)
      /\ sender' = [sender EXCEPT ![s] = x] /\ sender[s] = Idle
      /\ sender[s].client = NoClient
  BY NoClientAssumption DEF BeginSend, Idle
<1> HIDE DEF x
<1>10. Accounting'
  <2>1. /\ Cardinality(InFlight(sender')) - One(x # Idle)
             = Cardinality(InFlight(sender)) - One(sender[s] # Idle)
        /\ Cardinality(InFlight(sender')) \in Nat
        /\ Cardinality(InFlight(sender)) \in Nat
    BY <1>9, SendCount
  <2>2. One(x # Idle) = 1 /\ One(sender[s] # Idle) = 0
    BY <1>1, <1>9 DEF One
  <2>3. stats.active_sends = Cardinality(InFlight(sender))
    BY DEF Inv, Accounting, InFlight
  <2>4. stats'.active_sends = Cardinality(InFlight(sender'))
    BY <1>8, <2>1, <2>2, <2>3
  <2> QED
    BY <1>7, <2>4 DEF Accounting, InFlight
<1>11. SendsPinRecords'
  <2>1. ASSUME NEW d \in Clients
        PROVE  rec'[d].active = Cardinality(InFlightOf(sender', d))
    <3>1. /\ Cardinality(InFlightOf(sender', d)) - One(x.client = d)
               = Cardinality(InFlightOf(sender, d)) - One(sender[s].client = d)
          /\ Cardinality(InFlightOf(sender', d)) \in Nat
          /\ Cardinality(InFlightOf(sender, d)) \in Nat
      BY <1>9, ClientSendCount
    <3>2. rec[d].active = Cardinality(InFlightOf(sender, d))
      BY DEF Inv, SendsPinRecords, InFlightOf
    <3>3. rec'[d].active = rec[d].active + One(d = c)
      BY <1>4, <1>7, <3>1, <3>2 DEF One
    <3> QED
      BY <1>9, <3>1, <3>2, <3>3, NoClientAssumption DEF One
  <2> QED
    BY <2>1 DEF SendsPinRecords, Inv, BeginSend, InFlightOf
<1>12. TypeOK' /\ Handles'
  <2>1. sender' \in [Senders -> [client : Clients \cup {NoClient},
                                 close : BOOLEAN, delivered : BOOLEAN]]
    BY <1>9 DEF Inv, TypeOK
  <2>2. owner' \in [Clients -> [state : {"none", "creating", "open", "gone"},
                                shutdown : Nat]]
        /\ \A d \in Clients : owner'[d].state = owner[d].state
    BY DEF Inv, TypeOK, BeginSend
  <2>3. \A t \in Senders : sender'[t].client = NoClient => sender'[t] = Idle
    BY <1>9 DEF Inv, Handles, TypeOK
  <2>4. \A d \in Clients : owner'[d].state = "none" => rec'[d].state = "unknown"
    BY <1>7, <2>2 DEF Inv, Handles, BeginSend
  <2> QED
    BY <1>7, <2>1, <2>2, <2>3, <2>4 DEF Inv, TypeOK, Handles, BeginSend
<1>13. BusyPinned'
  <2>1. \A d \in Clients : rec'[d].busy = rec[d].busy
    BY <1>4, <1>7
  <2> QED
    BY <1>7, <2>1, BusyFromPins DEF Inv, BusyPinned, BeginSend
<1> QED
  BY <1>7, <1>10, <1>11, <1>12, <1>13 DEF Inv

\* endSend() unpins the record, and retires it when nothing else holds it.
LEMMA EndSendInv ==
    ASSUME Inv, NEW s \in Senders, NEW success \in BOOLEAN, EndSend(s, success)
    PROVE  Inv'
<1> DEFINE c == sender[s].client
           close == sender[s].close
           e == EndSendLocal(At(c), close, success)
           q == RetireIfReady(RefreshWork(e, failed))
<1>1. c \in Clients /\ rec[c].active # 0 /\ Live(c) /\ sender[s] # Idle
  BY SenderPins DEF EndSend
<1>2. Commit(c, q) /\ UNCHANGED <<phase, invariantBroken, failed, worker, owner,
                                  engineFailed, td>>
      /\ sender' = [sender EXCEPT ![s] = Idle]
  BY <1>1 DEF EndSend
<1>3. Good(At(c)) /\ close \in BOOLEAN /\ failed \in BOOLEAN
  BY <1>1, LiveGood DEF Inv, TypeOK
<1>4. /\ Good(e) /\ Balanced(At(c), e)
      /\ e.n.active_sends = stats.active_sends - 1
      /\ e.r.active = rec[c].active - 1 /\ e.r.busy = rec[c].busy
  BY <1>3, EndSendSound, ZenonT(40) DEF At
<1> HIDE DEF e
<1>5. Settles(e, q)
  BY <1>3, <1>4, FinishSound
<1> HIDE DEF q
<1>6. Sound(At(c), q) /\ q.n.active_sends = stats.active_sends - 1
      /\ q.r.active = rec[c].active - 1 /\ q.r.busy = rec[c].busy
  BY <1>3, <1>4, <1>5, BalancedTrans DEF Settles, Sound, Good
<1>7. /\ rec' \in [Clients -> Record] /\ stats' \in Stats
      /\ \A d \in Clients : WellFormed(rec[d])'
      /\ RecordAccounting' /\ rec'[c] = q.r
      /\ \A d \in Clients \ {c} : rec'[d] = rec[d]
  BY <1>1, <1>2, <1>6, CommitSound DEF Inv, TypeOK, Accounting
<1>8. stats'.active_sends = stats.active_sends - 1
  BY <1>2, <1>6 DEF Commit
<1>9. /\ Idle \in [client : Clients \cup {NoClient}, close : BOOLEAN, delivered : BOOLEAN]
      /\ Idle.client = NoClient /\ c # NoClient
  BY <1>1, NoClientAssumption DEF Idle
<1>10. Accounting'
  <2>1. /\ Cardinality(InFlight(sender')) - One(Idle # Idle)
             = Cardinality(InFlight(sender)) - One(sender[s] # Idle)
        /\ Cardinality(InFlight(sender')) \in Nat
        /\ Cardinality(InFlight(sender)) \in Nat
    BY <1>2, <1>9, SendCount
  <2>2. One(Idle # Idle) = 0 /\ One(sender[s] # Idle) = 1
    BY <1>1, <1>9 DEF One
  <2>3. stats.active_sends = Cardinality(InFlight(sender))
    BY DEF Inv, Accounting, InFlight
  <2>4. stats'.active_sends = Cardinality(InFlight(sender'))
    BY <1>8, <2>1, <2>2, <2>3
  <2> QED
    BY <1>7, <2>4 DEF Accounting, InFlight
<1>11. SendsPinRecords'
  <2>1. ASSUME NEW d \in Clients
        PROVE  rec'[d].active = Cardinality(InFlightOf(sender', d))
    <3>1. /\ Cardinality(InFlightOf(sender', d)) - One(Idle.client = d)
               = Cardinality(InFlightOf(sender, d)) - One(sender[s].client = d)
          /\ Cardinality(InFlightOf(sender', d)) \in Nat
          /\ Cardinality(InFlightOf(sender, d)) \in Nat
      BY <1>2, <1>9, ClientSendCount
    <3>2. rec[d].active = Cardinality(InFlightOf(sender, d))
      BY DEF Inv, SendsPinRecords, InFlightOf
    <3>3. rec'[d].active = rec[d].active - One(d = c)
      BY <1>6, <1>7, <3>1, <3>2 DEF One
    <3> QED
      BY <1>9, <3>1, <3>2, <3>3, NoClientAssumption DEF One
  <2> QED
    BY <1>2, <2>1 DEF SendsPinRecords, Inv, InFlightOf
<1>12. TypeOK' /\ Handles'
  <2>1. sender' \in [Senders -> [client : Clients \cup {NoClient},
                                 close : BOOLEAN, delivered : BOOLEAN]]
    BY <1>2, <1>9 DEF Inv, TypeOK
  <2>2. \A t \in Senders : sender'[t].client = NoClient => sender'[t] = Idle
    BY <1>2 DEF Inv, Handles, TypeOK
  <2>3. \A d \in Clients : owner'[d].state = "none" => rec'[d].state = "unknown"
    BY <1>1, <1>2, <1>7 DEF Inv, Handles, Live
  <2> QED
    BY <1>2, <1>7, <2>1, <2>2, <2>3 DEF Inv, TypeOK, Handles
<1>13. BusyPinned'
  <2>1. \A d \in Clients : rec'[d].busy = rec[d].busy
    BY <1>6, <1>7
  <2> QED
    BY <1>2, <1>7, <2>1, BusyFromPins DEF Inv, BusyPinned
<1> QED
  BY <1>7, <1>10, <1>11, <1>12, <1>13 DEF Inv

\* Steps of the owner, of TDLib and of the worker that leave the ledger alone.
LEMMA PublishInv ==
    ASSUME Inv, NEW c \in Clients, PublishClient(c)
    PROVE  Inv'
<1>1. owner' \in [Clients -> [state : {"none", "creating", "open", "gone"},
                              shutdown : Nat]]
      /\ \A d \in Clients : owner'[d].state = "none" => owner[d].state = "none"
  BY DEF Inv, TypeOK, PublishClient
<1>2. TypeOK' /\ Handles'
  BY <1>1 DEF Inv, TypeOK, Handles, PublishClient
<1> QED
  BY <1>2, IdleStep DEF PublishClient

\* What TDLib accepts keeps the type of its state.
LEMMA TdAcceptType ==
    ASSUME Inv, NEW c \in Clients, NEW close \in BOOLEAN, TdAccept(c, close)
    PROVE  td' \in [Clients -> [actor : {"none", "open", "terminating", "closed"},
                                closes : Nat, rejected : Nat, refused : BOOLEAN]]
<1>1. td[c] \in [actor : {"none", "open", "terminating", "closed"},
                 closes : Nat, rejected : Nat, refused : BOOLEAN]
  BY DEF Inv, TypeOK
<1>2. td[c].closes + 1 \in Nat
  BY <1>1
<1> DEFINE x == IF td[c].actor = "closed" THEN td[c]
                ELSE [actor |-> IF td[c].actor = "none" THEN "open" ELSE td[c].actor,
                      closes |-> IF close THEN td[c].closes + 1 ELSE td[c].closes,
                      rejected |-> td[c].rejected, refused |-> td[c].refused]
<1>3. x \in [actor : {"none", "open", "terminating", "closed"},
             closes : Nat, rejected : Nat, refused : BOOLEAN]
  BY <1>1, <1>2
<1>4. td' = [td EXCEPT ![c] = x]
  BY DEF TdAccept
<1> HIDE DEF x
<1> QED
  BY <1>3, <1>4 DEF Inv, TypeOK

\* TDLib takes a request of a sender.
LEMMA TdSendInv ==
    ASSUME Inv, NEW s \in Senders, TdSend(s)
    PROVE  Inv'
<1> DEFINE x == [sender[s] EXCEPT !.delivered = TRUE]
<1>1. sender[s].client \in Clients /\ sender[s].close \in BOOLEAN /\ sender[s] # Idle
  BY SenderPins DEF TdSend, Inv, TypeOK
<1>2. td' \in [Clients -> [actor : {"none", "open", "terminating", "closed"},
                           closes : Nat, rejected : Nat, refused : BOOLEAN]]
  BY <1>1, TdAcceptType DEF TdSend
<1>3. /\ sender' = [sender EXCEPT ![s] = x]
      /\ x \in [client : Clients \cup {NoClient}, close : BOOLEAN, delivered : BOOLEAN]
      /\ x.client = sender[s].client /\ x # Idle
  <2>1. sender' = [sender EXCEPT ![s] = x]
    BY DEF TdSend
  <2>2. sender[s] \in [client : Clients \cup {NoClient}, close : BOOLEAN, delivered : BOOLEAN]
    BY DEF Inv, TypeOK
  <2>3. x.client = sender[s].client /\ x.close = sender[s].close /\ x.delivered = TRUE
    BY <2>2
  <2>4. x \in [client : Clients \cup {NoClient}, close : BOOLEAN, delivered : BOOLEAN]
    BY <2>2
  <2>5. x # Idle
    BY <1>1, <2>3, NoClientAssumption DEF Idle
  <2> QED
    BY <2>1, <2>3, <2>4, <2>5
<1> HIDE DEF x
<1>4. /\ sender' \in [Senders -> [client : Clients \cup {NoClient},
                                  close : BOOLEAN, delivered : BOOLEAN]]
      /\ \A t \in Senders : /\ (sender'[t] = Idle) <=> (sender[t] = Idle)
                            /\ sender'[t].client = sender[t].client
  BY <1>1, <1>3 DEF Inv, TypeOK
<1>5. TypeOK' /\ Handles'
  BY <1>2, <1>4 DEF Inv, TypeOK, Handles, TdSend
<1>6. InFlight(sender') = InFlight(sender)
      /\ \A c \in Clients : InFlightOf(sender', c) = InFlightOf(sender, c)
  BY <1>4 DEF InFlight, InFlightOf
<1>7. Accounting'
  <2>1. stats.active_sends = Cardinality(InFlight(sender))
    BY DEF Inv, Accounting, InFlight
  <2>2. stats'.active_sends = Cardinality(InFlight(sender'))
    BY <1>6, <2>1 DEF TdSend
  <2>3. RecordAccounting'
    BY DEF Inv, Accounting, RecordAccounting, Live, Queued, TdSend
  <2> QED
    BY <2>2, <2>3 DEF Accounting, InFlight
<1>8. SendsPinRecords'
  <2>1. \A c \in Clients : rec[c].active = Cardinality(InFlightOf(sender, c))
    BY DEF Inv, SendsPinRecords, InFlightOf
  <2>2. \A c \in Clients : rec'[c].active = Cardinality(InFlightOf(sender', c))
    BY <1>6, <2>1 DEF TdSend
  <2> QED
    BY <2>2 DEF Inv, SendsPinRecords, InFlightOf, TdSend
<1>9. BusyPinned' /\ \A c \in Clients : WellFormed(rec[c])'
  BY DEF Inv, BusyPinned, Live, TdSend
<1> QED
  BY <1>5, <1>7, <1>8, <1>9 DEF Inv

\* TDLib rejects a close, or terminates a client.
LEMMA TdInv ==
    ASSUME Inv, NEW c \in Clients, TdReject(c) \/ TdTerminate(c)
    PROVE  Inv'
<1>1. td' \in [Clients -> [actor : {"none", "open", "terminating", "closed"},
                           closes : Nat, rejected : Nat, refused : BOOLEAN]]
  <2>1. CASE TdReject(c)
    <3>1. td[c].closes \in Nat /\ td[c].closes > 0 /\ td[c].rejected \in Nat
      BY <2>1 DEF TdReject, Inv, TypeOK
    <3>2. td[c].closes - 1 \in Nat /\ td[c].rejected + 1 \in Nat
      BY <3>1
    <3> QED
      BY <2>1, <3>2, TRUE \in BOOLEAN DEF TdReject, Inv, TypeOK
  <2>2. CASE TdTerminate(c)
    <3>1. PICK t : t = [td[c] EXCEPT !.actor = "terminating", !.closes = 0]
      OBVIOUS
    <3>2. td' = [td EXCEPT ![c] = t]
      <4>1. td' = [td EXCEPT ![c].actor = "terminating", ![c].closes = 0]
        BY <2>2 DEF TdTerminate
      <4>2. DOMAIN td = Clients
        BY DEF Inv, TypeOK
      <4> QED
        BY <3>1, <4>1, <4>2
    <3>3. /\ td \in [Clients -> [actor : {"none", "open", "terminating", "closed"},
                                 closes : Nat, rejected : Nat, refused : BOOLEAN]]
          /\ td[c] \in [actor : {"none", "open", "terminating", "closed"},
                        closes : Nat, rejected : Nat, refused : BOOLEAN]
      BY DEF Inv, TypeOK
    <3>4. t \in [actor : {"none", "open", "terminating", "closed"},
                 closes : Nat, rejected : Nat, refused : BOOLEAN]
      BY <3>1, <3>3, 0 \in Nat
    <3> QED
      BY <3>2, <3>3, <3>4
  <2> QED
    BY <2>1, <2>2
<1>2. UNCHANGED <<rec, stats, phase, failed, invariantBroken, worker, sender, owner,
                  engineFailed>>
  BY DEF TdReject, TdTerminate
<1>3. TypeOK' /\ Handles'
  BY <1>1, <1>2 DEF Inv, TypeOK, Handles
<1> QED
  BY <1>2, <1>3, IdleStep

\* The worker moves without touching the ledger.
LEMMA DrainMoveInv ==
    ASSUME Inv, \/ WorkerFail \/ DrainBegin \/ DrainQuiesce \/ DrainExpire
                \/ DrainPoll \/ DrainEmpty \/ DrainReceiveThrows
    PROVE  Inv'
<1>1. UNCHANGED <<rec, stats, sender, invariantBroken, owner, td>>
  BY DEF WorkerFail, DrainBegin, DrainQuiesce, DrainExpire, DrainPoll, DrainEmpty,
         DrainReceiveThrows
<1>2. /\ worker.pc \notin {"work", "finish"} /\ worker'.pc \notin {"ack", "work", "finish"}
      /\ worker' \in [pc : WorkerPc, client : Clients \cup {NoClient},
                      work : {"None", "Close", "Notify"}]
  BY DEF WorkerFail, DrainBegin, DrainQuiesce, DrainExpire, DrainPoll, DrainEmpty,
         DrainReceiveThrows, DrainEnd, Goto, Inv, TypeOK, WorkerPc
<1>3. /\ phase' \in {"Idle", "Running", "Quiescent", "Deadline", "Error"}
      /\ failed' \in BOOLEAN /\ engineFailed' \in BOOLEAN
      /\ worker'.pc \in {"wait", "pick", "poll", "work", "finish"} => failed'
  BY DEF WorkerFail, DrainBegin, DrainQuiesce, DrainExpire, DrainPoll, DrainEmpty,
         DrainReceiveThrows, DrainEnd, Goto, Inv, TypeOK, Handles
<1>4. failed' \/ worker'.pc = "failed" => engineFailed'
  BY DEF WorkerFail, DrainBegin, DrainQuiesce, DrainExpire, DrainPoll, DrainEmpty,
         DrainReceiveThrows, DrainEnd, Goto, Inv, TypeOK, Handles
<1>5. TypeOK' /\ Handles'
  BY <1>1, <1>2, <1>3, <1>4 DEF Inv, TypeOK, Handles
<1> QED
  BY <1>1, <1>2, <1>5, IdleStep

\* The unlocked call of performWork().
LEMMA DrainEffectInv ==
    ASSUME Inv, DrainEffect
    PROVE  Inv'
<1>1. worker.pc = "work" /\ worker.client \in Clients
  BY DEF DrainEffect, Inv, Handles
<1>2. td' \in [Clients -> [actor : {"none", "open", "terminating", "closed"},
                           closes : Nat, rejected : Nat, refused : BOOLEAN]]
  <2>1. CASE worker.work = "Close"
    BY <1>1, <2>1, TdAcceptType DEF DrainEffect
  <2>2. CASE worker.work # "Close"
    BY <2>2 DEF DrainEffect, Inv, TypeOK
  <2> QED
    BY <2>1, <2>2
<1>3. worker' \in [pc : WorkerPc, client : Clients \cup {NoClient},
                   work : {"None", "Close", "Notify"}]
      /\ worker'.pc = "finish" /\ worker'.client = worker.client
  BY DEF DrainEffect, Goto, Inv, TypeOK, WorkerPc
<1>4. TypeOK' /\ Handles'
  BY <1>1, <1>2, <1>3 DEF DrainEffect, Inv, TypeOK, Handles
<1> QED
  BY <1>1, <1>3, <1>4, IdleStep DEF DrainEffect

\* An item of TDLib: the record is settled if the identity is still live.
LEMMA ReceiveInv ==
    ASSUME Inv, NEW c \in Clients, NEW terminal \in BOOLEAN,
           WorkerReceive(c, terminal) \/ DrainObserve(c, terminal)
    PROVE  Inv'
<1>1. TdDeliver(c, terminal) /\ Observe(c, terminal)
      /\ UNCHANGED <<phase, failed, invariantBroken, sender, owner, engineFailed>>
  BY DEF WorkerReceive, DrainObserve
<1>2. /\ worker' \in [pc : WorkerPc, client : Clients \cup {NoClient},
                      work : {"None", "Close", "Notify"}]
      /\ worker'.pc \in {"ack", "work", "finish"} => worker'.client \in Clients
      /\ worker'.pc \in {"wait", "pick", "poll", "work", "finish"} => failed
      /\ worker'.pc # "failed" \/ worker.pc = "failed"
      /\ worker.pc \notin {"work", "finish"} /\ worker'.pc \notin {"work", "finish"}
  <2>1. CASE WorkerReceive(c, terminal)
    BY <2>1 DEF WorkerReceive, Inv, TypeOK, WorkerPc
  <2>2. CASE DrainObserve(c, terminal)
    BY <2>2 DEF DrainObserve, Goto, Inv, TypeOK, Handles, WorkerPc
  <2> QED
    BY <2>1, <2>2
<1>3. td' \in [Clients -> [actor : {"none", "open", "terminating", "closed"},
                           closes : Nat, rejected : Nat, refused : BOOLEAN]]
  BY <1>1 DEF TdDeliver, Inv, TypeOK
<1>4. owner' \in [Clients -> [state : {"none", "creating", "open", "gone"},
                              shutdown : Nat]]
      /\ \A d \in Clients : (owner'[d].state = "none") <=> (owner[d].state = "none")
  BY <1>1 DEF Inv, TypeOK
<1>5. CASE Live(c)
  <2>1. Settles(At(c), ObserveLocal(At(c), terminal))
    BY <1>5, LiveGood, ObserveSound DEF Inv, TypeOK
  <2>2. Commit(c, ObserveLocal(At(c), terminal))
    BY <1>1, <1>5 DEF Observe
  <2> QED
    BY <1>1, <1>2, <1>3, <1>4, <1>5, <2>1, <2>2, SettleStep
<1>6. CASE ~Live(c)
  <2>1. UNCHANGED <<rec, stats>>
    BY <1>1, <1>6 DEF Observe
  <2>2. TypeOK' /\ Handles'
    BY <1>1, <1>2, <1>3, <2>1 DEF Inv, TypeOK, Handles
  <2> QED
    BY <1>1, <1>2, <2>1, <2>2, IdleStep
<1> QED
  BY <1>5, <1>6

\* The worker acknowledges a terminal update it has published.
LEMMA WorkerAckInv ==
    ASSUME Inv, WorkerAck
    PROVE  Inv'
<1>0. PICK c \in Clients : c = worker.client
  BY DEF WorkerAck, Inv, Handles
<1>1. worker.pc = "ack"
      /\ UNCHANGED <<phase, failed, invariantBroken, sender, owner, engineFailed, td>>
      /\ ((Live(c) /\ NotifyAndRetire(c)) \/ UNCHANGED <<rec, stats>>)
  BY <1>0 DEF WorkerAck
<1>2. /\ worker' \in [pc : WorkerPc, client : Clients \cup {NoClient},
                      work : {"None", "Close", "Notify"}]
      /\ worker'.pc = "receive"
  BY DEF WorkerAck, Inv, TypeOK, WorkerPc
<1>3. CASE Live(c) /\ NotifyAndRetire(c)
  <2>1. Settles(At(c), RetireIfReady(RefreshWork(With(At(c), "notified", TRUE), failed)))
    BY <1>1, <1>3, LiveGood, NotifySound DEF Inv, TypeOK
  <2>2. Commit(c, RetireIfReady(RefreshWork(With(At(c), "notified", TRUE), failed)))
    BY <1>3 DEF NotifyAndRetire
  <2>3. /\ td' \in [Clients -> [actor : {"none", "open", "terminating", "closed"},
                                closes : Nat, rejected : Nat, refused : BOOLEAN]]
        /\ owner' \in [Clients -> [state : {"none", "creating", "open", "gone"},
                                   shutdown : Nat]]
        /\ \A d \in Clients : (owner'[d].state = "none") <=> (owner[d].state = "none")
    BY <1>1 DEF Inv, TypeOK
  <2> QED
    BY <1>1, <1>2, <1>3, <2>1, <2>2, <2>3, SettleStep
<1>4. CASE UNCHANGED <<rec, stats>>
  <2>1. TypeOK' /\ Handles'
    BY <1>1, <1>2, <1>4 DEF Inv, TypeOK, Handles
  <2> QED
    BY <1>1, <1>2, <1>4, <2>1, IdleStep
<1> QED
  BY <1>1, <1>3, <1>4

\* rejectShutdown(): the record may be closed again.
LEMMA RejectionInv ==
    ASSUME Inv, NEW c \in Clients, OwnerSeesRejection(c)
    PROVE  Inv'
<1> DEFINE a == With(With(At(c), "close_sent", FALSE), "close_uncertain", FALSE)
           q == RefreshWork(a, failed)
<1>1. td[c].rejected - 1 \in Nat /\ owner[c].shutdown - 1 \in Nat
  <2>1. td[c].rejected \in Nat /\ owner[c].shutdown \in Nat
    BY DEF Inv, TypeOK
  <2> QED
    BY <2>1 DEF OwnerSeesRejection
<1>2. /\ owner' \in [Clients -> [state : {"none", "creating", "open", "gone"},
                                 shutdown : Nat]]
      /\ \A d \in Clients : (owner'[d].state = "none") <=> (owner[d].state = "none")
      /\ td' \in [Clients -> [actor : {"none", "open", "terminating", "closed"},
                              closes : Nat, rejected : Nat, refused : BOOLEAN]]
  <2>1. /\ td' = [td EXCEPT ![c].rejected = @ - 1]
        /\ owner' = [owner EXCEPT ![c].shutdown = @ - 1]
    BY DEF OwnerSeesRejection
  <2>2. /\ owner \in [Clients -> [state : {"none", "creating", "open", "gone"}, shutdown : Nat]]
        /\ td \in [Clients -> [actor : {"none", "open", "terminating", "closed"},
                               closes : Nat, rejected : Nat, refused : BOOLEAN]]
    BY DEF Inv, TypeOK
  <2>3. PICK t, w : /\ t = [td[c] EXCEPT !.rejected = @ - 1]
                    /\ w = [owner[c] EXCEPT !.shutdown = @ - 1]
    OBVIOUS
  <2>4. /\ t \in [actor : {"none", "open", "terminating", "closed"},
                  closes : Nat, rejected : Nat, refused : BOOLEAN]
        /\ w \in [state : {"none", "creating", "open", "gone"}, shutdown : Nat]
        /\ w.state = owner[c].state
    BY <1>1, <2>2, <2>3
  <2>5. td' = [td EXCEPT ![c] = t] /\ owner' = [owner EXCEPT ![c] = w]
    BY <2>1, <2>2, <2>3
  <2> QED
    BY <2>2, <2>4, <2>5
<1>3. UNCHANGED <<phase, failed, invariantBroken, worker, sender, engineFailed>>
  BY DEF OwnerSeesRejection
<1>4. CASE Live(c) /\ Commit(c, q)
  <2>1. Good(At(c)) /\ failed \in BOOLEAN
    BY <1>4, LiveGood DEF Inv, TypeOK
  <2>2. /\ Good(a) /\ Balanced(At(c), a) /\ a.n = At(c).n
        /\ a.r.active = At(c).r.active /\ a.r.busy = At(c).r.busy
    <3>1. FALSE \in BOOLEAN
      OBVIOUS
    <3> QED
      BY <2>1, <3>1, WithTwiceSound
  <2> HIDE DEF a
  <2>3. /\ Good(q) /\ Balanced(a, q) /\ q.r = [a.r EXCEPT !.work = Desired(a.r, failed)]
        /\ q.n.active_sends = a.n.active_sends
    BY <2>1, <2>2, RefreshWorkSound
  <2>4. a.r \in Record
    BY <2>2 DEF Good, Local
  <2>5. q.r.active = a.r.active /\ q.r.busy = a.r.busy
    BY <2>3, <2>4 DEF Record
  <2> HIDE DEF q
  <2>6. Settles(At(c), q)
    BY <2>1, <2>2, <2>3, <2>5, BalancedTrans DEF Settles, Sound, Good
  <2>7. /\ worker' \in [pc : WorkerPc, client : Clients \cup {NoClient},
                        work : {"None", "Close", "Notify"}]
        /\ worker' = worker
        /\ worker'.pc \in {"ack", "work", "finish"} => worker'.client \in Clients
        /\ worker'.pc \in {"wait", "pick", "poll", "work", "finish"} => failed
        /\ worker'.pc # "failed" \/ worker.pc = "failed"
    BY <1>3 DEF Inv, TypeOK, Handles
  <2> QED
    BY <1>2, <1>3, <1>4, <2>6, <2>7, SettleStep
<1>5. CASE UNCHANGED <<rec, stats>>
  <2>1. TypeOK' /\ Handles'
    BY <1>2, <1>3, <1>5 DEF Inv, TypeOK, Handles
  <2> QED
    BY <1>3, <1>5, <2>1, IdleStep
<1> QED
  BY <1>4, <1>5 DEF OwnerSeesRejection

\* A step that pins, or returns to and unpins, the record of one client.
LEMMA PinStep ==
    ASSUME Inv, NEW c \in Clients, NEW q, Sound(At(c), q), Commit(c, q),
           q.n.active_sends = stats.active_sends, q.r.active = rec[c].active,
           q.r.state # "unknown", Live(c),
           UNCHANGED <<failed, invariantBroken, sender, owner, engineFailed, td>>,
           phase' \in {"Idle", "Running", "Quiescent", "Deadline", "Error"},
           worker' \in [pc : WorkerPc, client : Clients \cup {NoClient},
                        work : {"None", "Close", "Notify"}],
           worker'.pc \in {"pick", "work", "done"},
           worker'.pc = "work" => worker'.client = c,
           worker.pc \in {"pick", "work", "finish"},
           worker.pc \in {"work", "finish"} => worker.client = c,
           q.r.busy <=> worker'.pc = "work"
    PROVE  Inv'
<1>1. /\ rec' \in [Clients -> Record] /\ stats' \in Stats
      /\ \A d \in Clients : WellFormed(rec[d])'
      /\ RecordAccounting'
      /\ rec'[c] = q.r
      /\ \A d \in Clients \ {c} : rec'[d] = rec[d]
  BY CommitSound DEF Inv, TypeOK, Accounting
<1>2. TypeOK'
  BY <1>1 DEF Inv, TypeOK
<1>3. Handles'
  BY <1>1 DEF Inv, Handles, Live
<1>4. Accounting'
  <2>1. stats'.active_sends = stats.active_sends
    BY DEF Commit
  <2> QED
    BY <1>1, <2>1 DEF Inv, Accounting
<1>5. SendsPinRecords'
  <2>1. \A d \in Clients : rec'[d].active = rec[d].active
    BY <1>1
  <2> QED
    <3>1. /\ ~invariantBroken
          /\ \A d \in Clients :
               rec[d].active = Cardinality({s \in Senders : sender[s].client = d})
      BY DEF Inv, SendsPinRecords
    <3>2. ~invariantBroken' /\ sender' = sender
      BY <3>1
    <3> QED
      BY <2>1, <3>1, <3>2 DEF SendsPinRecords
<1>6. BusyPinned'
  <2>1. ASSUME NEW d \in Clients
        PROVE  rec'[d].busy <=> (worker'.pc \in {"work", "finish"} /\ worker'.client = d)
    <3>1. CASE d = c
      BY <1>1, <3>1
    <3>2. CASE d # c
      <4>1. ~rec[d].busy
        BY <3>2 DEF Inv, BusyPinned
      <4> QED
        BY <1>1, <3>2, <4>1
    <3> QED
      BY <3>1, <3>2
  <2> QED
    BY <1>1, <2>1, BusyFromPins
<1> QED
  BY <1>1, <1>2, <1>3, <1>4, <1>5, <1>6 DEF Inv

\* drain() takes the head of a list, unlinks it and pins it.
LEMMA DrainPickInv ==
    ASSUME Inv, NEW c \in Clients, DrainPick(c)
    PROVE  Inv'
<1> DEFINE u == Unlink(At(c))
           q == With(u, "busy", TRUE)
<1>1. rec[c].work # "None" /\ worker.pc = "pick" /\ Commit(c, q)
      /\ worker' = [pc |-> "work", client |-> c, work |-> rec[c].work]
      /\ UNCHANGED <<phase, failed, invariantBroken, sender, owner, engineFailed, td>>
  BY DEF DrainPick, Queued
<1>2. Live(c) /\ rec[c] \in Record
  BY <1>1 DEF Inv, TypeOK, WellFormed, Blank, Live
<1>3. Good(At(c))
  BY <1>2, LiveGood
<1>4. /\ Good(u) /\ Balanced(At(c), u) /\ u.r = [rec[c] EXCEPT !.work = "None"]
      /\ u.n.active_sends = stats.active_sends
  BY <1>3, UnlinkSound DEF At
<1> HIDE DEF u
<1>5. u.r.work = "None" /\ u.r.active = rec[c].active /\ u.r \in Record
  BY <1>2, <1>4 DEF Record
<1>6. Good(q) /\ Balanced(u, q) /\ q.r = [u.r EXCEPT !.busy = TRUE] /\ q.n = u.n
  BY <1>4, <1>5, PinSound
<1> HIDE DEF q
<1>7. Sound(At(c), q)
  BY <1>3, <1>4, <1>6, BalancedTrans DEF Sound, Good
<1>8. q.r.active = rec[c].active /\ q.r.busy /\ q.r.state # "unknown"
  BY <1>5, <1>6 DEF Record, Good
<1>9. /\ worker' \in [pc : WorkerPc, client : Clients \cup {NoClient},
                      work : {"None", "Close", "Notify"}]
      /\ worker'.pc = "work" /\ worker'.client = c
  BY <1>1, <1>2 DEF Record, WorkerPc
<1>10. phase' \in {"Idle", "Running", "Quiescent", "Deadline", "Error"}
  BY <1>1 DEF Inv, TypeOK
<1>11. /\ Commit(c, q) /\ q.n.active_sends = stats.active_sends
       /\ UNCHANGED <<failed, invariantBroken, sender, owner, engineFailed, td>>
       /\ worker.pc = "pick"
  BY <1>1, <1>4, <1>6
<1>12. /\ worker'.pc \in {"pick", "work", "done"}
       /\ worker'.pc = "work" => worker'.client = c
       /\ worker.pc \in {"pick", "work", "finish"}
       /\ worker.pc \in {"work", "finish"} => worker.client = c
       /\ q.r.busy <=> worker'.pc = "work"
  BY <1>8, <1>9, <1>11
<1> QED
  BY <1>2, <1>7, <1>8, <1>9, <1>10, <1>11, <1>12, PinStep

\* performWork()'s return to the record after the unlocked call.
LEMMA ReturnSound ==
    ASSUME NEW p, Good(p), NEW f \in BOOLEAN, ~p.r.busy
    PROVE  /\ Sound(p, RetireIfReady(RefreshWork(p, f)))
           /\ RetireIfReady(RefreshWork(p, f)).n.active_sends = p.n.active_sends
           /\ RetireIfReady(RefreshWork(p, f)).r.active = p.r.active
           /\ ~RetireIfReady(RefreshWork(p, f)).r.busy
           /\ RetireIfReady(RefreshWork(p, f)).r.state # "unknown"
<1> DEFINE q == RetireIfReady(RefreshWork(p, f))
<1>1. /\ Settles(p, q)
      /\ (q.r = [p.r EXCEPT !.work = Desired(p.r, f)] \/ q.r = Blank("retired"))
  BY FinishSound
<1> HIDE DEF q
<1>2. q.r.state # "unknown"
  BY <1>1 DEF Good, Local, Record, Blank
<1>3. Sound(p, q) /\ q.n.active_sends = p.n.active_sends
      /\ q.r.active = p.r.active /\ ~q.r.busy
  BY <1>1 DEF Settles
<1> QED
  BY <1>2, <1>3 DEF q

\* performWork() returns normally and settles its record.
LEMMA DrainFinishInv ==
    ASSUME Inv, DrainFinish
    PROVE  Inv'
<1>0. PICK c \in Clients : c = worker.client
  BY DEF DrainFinish, Inv, Handles
<1> DEFINE p == IF worker.work = "Close" THEN MarkCloseSent(At(c))
                ELSE With(At(c), "notified", TRUE)
           b == With(p, "busy", FALSE)
           q == RetireIfReady(RefreshWork(b, failed))
<1>1. worker.pc = "finish" /\ Commit(c, q)
      /\ worker' = [pc |-> "pick", client |-> NoClient, work |-> "None"]
      /\ UNCHANGED <<phase, failed, invariantBroken, sender, owner, engineFailed, td>>
  BY <1>0 DEF DrainFinish
<1>2. Live(c) /\ failed \in BOOLEAN
  BY <1>0, <1>1 DEF Inv, TypeOK, BusyPinned
<1>3. Good(At(c))
  BY <1>2, LiveGood
<1>4. /\ Good(p) /\ Balanced(At(c), p) /\ p.n = stats /\ p.r.active = rec[c].active
  <2>0. TRUE \in BOOLEAN /\ FALSE \in BOOLEAN
    OBVIOUS
  <2>1. CASE worker.work = "Close"
    <3>1. /\ Good(MarkCloseSent(At(c))) /\ Balanced(At(c), MarkCloseSent(At(c)))
          /\ MarkCloseSent(At(c)).n = At(c).n
          /\ MarkCloseSent(At(c)).r.active = At(c).r.active
      BY <1>3, <2>0, WithTwiceSound DEF MarkCloseSent
    <3> QED
      BY <2>1, <3>1 DEF At
  <2>2. CASE worker.work # "Close"
    <3> DEFINE w == With(At(c), "notified", TRUE)
    <3>1. /\ Good(w) /\ Balanced(At(c), w) /\ w.n = At(c).n
          /\ w.r = [At(c).r EXCEPT !["notified"] = TRUE]
      BY <1>3, <2>0, WithSound
    <3>2. p = w
      BY <2>2
    <3> HIDE DEF w, p
    <3>3. w.r.active = rec[c].active
      BY <1>3, <3>1 DEF At, Good, Local, Record
    <3> QED
      BY <3>1, <3>2, <3>3 DEF At
  <2> QED
    BY <2>1, <2>2
<1> HIDE DEF p
<1>5. Good(b) /\ Balanced(p, b) /\ b.r = [p.r EXCEPT !.busy = FALSE] /\ b.n = p.n
  BY <1>4, PinSound
<1> HIDE DEF b
<1>6. ~b.r.busy /\ b.r.active = rec[c].active
  BY <1>4, <1>5 DEF Good, Local, Record
<1>7. /\ Sound(b, q) /\ q.n.active_sends = b.n.active_sends /\ q.r.active = b.r.active
      /\ ~q.r.busy /\ q.r.state # "unknown"
  BY <1>2, <1>5, <1>6, ReturnSound
<1> HIDE DEF q
<1>8. Sound(At(c), q)
  <2>1. Balanced(At(c), b)
    BY <1>3, <1>4, <1>5, BalancedTrans DEF Good
  <2> QED
    BY <1>3, <1>5, <1>7, <2>1, BalancedTrans DEF Sound, Good
<1>9. worker' \in [pc : WorkerPc, client : Clients \cup {NoClient},
                   work : {"None", "Close", "Notify"}]
      /\ worker'.pc = "pick"
  BY <1>1 DEF WorkerPc
<1>10. phase' \in {"Idle", "Running", "Quiescent", "Deadline", "Error"}
  BY <1>1 DEF Inv, TypeOK
<1> QED
  BY <1>0, <1>1, <1>2, <1>4, <1>5, <1>6, <1>7, <1>8, <1>9, <1>10, PinStep

\* performWork() throws: a close becomes uncertain.
LEMMA DrainThrowInv ==
    ASSUME Inv, DrainThrow
    PROVE  Inv'
<1>0. PICK c \in Clients : c = worker.client
  BY DEF DrainThrow, Inv, Handles
<1> DEFINE b == With(At(c), "busy", FALSE)
           unsure == SetUncertain(b, TRUE)
           v == With(unsure, "close_uncertain", TRUE)
           p == IF worker.work = "Close" /\ ~b.r.terminal THEN v ELSE b
           q == RetireIfReady(RefreshWork(p, failed))
<1>1. worker.pc \in {"work", "finish"} /\ Commit(c, q) /\ DrainEnd("Error")
      /\ UNCHANGED <<failed, invariantBroken, sender, owner, engineFailed, td>>
  BY <1>0 DEF DrainThrow
<1>2. Live(c) /\ failed \in BOOLEAN
  BY <1>0, <1>1 DEF Inv, TypeOK, BusyPinned
<1>3. Good(At(c)) /\ TRUE \in BOOLEAN /\ FALSE \in BOOLEAN
  BY <1>2, LiveGood
<1>4. /\ Good(b) /\ Balanced(At(c), b) /\ b.n = At(c).n
      /\ b.r = [At(c).r EXCEPT !.busy = FALSE]
  BY <1>3, PinSound
<1> HIDE DEF b
<1>5. ~b.r.busy /\ b.r.active = rec[c].active /\ b.n.active_sends = stats.active_sends
  BY <1>3, <1>4 DEF At, Good, Local, Record
<1>6. /\ Good(p) /\ Balanced(b, p) /\ p.n.active_sends = b.n.active_sends
      /\ p.r.active = b.r.active /\ ~p.r.busy
  <2>1. CASE worker.work = "Close" /\ ~b.r.terminal
    <3>1. /\ Good(unsure) /\ Balanced(b, unsure)
          /\ unsure.r = [b.r EXCEPT !.uncertain = TRUE]
          /\ unsure.n.active_sends = b.n.active_sends
      BY <1>3, <1>4, <2>1, SetUncertainSound
    <3> HIDE DEF unsure
    <3>2. /\ Good(v) /\ Balanced(unsure, v) /\ v.n = unsure.n
          /\ v.r = [unsure.r EXCEPT !["close_uncertain"] = TRUE]
      BY <1>3, <3>1, WithSound
    <3> HIDE DEF v
    <3>3. b.r \in Record /\ unsure.r \in Record
      BY <1>4, <3>1 DEF Good, Local
    <3>4. unsure.r.active = b.r.active /\ ~unsure.r.busy
      BY <1>5, <3>1, <3>3 DEF Record
    <3>5. v.r.active = b.r.active /\ ~v.r.busy
      BY <3>2, <3>3, <3>4 DEF Record
    <3>6. Balanced(b, v)
      BY <1>4, <3>1, <3>2, BalancedTrans DEF Good
    <3> QED
      BY <2>1, <3>1, <3>2, <3>5, <3>6
  <2>2. CASE ~(worker.work = "Close" /\ ~b.r.terminal)
    <3>1. p = b
      BY <2>2
    <3>2. Balanced(b, b)
      BY DEF Balanced
    <3> HIDE DEF p
    <3> QED
      BY <1>4, <1>5, <3>1, <3>2
  <2> QED
    BY <2>1, <2>2
<1> HIDE DEF p
<1>7. /\ Sound(p, q) /\ q.n.active_sends = p.n.active_sends /\ q.r.active = p.r.active
      /\ ~q.r.busy /\ q.r.state # "unknown"
  BY <1>2, <1>6, ReturnSound
<1> HIDE DEF q
<1>8. Sound(At(c), q)
  <2>1. Balanced(At(c), p)
    BY <1>3, <1>4, <1>6, BalancedTrans DEF Good
  <2> QED
    BY <1>3, <1>6, <1>7, <2>1, BalancedTrans DEF Sound, Good
<1>9. /\ worker' \in [pc : WorkerPc, client : Clients \cup {NoClient},
                      work : {"None", "Close", "Notify"}]
      /\ worker'.pc = "done"
      /\ phase' \in {"Idle", "Running", "Quiescent", "Deadline", "Error"}
  BY <1>1 DEF DrainEnd, Inv, TypeOK, WorkerPc
<1> QED
  BY <1>0, <1>1, <1>2, <1>5, <1>6, <1>7, <1>8, <1>9, PinStep

\* Exchanging members moves a cardinality by what was added less what left.
LEMMA SwapCardinality ==
    ASSUME NEW S, NEW T, IsFiniteSet(S), IsFiniteSet(T)
    PROVE  /\ Cardinality(T) = Cardinality(S) + (Cardinality(T \ S) - Cardinality(S \ T))
           /\ Cardinality(T \ S) \in Nat /\ Cardinality(S \ T) \in Nat
           /\ Cardinality(S) \in Nat
<1>1. /\ IsFiniteSet(T \ S) /\ IsFiniteSet(S \ T) /\ IsFiniteSet(S \cap T)
      /\ Cardinality(T \ S) = Cardinality(T) - Cardinality(T \cap S)
      /\ Cardinality(S \ T) = Cardinality(S) - Cardinality(S \cap T)
  BY FS_Difference, FS_Intersection
<1>2. S \cap T = T \cap S
  OBVIOUS
<1>3. /\ Cardinality(S) \in Nat /\ Cardinality(T) \in Nat /\ Cardinality(S \cap T) \in Nat
      /\ Cardinality(T \ S) \in Nat /\ Cardinality(S \ T) \in Nat
  BY <1>1, FS_CardinalityType
<1>4. Cardinality(T \cap S) = Cardinality(S \cap T)
  BY <1>2, Zenon
<1> DEFINE k == Cardinality(S \cap T)
           a == Cardinality(S)
           b == Cardinality(T)
           x == Cardinality(T \ S)
           y == Cardinality(S \ T)
<1>5. x = b - k /\ y = a - k /\ {a, b, x, y, k} \subseteq Nat
  BY <1>1, <1>3, <1>4
<1> HIDE DEF k, a, b, x, y
<1>6. b = a + (x - y) /\ x \in Nat /\ y \in Nat /\ a \in Nat
  BY <1>5
<1> QED
  BY <1>6 DEF a, b, x, y

\* The visit of every record: each list gains and loses what RefreshDelta says.
LEMMA RefreshAll ==
    ASSUME Inv, NEW w \in {"Notify", "Close"},
           rec' = [c \in Clients |->
                     IF Live(c) THEN [rec[c] EXCEPT !.work = Desired(rec[c], failed)]
                     ELSE rec[c]]
    PROVE  /\ Cardinality({c \in Clients : rec'[c].work = w})
                = Cardinality(Queued(w)) + RefreshDelta(w)
           /\ RefreshDelta(w) \in Int
<1> DEFINE S == Queued(w)
           T == {c \in Clients : rec'[c].work = w}
           after(c) == IF Live(c) THEN Desired(rec[c], failed) ELSE rec[c].work
<1>1. IsFiniteSet(S) /\ IsFiniteSet(T)
  BY ClientsFinite, FS_Subset DEF Queued
<1>2. \A c \in Clients : rec'[c].work = after(c)
  BY DEF Inv, TypeOK, Record
<1>3. /\ T \ S = {c \in Clients : rec[c].work # w /\ after(c) = w}
      /\ S \ T = {c \in Clients : rec[c].work = w /\ after(c) # w}
  BY <1>2 DEF Queued
<1>4. RefreshDelta(w) = Cardinality(T \ S) - Cardinality(S \ T)
  BY <1>3 DEF RefreshDelta
<1> HIDE DEF S, T
<1>5. /\ Cardinality(T) = Cardinality(S) + (Cardinality(T \ S) - Cardinality(S \ T))
      /\ Cardinality(T \ S) \in Nat /\ Cardinality(S \ T) \in Nat
      /\ Cardinality(S) \in Nat
  BY <1>1, SwapCardinality
<1>6. Cardinality(T) = Cardinality(S) + RefreshDelta(w) /\ RefreshDelta(w) \in Int
  BY <1>4, <1>5
<1> QED
  BY <1>6 DEF S, T

\* The drain's first visit refreshes every record.
LEMMA DrainStartInv ==
    ASSUME Inv, DrainStart
    PROVE  Inv'
<1>1. /\ UNCHANGED <<failed, invariantBroken, sender, owner, engineFailed, td>>
      /\ worker.pc = "wait" /\ ~invariantBroken
  BY DEF DrainStart, Inv, SendsPinRecords
<1>2. /\ rec' = [c \in Clients |->
                   IF Live(c) THEN [rec[c] EXCEPT !.work = Desired(rec[c], failed)]
                   ELSE rec[c]]
      /\ stats' = Add(Add(stats, "notification_work", RefreshDelta("Notify")),
                      "close_work", RefreshDelta("Close"))
      /\ worker' = [worker EXCEPT !.pc = "pick"] /\ phase' = phase
  BY <1>1 DEF DrainStart, Goto
<1>3. \A c \in Clients : /\ rec[c] \in Record /\ WellFormed(rec[c]) /\ ~rec[c].busy
                         /\ Desired(rec[c], failed) \in {"None", "Close", "Notify"}
  BY <1>1 DEF Inv, TypeOK, BusyPinned, Desired
<1>4. rec' \in [Clients -> Record]
      /\ \A c \in Clients : /\ rec'[c].state = rec[c].state
                            /\ rec'[c].materialized = rec[c].materialized
                            /\ rec'[c].terminal = rec[c].terminal
                            /\ rec'[c].uncertain = rec[c].uncertain
                            /\ rec'[c].active = rec[c].active
                            /\ rec'[c].busy = rec[c].busy
                            /\ ~Live(c) => rec'[c] = rec[c]
  BY <1>2, <1>3 DEF Record
<1>5. \A c \in Clients : WellFormed(rec'[c])
  BY <1>3, <1>4 DEF WellFormed, Live
<1> DEFINE m == Add(stats, "notification_work", RefreshDelta("Notify"))
           n == Add(m, "close_work", RefreshDelta("Close"))
<1>6. /\ Cardinality({c \in Clients : rec'[c].work = "Notify"})
           = Cardinality(Queued("Notify")) + RefreshDelta("Notify")
      /\ RefreshDelta("Notify") \in Int
  BY <1>2, RefreshAll
<1>7. /\ Cardinality({c \in Clients : rec'[c].work = "Close"})
           = Cardinality(Queued("Close")) + RefreshDelta("Close")
      /\ RefreshDelta("Close") \in Int
  BY <1>2, RefreshAll
<1>8. stats \in Stats /\ {"notification_work", "close_work"} \subseteq Counters
  BY DEF Inv, TypeOK, Counters
<1>9. /\ m \in Stats
      /\ m.notification_work = stats.notification_work + RefreshDelta("Notify")
      /\ \A k \in Counters \ {"notification_work"} : m[k] = stats[k]
  BY <1>6, <1>8, AddStats
<1> HIDE DEF m
<1>10. /\ n \in Stats /\ n.close_work = m.close_work + RefreshDelta("Close")
       /\ \A k \in Counters \ {"close_work"} : n[k] = m[k]
  BY <1>7, <1>8, <1>9, AddStats
<1>11. stats' = n
  BY <1>2 DEF m
<1> HIDE DEF n
<1>12. /\ stats'.notification_work = stats.notification_work + RefreshDelta("Notify")
       /\ stats'.close_work = stats.close_work + RefreshDelta("Close")
       /\ \A k \in Counters \ {"notification_work", "close_work"} : stats'[k] = stats[k]
  BY <1>9, <1>10, <1>11 DEF Counters
<1>13. RecordAccounting'
  <2>1. /\ {c \in Clients : Live(c)}' = {c \in Clients : Live(c)}
        /\ {c \in Clients : Live(c) /\ ~rec[c].materialized}'
             = {c \in Clients : Live(c) /\ ~rec[c].materialized}
        /\ {c \in Clients : rec[c].materialized /\ ~rec[c].terminal}'
             = {c \in Clients : rec[c].materialized /\ ~rec[c].terminal}
        /\ {c \in Clients : rec[c].uncertain}' = {c \in Clients : rec[c].uncertain}
        /\ {c \in Clients : rec[c].terminal}' = {c \in Clients : rec[c].terminal}
    BY <1>4 DEF Live
  <2>2. /\ stats'.records = stats.records /\ stats'.reserved = stats.reserved
        /\ stats'.remaining = stats.remaining /\ stats'.uncertain = stats.uncertain
        /\ stats'.terminal_records = stats.terminal_records
    BY <1>12 DEF Counters
  <2>3. stats'.notification_work = Cardinality({c \in Clients : rec'[c].work = "Notify"})
        /\ stats'.close_work = Cardinality({c \in Clients : rec'[c].work = "Close"})
    BY <1>6, <1>7, <1>12 DEF Inv, Accounting, RecordAccounting
  <2>4. RecordAccounting
    BY DEF Inv, Accounting
  <2> QED
    BY <2>1, <2>2, <2>3, <2>4 DEF RecordAccounting, Queued
<1>14. Accounting'
  <2>1. stats'.active_sends = stats.active_sends
    BY <1>12 DEF Counters
  <2> QED
    BY <1>1, <1>13, <2>1 DEF Inv, Accounting
<1>15. SendsPinRecords'
  BY <1>1, <1>4 DEF Inv, SendsPinRecords
<1>16. worker' \in [pc : WorkerPc, client : Clients \cup {NoClient},
                    work : {"None", "Close", "Notify"}]
       /\ worker'.pc = "pick"
  BY <1>2 DEF Inv, TypeOK, WorkerPc
<1>17. BusyPinned'
  BY <1>3, <1>4, <1>5, <1>16, BusyFromPins
<1>18. TypeOK' /\ Handles'
  BY <1>1, <1>2, <1>4, <1>10, <1>11, <1>16, ZenonT(40) DEF Inv, TypeOK, Handles
<1> QED
  BY <1>5, <1>14, <1>15, <1>17, <1>18 DEF Inv

-----------------------------------------------------------------------------
(***************************************************************************)
(* The theorems.                                                           *)
(***************************************************************************)

\* A stuttering step keeps the invariant.
LEMMA StutterInv == Inv /\ UNCHANGED vars => Inv'
<1> SUFFICES ASSUME Inv, UNCHANGED vars PROVE Inv'
  OBVIOUS
<1>1. TypeOK' /\ Handles'
  BY DEF Inv, TypeOK, Handles, vars
<1> QED
  BY <1>1, IdleStep DEF vars

\* Every step keeps the invariant.
LEMMA NextInv == Inv /\ [Next]_vars => Inv'
<1> SUFFICES ASSUME Inv, [Next]_vars PROVE Inv'
  OBVIOUS
<1>1. CASE OwnerStep
  BY <1>1, RegisterInv, PublishInv, RetireInv, RejectionInv, BeginSendInv DEF OwnerStep
<1>2. CASE TdStep
  BY <1>2, TdInv DEF TdStep
<1>3. CASE WorkerStep
  BY <1>3, ReceiveInv, WorkerAckInv, DrainMoveInv DEF WorkerStep
<1>4. CASE DrainStep
  BY <1>4, ReceiveInv, DrainMoveInv, DrainStartInv, DrainPickInv, DrainEffectInv,
     DrainFinishInv, DrainThrowInv DEF DrainStep
<1>5. CASE DrainExpire
  BY <1>5, DrainMoveInv
<1>6. CASE \E s \in Senders : SendStep(s)
  BY <1>6, TdSendInv, EndSendInv DEF SendStep
<1>7. CASE UNCHANGED vars
  BY <1>7, StutterInv
<1> QED
  BY <1>1, <1>2, <1>3, <1>4, <1>5, <1>6, <1>7 DEF Next

\* The strengthened invariant of the ledger and its callers holds in every
\* reachable state.
THEOREM Invariance == Spec => []Inv
<1>1. Init => Inv
  BY InitInv
<1>2. Inv /\ [Next]_vars => Inv'
  BY NextInv
<1> QED
  BY <1>1, <1>2, PTL DEF Spec

\* Every variable keeps its type; each counter of the ledger equals the number of
\* records, or of sends in flight, that it stands for; and no record is erased
\* under a thread that will come back to it: endSend() finds the record of its
\* send, and performWork() the record it works on.
THEOREM LedgerAlwaysSound == Spec => []LedgerSound
<1>1. Inv => LedgerSound
  BY DEF Inv, LedgerSound, Pinned
<1> QED
  BY <1>1, Invariance, PTL

-----------------------------------------------------------------------------
(***************************************************************************)
(* The ledger and TDLib, for any finite sets of clients and of concurrent  *)
(* sends: no close is doubled, what is retired or quiescent is over in     *)
(* TDLib too, sends stay out of the drain, and the drain waits only for    *)
(* what will come.                                                         *)
(***************************************************************************)

\* A request of the client, or a close, that TDLib has and endSend() has not
\* recorded yet; and a close of the drain that performWork() has not recorded.
Sent(c) == \E s \in Senders : sender[s].client = c /\ sender[s].delivered

Closing(c) ==
    \/ \E s \in Senders : sender[s].client = c /\ sender[s].close /\ sender[s].delivered
    \/ worker.pc = "finish" /\ worker.work = "Close" /\ worker.client = c

InDrain == worker.pc \in {"pick", "poll", "work", "finish"}

Over(t) == t.actor \in {"none", "closed"}

\* TDLib has a close of the client, acted on one, or refused one.
Heard(t) == t.closes > 0 \/ t.actor \in {"terminating", "closed"} \/ t.refused

(***************************************************************************)
(* How the record r of a client fits TDLib's state t of it: `sent' and     *)
(* `closing' say what is not recorded yet, f is failed_, and `visited'     *)
(* that the drain has begun to work.                                       *)
(***************************************************************************)

\* What runs in TDLib has a record that says so, or will.
Runs(r, t, sent) ==
    /\ r.state = "unknown" => t.actor = "none"
    /\ t.actor = "none" => t.closes = 0
    /\ ~Over(t) => r.state = "live" /\ (r.materialized \/ r.uncertain \/ sent)
    /\ r.terminal => t.actor = "closed"

\* A record is on the list that refreshWork() wants it on, except that the
\* failure changes what it wants and the drain visits all records later.
Listed(r, f, visited) ==
    r.state = "live" =>
      r.work = Desired(r, f) \/ (~visited /\ r.work = Desired(r, FALSE))

\* A close that TDLib has is recorded as sent or uncertain, and one recorded as
\* sent was heard by TDLib.
Closes(r, t, closing) ==
    /\ r.state = "live" /\ ~r.terminal /\ t.closes > 0
         => r.close_sent \/ r.close_uncertain \/ closing
    /\ r.close_sent \/ closing => Heard(t)

\* A record that was announced only stays for who pins it.
Announced(r) ==
    r.state = "live" /\ r.notified =>
      /\ r.active # 0 \/ r.busy
      /\ r.terminal \/ (~r.materialized /\ ~r.uncertain /\ r.active = 0)

Fits(c) ==
    /\ Runs(rec[c], td[c], Sent(c))
    /\ Listed(rec[c], failed, InDrain)
    /\ Closes(rec[c], td[c], Closing(c))
    /\ Announced(rec[c])

\* The closes an owner has asked for that are on their way to TDLib.
Underway(c) == {s \in Senders : sender[s].client = c /\ sender[s].close /\ ~sender[s].delivered}

\* An owner whose last shutdown was rejected has no other left in TDLib: its
\* record may say that no close was sent.
Budget ==
    ~failed => \A c \in Clients :
      td[c].closes + td[c].rejected + Cardinality(Underway(c)) <= owner[c].shutdown

\* What the worker holds across an unlocked section is still so.
WorkerKnows ==
    LET c == worker.client
        r == rec[c]
    IN  /\ worker.pc = "ack" => r.terminal \/ r.state = "retired"
        /\ worker.pc = "poll" => \A d \in Clients : rec[d].work = "None"
        /\ worker.pc \in {"work", "finish"} /\ worker.work = "Notify" =>
             Over(td[c]) /\ (r.terminal \/ (~r.materialized /\ ~r.uncertain))
        /\ worker.pc \in {"work", "finish"} /\ worker.work # "Notify" =>
             /\ worker.work = "Close" /\ r.materialized /\ ~r.notified
             /\ ~r.terminal /\ ~r.close_sent /\ ~r.close_uncertain

\* Teardown is safe once the drain has said so, and stays safe.
Quiet ==
    phase = "Quiescent" =>
      /\ failed /\ worker.pc = "done"
      /\ \A c \in Clients : Over(td[c])
      /\ \A s \in Senders : sender[s] = Idle

Safe ==
    /\ \A c \in Clients : Fits(c)
    /\ Budget /\ WorkerKnows /\ Quiet /\ DrainExcludesSends


-----------------------------------------------------------------------------
(***************************************************************************)
(* The ends of critical sections.                                          *)
(***************************************************************************)

\* refreshWork() lists the record, and changes nothing that TDLib's state bears on.
LEMMA RefreshedFits ==
    ASSUME NEW x \in Record, NEW f \in BOOLEAN, NEW y, y = [x EXCEPT !.work = Desired(x, f)],
           NEW t, NEW sent, NEW closing, NEW visited
    PROVE  /\ Listed(y, f, visited)
           /\ Runs(x, t, sent) => Runs(y, t, sent)
           /\ Closes(x, t, closing) => Closes(y, t, closing)
           /\ Announced(x) => Announced(y)
<1>1. /\ y.state = x.state /\ y.materialized = x.materialized /\ y.close_sent = x.close_sent
      /\ y.terminal = x.terminal /\ y.uncertain = x.uncertain /\ y.notified = x.notified
      /\ y.close_uncertain = x.close_uncertain /\ y.busy = x.busy /\ y.active = x.active
      /\ y.work = Desired(x, f)
  BY DesiredType DEF Record
<1>2. Desired(y, f) = Desired(x, f)
  BY <1>1 DEF Desired
<1>3. Listed(y, f, visited)
  BY <1>1, <1>2 DEF Listed
<1>4. Runs(x, t, sent) => Runs(y, t, sent)
  BY <1>1 DEF Runs
<1>5. Closes(x, t, closing) => Closes(y, t, closing)
  BY <1>1 DEF Closes
<1>6. Announced(x) => Announced(y)
  BY <1>1 DEF Announced
<1> QED
  BY <1>3, <1>4, <1>5, <1>6

\* The record that retireIfReady() erases, and whether it does.
Retirable(r) ==
    /\ r.notified /\ r.active = 0 /\ ~r.busy
    /\ r.terminal \/ (~r.materialized /\ ~r.uncertain)

LEMMA FinishRec ==
    ASSUME NEW p, Good(p), NEW f \in BOOLEAN
    PROVE  RetireIfReady(RefreshWork(p, f)).r =
             IF Retirable(p.r) THEN Blank("retired") ELSE [p.r EXCEPT !.work = Desired(p.r, f)]
<1>1. PICK w : w = RefreshWork(p, f)
  OBVIOUS
<1>2. Good(w) /\ w.r = [p.r EXCEPT !.work = Desired(p.r, f)]
  BY <1>1, RefreshWorkSound
<1>3. p.r \in Record
  BY DEF Good, Local
<1>4. /\ w.r.notified = p.r.notified /\ w.r.active = p.r.active
      /\ w.r.busy = p.r.busy /\ w.r.terminal = p.r.terminal
      /\ w.r.materialized = p.r.materialized /\ w.r.uncertain = p.r.uncertain
  BY <1>2, <1>3 DEF Record
<1>5. CASE Retirable(p.r)
  <2>1. RetireIfReady(w) = Erase(Unlink(w))
    BY <1>4, <1>5 DEF Retirable, RetireIfReady
  <2> QED
    BY <1>1, <1>5, <2>1 DEF Erase
<1>6. CASE ~Retirable(p.r)
  <2>1. RetireIfReady(w) = w
    BY <1>4, <1>6 DEF Retirable, RetireIfReady
  <2> QED
    BY <1>1, <1>2, <1>6, <2>1
<1> QED
  BY <1>5, <1>6

\* A record that is erased is over in TDLib, and one that stays still fits.
LEMMA FinishFits ==
    ASSUME NEW p, Good(p), NEW f \in BOOLEAN,
           NEW y, y = RetireIfReady(RefreshWork(p, f)).r,
           NEW t, NEW sent, NEW closing, NEW visited,
           Runs(p.r, t, sent), Closes(p.r, t, closing), sent => p.r.active # 0,
           p.r.notified => p.r.terminal \/ (~p.r.materialized /\ ~p.r.uncertain /\ p.r.active = 0)
    PROVE  /\ Runs(y, t, sent) /\ Listed(y, f, visited)
           /\ Closes(y, t, closing) /\ Announced(y)
           /\ y.terminal => p.r.terminal
<1>1. p.r \in Record /\ p.r.state = "live"
  BY DEF Good, Local
<1>2. CASE Retirable(p.r)
  <2>1. y = Blank("retired")
    BY <1>2, FinishRec
  <2>2. Over(t)
    BY <1>1, <1>2 DEF Retirable, Runs, Over
  <2>3. closing => Heard(t)
    BY DEF Closes
  <2> QED
    BY <2>1, <2>2, <2>3 DEF Runs, Listed, Closes, Announced, Blank
<1>3. CASE ~Retirable(p.r)
  <2>1. y = [p.r EXCEPT !.work = Desired(p.r, f)]
    BY <1>3, FinishRec
  <2>2. Announced(p.r)
    <3>1. p.r.active # 0 \/ p.r.busy \/ ~p.r.notified
      BY <1>1, <1>3 DEF Retirable
    <3> QED
      BY <3>1 DEF Announced
  <2>3. Runs(y, t, sent) /\ Listed(y, f, visited) /\ Closes(y, t, closing) /\ Announced(y)
    BY <1>1, <2>1, <2>2, RefreshedFits
  <2>4. y.terminal = p.r.terminal
    BY <1>1, <2>1 DEF Record
  <2> QED
    BY <2>3, <2>4
<1> QED
  BY <1>2, <1>3

-----------------------------------------------------------------------------
(***************************************************************************)
(* Sends in flight.                                                        *)
(***************************************************************************)

\* Whoever has a send in flight has a live record.
LEMMA AllPinned ==
    Inv => \A s \in Senders, c \in Clients :
             sender[s].client = c => Live(c) /\ rec[c].active # 0
<1> SUFFICES ASSUME Inv, NEW s \in Senders, NEW c \in Clients, sender[s].client = c
             PROVE  Live(c) /\ rec[c].active # 0
  OBVIOUS
<1>1. sender[s] # Idle
  BY NoClientAssumption DEF Idle
<1> QED
  BY <1>1, SenderPins

LEMMA AllPinnedNext ==
    Inv' => (\A s \in Senders, c \in Clients :
               sender[s].client = c => Live(c) /\ rec[c].active # 0)'
  BY AllPinned, PTL

\* A send of one client leaves what is not recorded of the others.
LEMMA OtherSends ==
    ASSUME Inv, NEW s \in Senders, NEW x, NEW c \in Clients,
           sender' = [sender EXCEPT ![s] = x],
           sender[s].client \in {c, NoClient}, x.client \in {c, NoClient},
           UNCHANGED worker
    PROVE  \A d \in Clients : d # c => /\ Sent(d)' <=> Sent(d)
                                       /\ Closing(d)' <=> Closing(d)
                                       /\ Underway(d)' = Underway(d)
<1>1. sender'[s] = x /\ \A u \in Senders : u # s => sender'[u] = sender[u]
  BY DEF Inv, TypeOK
<1>2. ASSUME NEW d \in Clients, d # c
      PROVE  /\ Sent(d)' <=> Sent(d)
             /\ Closing(d)' <=> Closing(d)
             /\ Underway(d)' = Underway(d)
  <2>1. sender[s].client # d /\ sender'[s].client # d
    BY <1>1, <1>2, NoClientAssumption
  <2>2. Sent(d)' <=> Sent(d)
    BY <1>1, <2>1 DEF Sent
  <2>3. Closing(d)' <=> Closing(d)
    BY <1>1, <2>1 DEF Closing
  <2>4. \A u \in Senders : u \in Underway(d)' <=> u \in Underway(d)
    BY <1>1, <2>1 DEF Underway
  <2>5. Underway(d)' = Underway(d)
    BY <2>4 DEF Underway
  <2> QED
    BY <2>2, <2>3, <2>5
<1> QED
  BY <1>2

\* The closes of a client on their way change with its own sends only.
LEMMA UnderwayStep ==
    ASSUME Inv, NEW s \in Senders, NEW x, NEW c \in Clients,
           sender' = [sender EXCEPT ![s] = x]
    PROVE  /\ Cardinality(Underway(c)) \in Nat /\ Cardinality(Underway(c)') \in Nat
           /\ Cardinality(Underway(c)') - One(x.client = c /\ x.close /\ ~x.delivered)
                = Cardinality(Underway(c))
                    - One(sender[s].client = c /\ sender[s].close /\ ~sender[s].delivered)
<1>1. sender'[s] = x /\ \A u \in Senders : u # s => sender'[u] = sender[u]
  BY DEF Inv, TypeOK
<1>2. PICK S, T : S = Underway(c) /\ T = Underway(c)'
  OBVIOUS
<1>3. /\ S \in SUBSET Senders /\ T \in SUBSET Senders
      /\ \A u \in Senders \ {s} : u \in S <=> u \in T
      /\ s \in T <=> x.client = c /\ x.close /\ ~x.delivered
      /\ s \in S <=> sender[s].client = c /\ sender[s].close /\ ~sender[s].delivered
  BY <1>1, <1>2 DEF Underway
<1>4. /\ Cardinality(S) \in Nat /\ Cardinality(T) \in Nat
      /\ Cardinality(T) - One(s \in T) = Cardinality(S) - One(s \in S)
  BY <1>3, CardinalityStep, SendersFinite
<1> QED
  BY <1>2, <1>3, <1>4 DEF One

\* A step that concerns no other client than c.
Elsewhere(c) ==
    \A d \in Clients \ {c} :
      /\ rec'[d] = rec[d] /\ td'[d] = td[d] /\ owner'[d].shutdown = owner[d].shutdown
      /\ (Sent(d)' <=> Sent(d)) /\ (Closing(d)' <=> Closing(d))
      /\ Underway(d)' = Underway(d)

\* One client changes, and the others keep fitting.
LEMMA FitsStep ==
    ASSUME \A d \in Clients : Fits(d), NEW c \in Clients, Elsewhere(c),
           UNCHANGED failed, InDrain' => InDrain, Fits(c)'
    PROVE  \A d \in Clients : Fits(d)'
<1>1. ASSUME NEW d \in Clients, d # c PROVE Fits(d)'
  <2>1. Fits(d)
    OBVIOUS
  <2>2. rec'[d] = rec[d] /\ td'[d] = td[d] /\ (Sent(d)' <=> Sent(d)) /\ (Closing(d)' <=> Closing(d))
    BY <1>1 DEF Elsewhere
  <2>3. Runs(rec[d], td[d], Sent(d))'
    BY <2>1, <2>2 DEF Fits, Runs, Over
  <2>4. Listed(rec[d], failed, InDrain)'
    BY <2>1, <2>2 DEF Fits, Listed, Desired
  <2>5. Closes(rec[d], td[d], Closing(d))'
    BY <2>1, <2>2 DEF Fits, Closes, Heard
  <2>6. Announced(rec[d])'
    BY <2>1, <2>2 DEF Fits, Announced
  <2> QED
    BY <2>3, <2>4, <2>5, <2>6 DEF Fits
<1> QED
  BY <1>1

\* What an owner, a send or TDLib may do to the record r and the state t of a
\* client, while the worker is somewhere in its own work.
Polite(r, q, t, u) ==
    /\ r.terminal \/ r.state = "retired" => q.terminal \/ q.state = "retired"
    /\ InDrain =>
         \/ q = r
         \/ /\ ~r.materialized /\ ~q.materialized /\ ~q.uncertain /\ q.work = "None"
    /\ InDrain \/ phase = "Quiescent" => (Over(t) => Over(u))

\* The steps of owners, of sends and of TDLib.
LEMMA CallerStep ==
    ASSUME Inv, Safe, NEW c \in Clients, Elsewhere(c), UNCHANGED <<phase, failed, worker>>,
           Fits(c)', Polite(rec[c], rec'[c], td[c], td'[c]),
           InDrain \/ phase = "Quiescent" => sender' = sender,
           ~failed => td'[c].closes + td'[c].rejected + Cardinality(Underway(c)')
                        <= owner'[c].shutdown
    PROVE  Safe'
<1>1. \A d \in Clients : Fits(d)'
  BY FitsStep DEF Safe, InDrain
<1>2. Budget'
  <2>1. ASSUME NEW d \in Clients, ~failed
        PROVE  td'[d].closes + td'[d].rejected + Cardinality(Underway(d)') <= owner'[d].shutdown
    <3>1. CASE d = c
      BY <2>1, <3>1
    <3>2. CASE d # c
      BY <2>1, <3>2 DEF Safe, Budget, Elsewhere
    <3> QED
      BY <3>1, <3>2
  <2> QED
    BY <2>1 DEF Budget
<1>3. WorkerKnows'
  <2>1. \A d \in Clients \ {c} : rec'[d] = rec[d] /\ td'[d] = td[d]
    BY DEF Elsewhere
  <2>2. worker.pc \in {"ack", "work", "finish"} => worker.client \in Clients
    BY DEF Inv, Handles
  <2>3. worker.pc = "ack" => (rec[worker.client].terminal \/ rec[worker.client].state = "retired")'
    BY <2>1, <2>2 DEF Safe, WorkerKnows, Polite
  <2>4. worker.pc = "poll" => \A d \in Clients : rec'[d].work = "None"
    BY <2>1 DEF Safe, WorkerKnows, Polite, InDrain
  <2>5. ASSUME worker.pc \in {"work", "finish"}, worker.work = "Notify"
        PROVE  LET d == worker.client IN
               Over(td'[d]) /\ (rec'[d].terminal \/ (~rec'[d].materialized /\ ~rec'[d].uncertain))
    BY <2>1, <2>2, <2>5 DEF Safe, WorkerKnows, Polite, InDrain
  <2>6. ASSUME worker.pc \in {"work", "finish"}, worker.work # "Notify"
        PROVE  rec'[worker.client] = rec[worker.client]
    BY <2>1, <2>2, <2>6 DEF Safe, WorkerKnows, Polite, InDrain
  <2> QED
    BY <2>3, <2>4, <2>5, <2>6 DEF Safe, WorkerKnows
<1>4. Quiet'
  <2>1. ASSUME phase = "Quiescent" PROVE \A d \in Clients : Over(td'[d])
    BY <2>1 DEF Safe, Quiet, Polite, Elsewhere
  <2> QED
    BY <2>1 DEF Safe, Quiet
<1>5. DrainExcludesSends'
  BY DEF Safe, DrainExcludesSends, InDrain
<1> QED
  BY <1>1, <1>2, <1>3, <1>4, <1>5 DEF Safe

\* A step of no thread leaves what is on its way as it is.
LEMMA SendsStay ==
    ASSUME UNCHANGED <<sender, worker>>
    PROVE  \A d \in Clients : /\ Sent(d)' <=> Sent(d)
                              /\ Closing(d)' <=> Closing(d)
                              /\ Underway(d)' = Underway(d)
  BY DEF Sent, Closing, Underway

\* Without a failure the drain has not begun, nor ended.
LEMMA NotFailed ==
    Inv /\ Safe /\ ~failed => /\ ~InDrain /\ phase # "Quiescent"
                              /\ worker.pc \notin {"pick", "poll", "work", "finish"}
  BY DEF Inv, Handles, Safe, Quiet, InDrain

-----------------------------------------------------------------------------
(***************************************************************************)
(* The owners' steps.                                                      *)
(***************************************************************************)

\* A new record: nothing of the identity was ever sent.
LEMMA RegisterSafe ==
    ASSUME Inv, Safe, NEW c \in Clients, RegisterClient(c)
    PROVE  Safe'
<1>1. /\ rec[c].state = "unknown" /\ ~failed
      /\ rec' = [rec EXCEPT ![c] = Blank("live")]
      /\ owner' = [owner EXCEPT ![c].state = "creating"]
      /\ UNCHANGED <<phase, failed, worker, sender, td>>
  BY DEF RegisterClient, Inv, Handles
<1>2. rec'[c] = Blank("live") /\ \A d \in Clients : owner'[d].shutdown = owner[d].shutdown
  BY <1>1 DEF Inv, TypeOK
<1>3. Elsewhere(c)
  BY <1>1, <1>2, SendsStay DEF Elsewhere, Inv, TypeOK
<1>4. ~Sent(c) /\ ~Closing(c)
  <2>1. \A s \in Senders : sender[s].client # c
    BY <1>1, AllPinned DEF Live
  <2> QED
    BY <1>1, <2>1, NotFailed DEF Sent, Closing
<1>5. Fits(c)'
  <2>1. Runs(rec[c], td[c], Sent(c))
    BY DEF Safe, Fits
  <2>2. td'[c].actor = "none" /\ td'[c].closes = 0 /\ ~Sent(c)' /\ ~Closing(c)'
    BY <1>1, <1>4, <2>1, SendsStay DEF Runs
  <2>3. Runs(rec[c], td[c], Sent(c))' /\ Closes(rec[c], td[c], Closing(c))'
    BY <1>2, <2>2 DEF Runs, Closes, Over, Blank
  <2>4. Listed(rec[c], failed, InDrain)' /\ Announced(rec[c])'
    BY <1>1, <1>2 DEF Listed, Announced, Desired, Blank
  <2> QED
    BY <2>3, <2>4 DEF Fits
<1>6. Polite(rec[c], rec'[c], td[c], td'[c]) /\ ~InDrain /\ phase # "Quiescent"
  <2>1. WellFormed(rec[c])
    BY DEF Inv
  <2>2. ~rec[c].terminal
    BY <1>1, <2>1 DEF WellFormed, Blank
  <2> QED
    BY <1>1, <2>2, NotFailed DEF Polite
<1>7. td'[c].closes + td'[c].rejected + Cardinality(Underway(c)') <= owner'[c].shutdown
  BY <1>1, <1>2, SendsStay DEF Safe, Budget
<1> QED
  BY <1>1, <1>3, <1>5, <1>6, <1>7, CallerStep

\* The client is handed to Lua.
LEMMA PublishSafe ==
    ASSUME Inv, Safe, NEW c \in Clients, UNCHANGED <<rec, phase, failed, worker, sender, td>>,
           \A d \in Clients : owner'[d].shutdown = owner[d].shutdown
    PROVE  Safe'
<1>1. Elsewhere(c) /\ Fits(c)'
  <2>1. Elsewhere(c)
    BY SendsStay DEF Elsewhere
  <2>2. Fits(c) /\ (Sent(c)' <=> Sent(c)) /\ (Closing(c)' <=> Closing(c))
    BY SendsStay DEF Safe
  <2>3. Fits(c)'
    BY <2>2 DEF Fits, Runs, Listed, Closes, Announced, InDrain, Over, Heard, Desired
  <2> QED
    BY <2>1, <2>3
<1>2. Polite(rec[c], rec'[c], td[c], td'[c])
  BY DEF Polite
<1>3. ~failed => td'[c].closes + td'[c].rejected + Cardinality(Underway(c)') <= owner'[c].shutdown
  BY SendsStay DEF Safe, Budget
<1> QED
  BY <1>1, <1>2, <1>3, CallerStep

\* An identity that never reached TDLib goes.
LEMMA RetireSafe ==
    ASSUME Inv, Safe, NEW c \in Clients, RetireUnused(c) \/ RetireReserved(c)
    PROVE  Safe'
<1>1. /\ owner' = [owner EXCEPT ![c].state = "gone"]
      /\ UNCHANGED <<phase, failed, worker, sender, td>>
      /\ \/ /\ Live(c) /\ ~rec[c].materialized /\ ~rec[c].uncertain /\ rec[c].active = 0
            /\ NotifyAndRetire(c)
         \/ rec' = rec
  BY DEF RetireUnused, RetireReserved
<1>2. \A d \in Clients : owner'[d].shutdown = owner[d].shutdown
  BY <1>1 DEF Inv, TypeOK
<1>3. CASE rec' = rec
  BY <1>1, <1>2, <1>3, PublishSafe
<1>4. CASE Live(c) /\ ~rec[c].materialized /\ ~rec[c].uncertain /\ rec[c].active = 0
           /\ NotifyAndRetire(c)
  <2>0. PICK p : p = With(At(c), "notified", TRUE)
    OBVIOUS
  <2>1. /\ Good(At(c)) /\ Good(p) /\ p.r = [rec[c] EXCEPT !["notified"] = TRUE]
        /\ failed \in BOOLEAN
    BY <1>4, <2>0, LiveGood, WithSound DEF At, Inv, TypeOK
  <2>2. /\ p.r.state = "live" /\ ~p.r.materialized /\ ~p.r.uncertain /\ p.r.active = 0
        /\ p.r.notified /\ p.r.terminal = rec[c].terminal /\ p.r.close_sent = rec[c].close_sent
        /\ p.r.close_uncertain = rec[c].close_uncertain
    BY <1>4, <2>1 DEF Live, Inv, TypeOK, Record
  <2>3. Commit(c, RetireIfReady(RefreshWork(p, failed)))
    BY <1>4, <2>0 DEF NotifyAndRetire
  <2>4. rec'[c] = RetireIfReady(RefreshWork(p, failed)).r /\ \A d \in Clients \ {c} : rec'[d] = rec[d]
    BY <2>3 DEF Commit, Inv, TypeOK
  <2>5. Elsewhere(c)
    BY <1>1, <1>2, <2>4, SendsStay DEF Elsewhere
  <2>6. ~Sent(c) /\ ~rec[c].terminal
    BY <1>4, AllPinned DEF Sent, Inv, WellFormed
  <2>7. Fits(c)'
    <3>1. Runs(rec[c], td[c], Sent(c)) /\ Closes(rec[c], td[c], Closing(c))
      BY DEF Safe, Fits
    <3>2. Runs(p.r, td[c], Sent(c)) /\ Closes(p.r, td[c], Closing(c))
      BY <1>4, <2>2, <3>1 DEF Runs, Closes, Live
    <3>3. PICK y, t, sent, closing, visited :
            /\ y = RetireIfReady(RefreshWork(p, failed)).r /\ t = td[c] /\ sent = Sent(c)
            /\ closing = Closing(c) /\ visited = InDrain
      OBVIOUS
    <3>4. /\ Runs(y, t, sent) /\ Listed(y, failed, visited)
          /\ Closes(y, t, closing) /\ Announced(y)
      <4>1. PICK f : f = failed
        OBVIOUS
      <4>2. y = RetireIfReady(RefreshWork(p, f)).r /\ f \in BOOLEAN /\ Good(p)
        BY <2>1, <3>3, <4>1
      <4>3. Runs(p.r, t, sent) /\ Closes(p.r, t, closing) /\ (sent => p.r.active # 0)
        BY <2>6, <3>2, <3>3
      <4>4. p.r.notified => p.r.terminal \/ (~p.r.materialized /\ ~p.r.uncertain /\ p.r.active = 0)
        BY <2>2
      <4>5. /\ Runs(y, t, sent) /\ Listed(y, f, visited)
            /\ Closes(y, t, closing) /\ Announced(y)
        BY <4>2, <4>3, <4>4, FinishFits
      <4> QED
        BY <4>1, <4>5
    <3>5. y = rec'[c] /\ t = td'[c] /\ sent = Sent(c)' /\ closing = Closing(c)' /\ visited = InDrain'
      BY <1>1, <2>4, <3>3, SendsStay DEF InDrain, Sent, Closing
    <3> QED
      BY <1>1, <3>4, <3>5 DEF Fits
  <2>8. Polite(rec[c], rec'[c], td[c], td'[c])
    <3>1. ~rec'[c].materialized /\ ~rec'[c].uncertain /\ rec'[c].work = "None"
      <4>1. CASE Retirable(p.r)
        <5>1. rec'[c] = Blank("retired")
          BY <2>1, <2>4, <4>1, FinishRec
        <5> QED
          BY <5>1 DEF Blank
      <4>2. CASE ~Retirable(p.r)
        <5>1. rec'[c] = [p.r EXCEPT !.work = Desired(p.r, failed)] /\ p.r \in Record
          BY <2>1, <2>4, <4>2, FinishRec DEF Good, Local
        <5>2. Desired(p.r, failed) = "None"
          BY <2>2 DEF Desired
        <5> QED
          BY <2>2, <5>1, <5>2 DEF Record
      <4> QED
        BY <4>1, <4>2
    <3> QED
      BY <1>1, <1>4, <2>6, <3>1 DEF Polite, Live
  <2>9. ~failed => td'[c].closes + td'[c].rejected + Cardinality(Underway(c)') <= owner'[c].shutdown
    BY <1>1, <1>2, SendsStay DEF Safe, Budget
  <2> QED
    BY <1>1, <2>5, <2>7, <2>8, <2>9, CallerStep
<1> QED
  BY <1>1, <1>3, <1>4

-----------------------------------------------------------------------------
(***************************************************************************)
(* Sends.                                                                  *)
(***************************************************************************)

\* A send is admitted.
LEMMA BeginSendSafe ==
    ASSUME Inv, Safe, NEW s \in Senders, NEW c \in Clients, NEW close \in BOOLEAN,
           BeginSend(s, c, close)
    PROVE  Safe'
<1>0. PICK x : x = [client |-> c, close |-> close, delivered |-> FALSE]
  OBVIOUS
<1>1. /\ sender[s] = Idle /\ ~failed /\ Live(c) /\ ~rec[c].terminal /\ ~rec[c].notified
      /\ rec' = [rec EXCEPT ![c].active = @ + 1]
      /\ sender' = [sender EXCEPT ![s] = x]
      /\ owner' = [owner EXCEPT ![c].shutdown = IF close THEN @ + 1 ELSE @]
      /\ UNCHANGED <<phase, failed, worker, td>>
  BY <1>0 DEF BeginSend
<1>2. /\ x.client = c /\ x.close = close /\ ~x.delivered
      /\ sender[s].client = NoClient /\ sender[s].client # c /\ ~sender[s].delivered
      /\ NoClient \notin Clients
  BY <1>0, <1>1, NoClientAssumption DEF Idle
<1>3. /\ rec'[c] = [rec[c] EXCEPT !.active = @ + 1] /\ rec[c] \in Record
      /\ \A d \in Clients \ {c} : /\ rec'[d] = rec[d]
                                  /\ owner'[d].shutdown = owner[d].shutdown
      /\ owner'[c].shutdown = owner[c].shutdown + One(close)
      /\ sender'[s] = x /\ \A u \in Senders : u # s => sender'[u] = sender[u]
  <2>1. owner'[c].shutdown = IF close THEN owner[c].shutdown + 1 ELSE owner[c].shutdown
    BY <1>1 DEF Inv, TypeOK
  <2> QED
    BY <1>1, <2>1 DEF Inv, TypeOK, One
<1>4. Elsewhere(c)
  <2>1. \A d \in Clients : d # c => /\ Sent(d)' <=> Sent(d)
                                    /\ Closing(d)' <=> Closing(d)
                                    /\ Underway(d)' = Underway(d)
    BY <1>1, <1>2, OtherSends
  <2>2. \A d \in Clients \ {c} : rec'[d] = rec[d] /\ td'[d] = td[d]
                                     /\ owner'[d].shutdown = owner[d].shutdown
    BY <1>1, <1>3
  <2> QED
    BY <2>1, <2>2 DEF Elsewhere
<1>5. Fits(c)'
  <2>1. (Sent(c)' <=> Sent(c)) /\ (Closing(c)' <=> Closing(c))
    <3>1. Sent(c)' <=> Sent(c)
      BY <1>2, <1>3 DEF Sent
    <3>2. Closing(c)' <=> Closing(c)
      BY <1>1, <1>2, <1>3 DEF Closing
    <3> QED
      BY <3>1, <3>2
  <2>2. /\ rec'[c].state = rec[c].state /\ rec'[c].materialized = rec[c].materialized
        /\ rec'[c].close_sent = rec[c].close_sent /\ rec'[c].terminal = rec[c].terminal
        /\ rec'[c].uncertain = rec[c].uncertain /\ rec'[c].notified = rec[c].notified
        /\ rec'[c].close_uncertain = rec[c].close_uncertain /\ rec'[c].busy = rec[c].busy
        /\ rec'[c].work = rec[c].work
    BY <1>3 DEF Record
  <2>3. Fits(c)
    BY DEF Safe
  <2>4. Runs(rec[c], td[c], Sent(c))' /\ Closes(rec[c], td[c], Closing(c))'
    BY <1>1, <2>1, <2>2, <2>3 DEF Fits, Runs, Closes, Over, Heard
  <2>5. Listed(rec[c], failed, InDrain)' /\ Announced(rec[c])'
    BY <1>1, <2>2, <2>3 DEF Fits, Listed, Desired, InDrain, Announced
  <2> QED
    BY <2>4, <2>5 DEF Fits
<1>6. Polite(rec[c], rec'[c], td[c], td'[c]) /\ ~InDrain /\ phase # "Quiescent"
  BY <1>1, NotFailed DEF Polite, Live
<1>7. td'[c].closes + td'[c].rejected + Cardinality(Underway(c)') <= owner'[c].shutdown
  <2>1. td[c].closes + td[c].rejected + Cardinality(Underway(c)) <= owner[c].shutdown
    BY <1>1 DEF Safe, Budget
  <2>2. /\ Cardinality(Underway(c)) \in Nat /\ Cardinality(Underway(c)') \in Nat
        /\ Cardinality(Underway(c)') - One(close) = Cardinality(Underway(c)) - One(FALSE)
    <3>1. (x.client = c /\ x.close /\ ~x.delivered) = close
      BY <1>2
    <3>2. (sender[s].client = c /\ sender[s].close /\ ~sender[s].delivered) = FALSE
      BY <1>2
    <3> QED
      BY <1>1, <3>1, <3>2, UnderwayStep
  <2>3. td[c].closes \in Nat /\ td[c].rejected \in Nat /\ owner[c].shutdown \in Nat
    BY DEF Inv, TypeOK
  <2> QED
    BY <1>1, <1>3, <2>1, <2>2, <2>3 DEF One
<1> QED
  BY <1>1, <1>4, <1>5, <1>6, <1>7, CallerStep

\* A request reaches TDLib.
LEMMA TdSendSafe ==
    ASSUME Inv, Safe, NEW s \in Senders, TdSend(s)
    PROVE  Safe'
<1>0. PICK c, close, x : c = sender[s].client /\ close = sender[s].close
                         /\ x = [sender[s] EXCEPT !.delivered = TRUE]
  OBVIOUS
<1>1. /\ sender[s] # Idle /\ ~sender[s].delivered /\ TdAccept(c, close)
      /\ sender' = [sender EXCEPT ![s] = x]
      /\ UNCHANGED <<rec, phase, failed, worker, owner>>
  BY <1>0 DEF TdSend
<1>2. c \in Clients /\ Live(c) /\ ~InDrain /\ phase # "Quiescent" /\ close \in BOOLEAN
  BY <1>0, <1>1, SenderPins DEF Safe, DrainExcludesSends, InDrain, Quiet, Inv, TypeOK
<1>3. /\ x.client = c /\ x.close = close /\ x.delivered
      /\ sender'[s] = x /\ \A u \in Senders : u # s => sender'[u] = sender[u]
  BY <1>0, <1>1 DEF Inv, TypeOK
<1> DEFINE t == td[c]
           u == td'[c]
<1>4. /\ t \in [actor : {"none", "open", "terminating", "closed"},
                closes : Nat, rejected : Nat, refused : BOOLEAN]
      /\ t.actor = "closed" => u = t
      /\ t.actor # "closed" =>
           u = [actor |-> IF t.actor = "none" THEN "open" ELSE t.actor,
                closes |-> IF close THEN t.closes + 1 ELSE t.closes,
                rejected |-> t.rejected, refused |-> t.refused]
      /\ \A d \in Clients \ {c} : td'[d] = td[d]
  BY <1>1, <1>2 DEF TdAccept, Inv, TypeOK
<1>5. /\ t.actor # "closed" =>
           /\ u.actor = IF t.actor = "none" THEN "open" ELSE t.actor
           /\ u.closes = IF close THEN t.closes + 1 ELSE t.closes
      /\ u.rejected = t.rejected /\ u.refused = t.refused
  BY <1>4
<1> HIDE DEF t, u
<1>6. Elsewhere(c)
  <2>1. \A d \in Clients : d # c => /\ Sent(d)' <=> Sent(d)
                                    /\ Closing(d)' <=> Closing(d)
                                    /\ Underway(d)' = Underway(d)
    BY <1>0, <1>1, <1>2, <1>3, OtherSends
  <2>2. \A d \in Clients \ {c} : rec'[d] = rec[d] /\ td'[d] = td[d]
                                     /\ owner'[d].shutdown = owner[d].shutdown
    BY <1>1, <1>4
  <2> QED
    BY <2>1, <2>2 DEF Elsewhere
<1>7. Fits(c)'
  <2>1. /\ Sent(c)' /\ (Closing(c)' <=> Closing(c) \/ close)
    <3>1. Sent(c)'
      BY <1>3 DEF Sent
    <3>2. Closing(c)' <=> Closing(c) \/ close
      BY <1>0, <1>1, <1>3 DEF Closing
    <3> QED
      BY <3>1, <3>2
  <2>2. Runs(rec[c], t, Sent(c)) /\ Closes(rec[c], t, Closing(c)) /\ Announced(rec[c])
        /\ Listed(rec[c], failed, InDrain)
    BY <1>2 DEF Safe, Fits, t
  <2>3. Runs(rec[c], u, Sent(c)')
    BY <1>2, <1>4, <1>5, <2>1, <2>2 DEF Runs, Over, Live
  <2>4. Closes(rec[c], u, Closing(c)')
    <3>1. Heard(t) => Heard(u)
      BY <1>4, <1>5, <2>2 DEF Heard, Runs
    <3>2. close => Heard(u)
      BY <1>4, <1>5 DEF Heard
    <3>3. ~close /\ u.closes > 0 => t.closes > 0
      BY <1>4, <1>5
    <3> QED
      BY <2>1, <2>2, <3>1, <3>2, <3>3 DEF Closes
  <2> QED
    BY <1>1, <2>2, <2>3, <2>4 DEF Fits, Listed, Desired, Announced, InDrain, u
<1>8. Polite(rec[c], rec'[c], td[c], td'[c])
  BY <1>1, <1>2 DEF Polite
<1>9. ~failed => td'[c].closes + td'[c].rejected + Cardinality(Underway(c)') <= owner'[c].shutdown
  <2>1. ~failed => t.closes + t.rejected + Cardinality(Underway(c)) <= owner[c].shutdown
    BY <1>2 DEF Safe, Budget, t
  <2>2. /\ Cardinality(Underway(c)) \in Nat /\ Cardinality(Underway(c)') \in Nat
        /\ Cardinality(Underway(c)') - One(FALSE) = Cardinality(Underway(c)) - One(close)
    <3>1. (x.client = c /\ x.close /\ ~x.delivered) = FALSE
      BY <1>3
    <3>2. (sender[s].client = c /\ sender[s].close /\ ~sender[s].delivered) = close
      BY <1>0, <1>1, <1>2
    <3> QED
      BY <1>1, <1>2, <3>1, <3>2, UnderwayStep
  <2>3. owner[c].shutdown \in Nat
    BY <1>2 DEF Inv, TypeOK
  <2>4. u.closes <= t.closes + One(close) /\ u.closes \in Nat
    BY <1>2, <1>4, <1>5 DEF One
  <2>5. ~failed => u.closes + u.rejected + Cardinality(Underway(c)') <= owner[c].shutdown
    BY <1>4, <1>5, <2>1, <2>2, <2>3, <2>4 DEF One
  <2> QED
    BY <1>1, <2>5 DEF u
<1> QED
  BY <1>1, <1>2, <1>6, <1>7, <1>8, <1>9, CallerStep

\* What endSend() leaves of a record, before the lists are looked at.
LEMMA EndSendRec ==
    ASSUME NEW p, Good(p), NEW close \in BOOLEAN, NEW success \in BOOLEAN,
           NEW q, q = EndSendLocal(p, close, success).r
    PROVE  /\ q.state = "live" /\ q.notified = p.r.notified /\ q.terminal = p.r.terminal
           /\ q.materialized <=> p.r.materialized \/ success
           /\ q.uncertain <=> p.r.uncertain \/ (~success /\ ~p.r.terminal)
           /\ q.close_sent <=> p.r.close_sent \/ (success /\ close)
           /\ success => (q.close_uncertain <=> p.r.close_uncertain /\ ~close)
           /\ ~success => (q.close_uncertain <=> p.r.close_uncertain
                                                   \/ (close /\ ~p.r.terminal))
<1>0. PICK down : down = [r |-> [p.r EXCEPT !.active = @ - 1],
                          n |-> Add(p.n, "active_sends", -1)]
  OBVIOUS
<1>1. p.r \in Record /\ p.r.state = "live"
  BY DEF Good, Local
<1>2. /\ down.r \in [state : {"unknown", "live", "retired"},
                     materialized : BOOLEAN, close_sent : BOOLEAN, terminal : BOOLEAN,
                     uncertain : BOOLEAN, notified : BOOLEAN, close_uncertain : BOOLEAN,
                     busy : BOOLEAN, active : Int, work : {"None", "Close", "Notify"}]
      /\ down.r.state = p.r.state /\ down.r.notified = p.r.notified
      /\ down.r.terminal = p.r.terminal /\ down.r.materialized = p.r.materialized
      /\ down.r.uncertain = p.r.uncertain /\ down.r.close_sent = p.r.close_sent
      /\ down.r.close_uncertain = p.r.close_uncertain
  BY <1>0, <1>1 DEF Record
<1>3. EndSendLocal(p, close, success) =
        IF success THEN IF close THEN MarkCloseSent(Materialize(down)) ELSE Materialize(down)
        ELSE IF p.r.terminal THEN down
        ELSE IF close THEN With(SetUncertain(down, TRUE), "close_uncertain", TRUE)
                      ELSE SetUncertain(down, TRUE)
  BY <1>0 DEF EndSendLocal
<1>4. Materialize(down).r = [down.r EXCEPT !.materialized = TRUE]
  BY <1>2 DEF Materialize
<1>5. SetUncertain(down, TRUE).r = [down.r EXCEPT !.uncertain = TRUE]
  BY <1>2 DEF SetUncertain
<1>6. CASE success
  <2>1. PICK m : m = Materialize(down).r
    OBVIOUS
  <2>2. q = IF close THEN [[m EXCEPT !["close_sent"] = TRUE] EXCEPT !["close_uncertain"] = FALSE]
                     ELSE m
    BY <1>3, <1>6, <2>1 DEF MarkCloseSent, With
  <2>3. /\ m.state = "live" /\ m.notified = p.r.notified /\ m.terminal = p.r.terminal
        /\ m.materialized = TRUE /\ m.uncertain = p.r.uncertain
        /\ m.close_sent = p.r.close_sent /\ m.close_uncertain = p.r.close_uncertain
        /\ m \in Record
    BY <1>1, <1>2, <1>4, <2>1 DEF Record
  <2>4. CASE close
    BY <1>6, <2>2, <2>3, <2>4 DEF Record
  <2>5. CASE ~close
    BY <1>6, <2>2, <2>3, <2>5 DEF Record
  <2> QED
    BY <2>4, <2>5
<1>7. CASE ~success /\ p.r.terminal
  BY <1>1, <1>2, <1>3, <1>7
<1>8. CASE ~success /\ ~p.r.terminal
  <2>1. PICK m : m = SetUncertain(down, TRUE).r
    OBVIOUS
  <2>2. q = IF close THEN [m EXCEPT !["close_uncertain"] = TRUE] ELSE m
    BY <1>3, <1>8, <2>1 DEF With
  <2>3. /\ m.state = "live" /\ m.notified = p.r.notified /\ m.terminal = p.r.terminal
        /\ m.materialized = p.r.materialized /\ m.uncertain = TRUE
        /\ m.close_sent = p.r.close_sent /\ m.close_uncertain = p.r.close_uncertain
        /\ m \in Record
    BY <1>1, <1>2, <1>5, <2>1 DEF Record
  <2>4. CASE close
    BY <1>8, <2>2, <2>3, <2>4 DEF Record
  <2>5. CASE ~close
    BY <1>8, <2>2, <2>3, <2>5 DEF Record
  <2> QED
    BY <2>4, <2>5
<1> QED
  BY <1>6, <1>7, <1>8

\* td_send returned or threw.
LEMMA EndSendSafe ==
    ASSUME Inv, Inv', Safe, NEW s \in Senders, NEW success \in BOOLEAN, EndSend(s, success)
    PROVE  Safe'
<1>0. PICK c, close, p : c = sender[s].client /\ close = sender[s].close
                         /\ p = EndSendLocal(At(c), close, success)
  OBVIOUS
<1>1. /\ c \in Clients /\ Live(c) /\ rec[c].active # 0 /\ sender[s] # Idle
      /\ ~InDrain /\ phase # "Quiescent" /\ close \in BOOLEAN /\ failed \in BOOLEAN
  <2>1. sender[s] # Idle
    BY DEF EndSend
  <2> QED
    BY <1>0, <2>1, SenderPins DEF Safe, DrainExcludesSends, InDrain, Quiet, Inv, TypeOK
<1>2. /\ success => sender[s].delivered
      /\ Commit(c, RetireIfReady(RefreshWork(p, failed)))
      /\ sender' = [sender EXCEPT ![s] = Idle]
      /\ UNCHANGED <<phase, failed, worker, owner, td>>
  BY <1>0, <1>1 DEF EndSend
<1>3. /\ sender'[s] = Idle /\ \A u \in Senders : u # s => sender'[u] = sender[u]
      /\ Idle.client = NoClient /\ ~Idle.close /\ ~Idle.delivered /\ NoClient # c
  BY <1>1, <1>2, NoClientAssumption DEF Inv, TypeOK, Idle
<1>4. /\ rec'[c] = RetireIfReady(RefreshWork(p, failed)).r
      /\ \A d \in Clients \ {c} : rec'[d] = rec[d]
  BY <1>1, <1>2 DEF Commit, Inv, TypeOK
<1>5. Elsewhere(c)
  <2>1. \A d \in Clients : d # c => /\ Sent(d)' <=> Sent(d)
                                    /\ Closing(d)' <=> Closing(d)
                                    /\ Underway(d)' = Underway(d)
    BY <1>0, <1>1, <1>2, <1>3, OtherSends
  <2> QED
    BY <1>2, <1>4, <2>1 DEF Elsewhere
<1>6. /\ Good(At(c)) /\ At(c).r = rec[c] /\ Good(p)
  BY <1>0, <1>1, LiveGood, EndSendSound DEF At
<1>7. /\ p.r.state = "live" /\ p.r.notified = rec[c].notified /\ p.r.terminal = rec[c].terminal
      /\ p.r.materialized <=> rec[c].materialized \/ success
      /\ p.r.uncertain <=> rec[c].uncertain \/ (~success /\ ~rec[c].terminal)
      /\ p.r.close_sent <=> rec[c].close_sent \/ (success /\ close)
      /\ success => (p.r.close_uncertain <=> rec[c].close_uncertain /\ ~close)
      /\ ~success => (p.r.close_uncertain <=> rec[c].close_uncertain
                                                \/ (close /\ ~rec[c].terminal))
  BY <1>0, <1>1, <1>6, EndSendRec
<1>8. /\ Runs(rec[c], td[c], Sent(c)) /\ Closes(rec[c], td[c], Closing(c)) /\ Announced(rec[c])
  BY <1>1 DEF Safe, Fits
<1>9. /\ Closing(c)' => Closing(c)
      /\ ~close => (Closing(c)' <=> Closing(c))
      /\ success /\ close => Closing(c)
  BY <1>0, <1>1, <1>2, <1>3 DEF Closing
<1>10. Runs(p.r, td[c], Sent(c)')
  BY <1>1, <1>7, <1>8 DEF Runs, Live, Over
<1>11. Closes(p.r, td[c], Closing(c)')
  BY <1>1, <1>7, <1>8, <1>9 DEF Closes, Live
<1>12. p.r.notified => p.r.terminal
  BY <1>1, <1>7, <1>8 DEF Announced, Live
<1>13. Sent(c)' => p.r.active # 0
  <2>1. Settles(p, RetireIfReady(RefreshWork(p, failed)))
    BY <1>1, <1>6, FinishSound
  <2>2. rec'[c].active = p.r.active
    BY <1>4, <2>1 DEF Settles
  <2> QED
    BY <1>1, <2>2, AllPinnedNext DEF Sent
<1>14. Fits(c)'
  <2>1. PICK y, t, sent, closing, visited :
          /\ y = RetireIfReady(RefreshWork(p, failed)).r /\ t = td[c] /\ sent = Sent(c)'
          /\ closing = Closing(c)' /\ visited = InDrain
    OBVIOUS
  <2>2. /\ Runs(y, t, sent) /\ Listed(y, failed, visited)
        /\ Closes(y, t, closing) /\ Announced(y)
    BY <1>1, <1>6, <1>10, <1>11, <1>12, <1>13, <2>1, FinishFits
  <2>3. y = rec'[c] /\ t = td'[c] /\ visited = InDrain'
    BY <1>2, <1>4, <2>1 DEF InDrain
  <2> QED
    BY <1>2, <2>1, <2>2, <2>3 DEF Fits
<1>15. Polite(rec[c], rec'[c], td[c], td'[c])
  <2>1. rec[c].terminal => rec'[c].terminal \/ rec'[c].state = "retired"
    <3>1. CASE Retirable(p.r)
      <4>1. rec'[c] = Blank("retired")
        BY <1>1, <1>4, <1>6, <3>1, FinishRec
      <4> QED
        BY <4>1 DEF Blank
    <3>2. CASE ~Retirable(p.r)
      <4>1. rec'[c] = [p.r EXCEPT !.work = Desired(p.r, failed)] /\ p.r \in Record
        BY <1>1, <1>4, <1>6, <3>2, FinishRec DEF Good, Local
      <4> QED
        BY <1>7, <4>1 DEF Record
    <3> QED
      BY <3>1, <3>2
  <2> QED
    BY <1>1, <2>1 DEF Polite, Live
<1>16. ~failed => td'[c].closes + td'[c].rejected + Cardinality(Underway(c)') <= owner'[c].shutdown
  <2>1. ~failed => td[c].closes + td[c].rejected + Cardinality(Underway(c)) <= owner[c].shutdown
    BY <1>1 DEF Safe, Budget
  <2>2. /\ Cardinality(Underway(c)) \in Nat /\ Cardinality(Underway(c)') \in Nat
        /\ Cardinality(Underway(c)') - One(FALSE)
             = Cardinality(Underway(c)) - One(close /\ ~sender[s].delivered)
    <3>1. (Idle.client = c /\ Idle.close /\ ~Idle.delivered) = FALSE
      BY <1>3
    <3>2. (sender[s].client = c /\ sender[s].close /\ ~sender[s].delivered)
            = (close /\ ~sender[s].delivered)
      BY <1>0
    <3>3. PICK x : x = Idle
      OBVIOUS
    <3>4. /\ Cardinality(Underway(c)) \in Nat /\ Cardinality(Underway(c)') \in Nat
          /\ Cardinality(Underway(c)') - One(x.client = c /\ x.close /\ ~x.delivered)
               = Cardinality(Underway(c))
                   - One(sender[s].client = c /\ sender[s].close /\ ~sender[s].delivered)
      BY <1>1, <1>2, <3>3, UnderwayStep, ZenonT(40)
    <3> QED
      BY <3>1, <3>2, <3>3, <3>4
  <2>3. td[c].closes \in Nat /\ td[c].rejected \in Nat /\ owner[c].shutdown \in Nat
    BY <1>1 DEF Inv, TypeOK
  <2> QED
    BY <1>2, <2>1, <2>2, <2>3 DEF One
<1> QED
  BY <1>1, <1>2, <1>5, <1>14, <1>15, <1>16, CallerStep

-----------------------------------------------------------------------------
(***************************************************************************)
(* TDLib, and the owner that reads its answer.                             *)
(***************************************************************************)

\* The owner takes back its last shutdown.
LEMMA RejectionSafe ==
    ASSUME Inv, Safe, NEW c \in Clients, OwnerSeesRejection(c)
    PROVE  Safe'
<1> DEFINE rejects == owner[c].shutdown = 1 /\ ~failed /\ Live(c) /\ ~rec[c].terminal
<1>0. PICK p : p = With(With(At(c), "close_sent", FALSE), "close_uncertain", FALSE)
  OBVIOUS
<1>1. /\ td[c].rejected > 0 /\ owner[c].shutdown > 0
      /\ \A s \in Senders : sender[s].client # c
      /\ td' = [td EXCEPT ![c].rejected = @ - 1]
      /\ owner' = [owner EXCEPT ![c].shutdown = @ - 1]
      /\ rejects => Commit(c, RefreshWork(p, failed))
      /\ ~rejects => rec' = rec
      /\ UNCHANGED <<phase, failed, worker, sender>>
  BY <1>0 DEF OwnerSeesRejection
<1>2. /\ td[c] \in [actor : {"none", "open", "terminating", "closed"},
                    closes : Nat, rejected : Nat, refused : BOOLEAN]
      /\ td'[c] = [td[c] EXCEPT !.rejected = @ - 1]
      /\ owner[c].shutdown \in Nat /\ owner'[c].shutdown = owner[c].shutdown - 1
      /\ \A d \in Clients \ {c} : td'[d] = td[d] /\ owner'[d].shutdown = owner[d].shutdown
      /\ failed \in BOOLEAN
  BY <1>1 DEF Inv, TypeOK
<1>3. /\ td'[c].actor = td[c].actor /\ td'[c].closes = td[c].closes
      /\ td'[c].refused = td[c].refused /\ td'[c].rejected = td[c].rejected - 1
  BY <1>2
<1>4. /\ (Sent(c)' <=> Sent(c)) /\ (Closing(c)' <=> Closing(c)) /\ Underway(c)' = Underway(c)
      /\ (InDrain' <=> InDrain)
  BY <1>1, SendsStay DEF InDrain
<1>5. /\ Runs(rec[c], td[c], Sent(c)) /\ Closes(rec[c], td[c], Closing(c)) /\ Announced(rec[c])
      /\ Listed(rec[c], failed, InDrain)
  BY DEF Safe, Fits
<1>6. ~failed => /\ td[c].closes + td[c].rejected + Cardinality(Underway(c)) <= owner[c].shutdown
                 /\ Cardinality(Underway(c)) \in Nat
  <2>1. Cardinality(Underway(c)) \in Nat
    BY SendersFinite, FS_Subset, FS_CardinalityType DEF Underway
  <2> QED
    BY <2>1 DEF Safe, Budget
<1>7. ~failed => td'[c].closes + td'[c].rejected + Cardinality(Underway(c)') <= owner'[c].shutdown
  BY <1>2, <1>3, <1>4, <1>6
<1>8. CASE ~rejects
  <2>1. Elsewhere(c)
    BY <1>1, <1>2, <1>8, SendsStay DEF Elsewhere
  <2>2. Fits(c)'
    BY <1>1, <1>3, <1>4, <1>5, <1>8
       DEF Fits, Runs, Listed, Closes, Announced, Over, Heard, Desired
  <2>3. Polite(rec[c], rec'[c], td[c], td'[c])
    BY <1>1, <1>3, <1>8 DEF Polite, Over
  <2> QED
    BY <1>1, <1>7, <2>1, <2>2, <2>3, CallerStep
<1>9. CASE rejects
  <2>1. Good(At(c)) /\ At(c).r = rec[c] /\ FALSE \in BOOLEAN
    BY <1>9, LiveGood DEF At
  <2>2. Good(p) /\ p.r = [[rec[c] EXCEPT !["close_sent"] = FALSE] EXCEPT !["close_uncertain"] = FALSE]
    <3>1. PICK a : a = At(c)
      OBVIOUS
    <3>2. /\ Good(With(With(a, "close_sent", FALSE), "close_uncertain", FALSE))
          /\ With(With(a, "close_sent", FALSE), "close_uncertain", FALSE).r
               = [[a.r EXCEPT !["close_sent"] = FALSE] EXCEPT !["close_uncertain"] = FALSE]
      BY <2>1, <3>1, WithTwiceSound
    <3> QED
      BY <1>0, <2>1, <3>1, <3>2
  <2>3. /\ p.r \in Record /\ p.r.state = rec[c].state /\ p.r.materialized = rec[c].materialized
        /\ ~p.r.close_sent /\ ~p.r.close_uncertain /\ p.r.terminal = rec[c].terminal
        /\ p.r.uncertain = rec[c].uncertain /\ p.r.notified = rec[c].notified
        /\ p.r.busy = rec[c].busy /\ p.r.active = rec[c].active
    BY <2>1, <2>2 DEF Good, Local, Record
  <2>4. PICK y : y = RefreshWork(p, failed).r
    OBVIOUS
  <2>5. rec'[c] = y /\ \A d \in Clients \ {c} : rec'[d] = rec[d]
    BY <1>1, <1>9, <2>4 DEF Commit, Inv, TypeOK
  <2>6. y = [p.r EXCEPT !.work = Desired(p.r, failed)]
    BY <1>2, <2>2, <2>4, RefreshWorkSound
  <2>7. Elsewhere(c)
    BY <1>1, <1>2, <2>5, SendsStay DEF Elsewhere
  <2>8. td[c].closes = 0 /\ ~Closing(c) /\ ~InDrain /\ phase # "Quiescent"
    <3>1. td[c].closes = 0
      BY <1>1, <1>2, <1>6, <1>9
    <3>2. ~InDrain /\ phase # "Quiescent" /\ worker.pc # "finish"
      BY <1>9, NotFailed
    <3> QED
      BY <1>1, <3>1, <3>2 DEF Closing
  <2>9. Fits(c)'
    <3>1. Runs(p.r, td'[c], Sent(c)')
      BY <1>3, <1>4, <1>5, <2>3 DEF Runs, Over
    <3>2. Closes(p.r, td'[c], Closing(c)')
      BY <1>2, <1>3, <1>4, <2>3, <2>8 DEF Closes
    <3>3. Announced(p.r)
      BY <1>5, <2>3 DEF Announced
    <3>4. PICK t, sent, closing, visited : t = td'[c] /\ sent = Sent(c)' /\ closing = Closing(c)'
                                           /\ visited = InDrain'
      OBVIOUS
    <3>5. /\ Listed(y, failed, visited) /\ Runs(y, t, sent) /\ Closes(y, t, closing)
          /\ Announced(y)
      BY <1>2, <2>3, <2>6, <3>1, <3>2, <3>3, <3>4, RefreshedFits, SMTT(30)
    <3> QED
      BY <1>1, <2>5, <3>4, <3>5 DEF Fits
  <2>10. Polite(rec[c], rec'[c], td[c], td'[c])
    BY <1>9, <2>8 DEF Polite, Live
  <2> QED
    BY <1>1, <1>7, <2>7, <2>8, <2>9, <2>10, CallerStep
<1> QED
  BY <1>8, <1>9

\* TDLib refuses a close, or ends a client.
LEMMA TdSafe ==
    ASSUME Inv, Safe, NEW c \in Clients, TdReject(c) \/ TdTerminate(c)
    PROVE  Safe'
<1> DEFINE t == td[c]
           u == td'[c]
<1>1. /\ t.actor = "open" /\ UNCHANGED <<rec, phase, failed, worker, sender, owner>>
      /\ \A d \in Clients \ {c} : td'[d] = td[d]
      /\ t \in [actor : {"none", "open", "terminating", "closed"},
                closes : Nat, rejected : Nat, refused : BOOLEAN]
      /\ \/ t.closes > 0 /\ u = [t EXCEPT !.closes = @ - 1, !.rejected = @ + 1, !.refused = TRUE]
         \/ u = [t EXCEPT !.actor = "terminating", !.closes = 0]
  BY DEF TdReject, TdTerminate, Inv, TypeOK
<1> HIDE DEF t, u
<1>2. /\ \/ u.actor = "open" /\ u.closes = t.closes - 1 /\ u.rejected = t.rejected + 1 /\ u.refused
            /\ t.closes > 0
         \/ u.actor = "terminating" /\ u.closes = 0 /\ u.rejected = t.rejected
      /\ t.closes \in Nat /\ t.rejected \in Nat
  BY <1>1
<1>3. /\ (Sent(c)' <=> Sent(c)) /\ (Closing(c)' <=> Closing(c)) /\ Underway(c)' = Underway(c)
      /\ (InDrain' <=> InDrain)
  BY <1>1, SendsStay DEF InDrain
<1>4. Elsewhere(c)
  BY <1>1, SendsStay DEF Elsewhere
<1>5. Fits(c)'
  <2>1. /\ Runs(rec[c], t, Sent(c)) /\ Closes(rec[c], t, Closing(c)) /\ Announced(rec[c])
        /\ Listed(rec[c], failed, InDrain)
    BY DEF Safe, Fits, t
  <2>2. Runs(rec[c], u, Sent(c)')
    BY <1>1, <1>2, <1>3, <2>1 DEF Runs, Over
  <2>3. Closes(rec[c], u, Closing(c)')
    BY <1>2, <1>3, <2>1 DEF Closes, Heard
  <2> QED
    BY <1>1, <1>3, <2>1, <2>2, <2>3 DEF Fits, Listed, Desired, Announced, u
<1>6. Polite(rec[c], rec'[c], td[c], td'[c])
  BY <1>1 DEF Polite, Over, t
<1>7. ~failed => td'[c].closes + td'[c].rejected + Cardinality(Underway(c)') <= owner'[c].shutdown
  <2>1. ~failed => t.closes + t.rejected + Cardinality(Underway(c)) <= owner[c].shutdown
    BY DEF Safe, Budget, t
  <2>2. Cardinality(Underway(c)) \in Nat /\ owner[c].shutdown \in Nat
    BY SendersFinite, FS_Subset, FS_CardinalityType DEF Underway, Inv, TypeOK
  <2>3. ~failed => u.closes + u.rejected + Cardinality(Underway(c)) <= owner[c].shutdown
    BY <1>2, <2>1, <2>2
  <2> QED
    BY <1>1, <1>3, <2>3 DEF u
<1> QED
  BY <1>1, <1>4, <1>5, <1>6, <1>7, CallerStep

-----------------------------------------------------------------------------
(***************************************************************************)
(* The worker, between its observations.                                   *)
(***************************************************************************)

\* Where no send is in flight every record is free of sends.
LEMMA Alone ==
    ASSUME Inv, \A s \in Senders : sender[s] = Idle
    PROVE  \A c \in Clients : ~Sent(c) /\ rec[c].active = 0
<1>1. \A s \in Senders : sender[s].client = NoClient
  BY DEF Idle
<1>2. ASSUME NEW c \in Clients PROVE ~Sent(c) /\ rec[c].active = 0
  <2>1. {s \in Senders : sender[s].client = c} = {}
    BY <1>1, NoClientAssumption
  <2>2. ~Sent(c)
    BY <2>1 DEF Sent
  <2>3. rec[c].active = 0
    BY <2>1, FS_EmptySet DEF Inv, SendsPinRecords
  <2> QED
    BY <2>2, <2>3
<1> QED
  BY <1>2

\* The worker moves on, and neither TDLib nor the ledger changes.
LEMMA MoveStep ==
    ASSUME Inv, Safe, UNCHANGED <<rec, failed, sender, owner, td>>,
           InDrain' => InDrain,
           worker.pc # "finish", worker'.pc \notin {"ack", "work", "finish"},
           worker'.pc = "poll" => \A d \in Clients : rec[d].work = "None",
           phase' = "Quiescent" =>
             failed /\ worker'.pc = "done" /\ (\A d \in Clients : Over(td[d]))
               /\ \A s \in Senders : sender[s] = Idle
    PROVE  Safe'
<1>1. \A d \in Clients : Fits(d)'
  <2>1. ASSUME NEW d \in Clients PROVE Fits(d)'
    <3>1. (Sent(d)' <=> Sent(d)) /\ (Closing(d)' <=> Closing(d)) /\ Fits(d)
      BY DEF Sent, Closing, Safe
    <3>2. Runs(rec[d], td[d], Sent(d))'
      BY <3>1 DEF Fits, Runs, Over
    <3>3. Listed(rec[d], failed, InDrain)'
      BY <3>1 DEF Fits, Listed, Desired
    <3>4. Closes(rec[d], td[d], Closing(d))'
      BY <3>1 DEF Fits, Closes, Heard
    <3>5. Announced(rec[d])'
      BY <3>1 DEF Fits, Announced
    <3> QED
      BY <3>2, <3>3, <3>4, <3>5 DEF Fits
  <2> QED
    BY <2>1
<1>2. Budget'
  BY DEF Safe, Budget, Underway
<1>3. WorkerKnows'
  BY DEF WorkerKnows
<1>4. Quiet'
  BY DEF Quiet, Over
<1>5. DrainExcludesSends'
  BY DEF Safe, DrainExcludesSends, InDrain
<1> QED
  BY <1>1, <1>2, <1>3, <1>4, <1>5 DEF Safe

\* The worker fails, polls in vain, or gives up.
LEMMA WorkerMovesSafe ==
    ASSUME Inv, Safe, WorkerFail \/ DrainExpire \/ DrainEmpty \/ DrainReceiveThrows
    PROVE  Safe'
<1>1. /\ UNCHANGED <<rec, failed, sender, owner, td>> /\ (InDrain' => InDrain)
      /\ worker.pc \notin {"finish", "done"} /\ worker'.pc \notin {"ack", "poll", "work", "finish"}
      /\ phase' = phase \/ phase' # "Quiescent"
  BY DEF WorkerFail, DrainExpire, DrainEmpty, DrainReceiveThrows, DrainEnd, Goto, InDrain,
         Inv, TypeOK
<1>2. phase' # "Quiescent"
  BY <1>1 DEF Safe, Quiet
<1> QED
  BY <1>1, <1>2, MoveStep

\* Nothing is queued, and the drain asks TDLib.
LEMMA DrainPollSafe ==
    ASSUME Inv, Safe, DrainPoll
    PROVE  Safe'
<1>1. /\ UNCHANGED <<rec, phase, failed, sender, owner, td>>
      /\ worker.pc = "pick" /\ worker'.pc = "poll"
      /\ Queued("Notify") = {} /\ Queued("Close") = {}
  BY DEF DrainPoll, Goto, Inv, TypeOK
<1>2. \A d \in Clients : rec[d].work = "None"
  BY <1>1 DEF Queued, Inv, TypeOK, Record
<1>3. phase # "Quiescent"
  BY <1>1 DEF Safe, Quiet
<1> QED
  BY <1>1, <1>2, <1>3, MoveStep DEF InDrain

\* The counters are zero: everything is over, and no send is left to start more.
LEMMA DrainQuiesceSafe ==
    ASSUME Inv, Safe, DrainQuiesce
    PROVE  Safe'
<1>1. /\ UNCHANGED <<rec, failed, sender, owner, td>> /\ worker.pc = "pick"
      /\ worker'.pc = "done" /\ NothingLeft /\ failed
      /\ \A s \in Senders : sender[s] = Idle
  BY DEF DrainQuiesce, DrainEnd, Inv, SendsPinRecords, Handles, TypeOK, Safe,
         DrainExcludesSends
<1>2. \A d \in Clients : Over(td[d])
  <2>1. SUFFICES ASSUME NEW d \in Clients, ~Over(td[d]) PROVE FALSE
    OBVIOUS
  <2>2. ~Sent(d)
    BY <1>1, Alone
  <2>3. Live(d) /\ ~rec[d].terminal /\ (rec[d].materialized \/ rec[d].uncertain)
    BY <2>1, <2>2 DEF Safe, Fits, Runs, Live, Over
  <2>4. CASE rec[d].materialized
    <3>1. PICK S : S = {c \in Clients : rec[c].materialized /\ ~rec[c].terminal}
      OBVIOUS
    <3>2. d \in S /\ IsFiniteSet(S) /\ Cardinality(S) = 0
      BY <1>1, <2>3, <2>4, <3>1, ClientsFinite, FS_Subset
         DEF Inv, Accounting, RecordAccounting, NothingLeft
    <3> QED
      BY <3>2, FS_EmptySet
  <2>5. CASE rec[d].uncertain
    <3>1. PICK S : S = {c \in Clients : rec[c].uncertain}
      OBVIOUS
    <3>2. d \in S /\ IsFiniteSet(S) /\ Cardinality(S) = 0
      BY <1>1, <2>5, <3>1, ClientsFinite, FS_Subset
         DEF Inv, Accounting, RecordAccounting, NothingLeft
    <3> QED
      BY <3>2, FS_EmptySet
  <2> QED
    BY <2>3, <2>4, <2>5
<1> QED
  BY <1>1, <1>2, MoveStep DEF InDrain

\* The receiver has failed: what the ledger wants of a record changes, and the
\* drain visits the records only later.
LEMMA DrainBeginSafe ==
    ASSUME Inv, Safe, DrainBegin
    PROVE  Safe'
<1>1. /\ worker.pc = "failed" /\ ~invariantBroken /\ failed' = TRUE /\ phase' = "Running"
      /\ worker'.pc = "wait" /\ UNCHANGED <<rec, sender, owner, td>>
  BY DEF DrainBegin, Goto, Inv, SendsPinRecords, TypeOK
<1>2. \A d \in Clients : Fits(d)'
  <2>1. ASSUME NEW d \in Clients PROVE Fits(d)'
    <3>1. (Sent(d)' <=> Sent(d)) /\ (Closing(d)' <=> Closing(d)) /\ Fits(d)
          /\ ~InDrain /\ ~InDrain'
      BY <1>1 DEF Sent, Closing, Safe, InDrain
    <3>2. Runs(rec[d], td[d], Sent(d))'
      BY <1>1, <3>1 DEF Fits, Runs, Over
    <3>3. Listed(rec[d], failed, InDrain)'
      <4>1. failed \in BOOLEAN
        BY DEF Inv, TypeOK
      <4>2. CASE failed = FALSE
        BY <1>1, <3>1, <4>2 DEF Fits, Listed
      <4>3. CASE failed = TRUE
        BY <1>1, <3>1, <4>3 DEF Fits, Listed
      <4> QED
        BY <4>1, <4>2, <4>3
    <3>4. Closes(rec[d], td[d], Closing(d))'
      BY <1>1, <3>1 DEF Fits, Closes, Heard
    <3>5. Announced(rec[d])'
      BY <1>1, <3>1 DEF Fits, Announced
    <3> QED
      BY <3>2, <3>3, <3>4, <3>5 DEF Fits
  <2> QED
    BY <2>1
<1>3. Budget' /\ WorkerKnows' /\ Quiet' /\ DrainExcludesSends'
  BY <1>1 DEF Budget, WorkerKnows, Quiet, DrainExcludesSends
<1> QED
  BY <1>2, <1>3 DEF Safe

-----------------------------------------------------------------------------
(***************************************************************************)
(* The worker's own critical sections.                                     *)
(***************************************************************************)

\* The worker changes one record, or what TDLib has of one client.
LEMMA WorkStep ==
    ASSUME Inv, Safe, NEW c \in Clients,
           \A d \in Clients \ {c} : rec'[d] = rec[d] /\ td'[d] = td[d],
           UNCHANGED <<failed, sender, owner>>, InDrain' => InDrain,
           worker.pc = "finish" => worker.client = c,
           worker'.pc = "finish" => worker'.client = c,
           Fits(c)', WorkerKnows', phase' # "Quiescent",
           ~failed => td'[c].closes = td[c].closes /\ td'[c].rejected = td[c].rejected
    PROVE  Safe'
<1>1. Elsewhere(c)
  <2>1. \A d \in Clients \ {c} : Closing(d)' <=> Closing(d)
    BY DEF Closing
  <2>2. \A d \in Clients : (Sent(d)' <=> Sent(d)) /\ Underway(d)' = Underway(d)
    BY DEF Sent, Underway
  <2> QED
    BY <2>1, <2>2 DEF Elsewhere
<1>2. \A d \in Clients : Fits(d)'
  BY <1>1, FitsStep DEF Safe
<1>3. Budget'
  <2>1. ASSUME ~failed, NEW d \in Clients
        PROVE  /\ td'[d].closes = td[d].closes /\ td'[d].rejected = td[d].rejected
               /\ Underway(d)' = Underway(d)
    BY <2>1 DEF Underway
  <2> QED
    BY <2>1 DEF Safe, Budget
<1>4. Quiet' /\ DrainExcludesSends'
  BY DEF Quiet, Safe, DrainExcludesSends, InDrain
<1> QED
  BY <1>2, <1>3, <1>4 DEF Safe

\* The drain has the ledger for itself.
LEMMA InDrainAlone ==
    ASSUME Inv, Safe, InDrain
    PROVE  /\ failed /\ phase # "Quiescent"
           /\ \A s \in Senders : sender[s] = Idle
           /\ \A d \in Clients : ~Sent(d) /\ rec[d].active = 0
<1>1. \A s \in Senders : sender[s] = Idle
  BY DEF Safe, DrainExcludesSends, InDrain
<1> QED
  BY <1>1, Alone DEF Inv, Handles, Safe, Quiet, InDrain

\* The visit of every record, once the last send has returned.
LEMMA DrainStartSafe ==
    ASSUME Inv, Safe, DrainStart
    PROVE  Safe'
<1>1. /\ rec' = [c \in Clients |->
                   IF Live(c) THEN [rec[c] EXCEPT !.work = Desired(rec[c], failed)]
                   ELSE rec[c]]
      /\ worker.pc = "wait" /\ worker'.pc = "pick" /\ stats.active_sends = 0 /\ failed
      /\ UNCHANGED <<phase, failed, sender, owner, td>>
  BY DEF DrainStart, Goto, Inv, SendsPinRecords, TypeOK, Handles
<1>2. \A s \in Senders : sender[s] = Idle
  <2>1. PICK S : S = {s \in Senders : sender[s] # Idle}
    OBVIOUS
  <2>2. IsFiniteSet(S) /\ Cardinality(S) = 0
    BY <1>1, <2>1, SendersFinite, FS_Subset DEF Inv, Accounting
  <2> QED
    BY <2>1, <2>2, FS_EmptySet
<1>3. ASSUME NEW d \in Clients PROVE Fits(d)'
  <2>1. /\ (Sent(d)' <=> Sent(d)) /\ (Closing(d)' <=> Closing(d))
        /\ rec[d] \in Record /\ failed \in BOOLEAN
    BY <1>1 DEF Sent, Closing, Inv, TypeOK
  <2>2. Runs(rec[d], td[d], Sent(d)) /\ Closes(rec[d], td[d], Closing(d)) /\ Announced(rec[d])
    BY DEF Safe, Fits
  <2>3. CASE Live(d)
    <3>1. PICK y, t, sent, closing, visited :
            /\ y = rec'[d] /\ t = td[d] /\ sent = Sent(d) /\ closing = Closing(d)
            /\ visited = InDrain'
      OBVIOUS
    <3>2. y = [rec[d] EXCEPT !.work = Desired(rec[d], failed)]
      BY <1>1, <2>3, <3>1
    <3>3. /\ Listed(y, failed, visited) /\ Runs(y, t, sent) /\ Closes(y, t, closing)
          /\ Announced(y)
      BY <2>1, <2>2, <3>1, <3>2, RefreshedFits
    <3>4. t = td'[d] /\ sent = Sent(d)' /\ closing = Closing(d)'
      BY <1>1, <2>1, <3>1 DEF Sent, Closing
    <3> QED
      BY <1>1, <3>1, <3>3, <3>4 DEF Fits
  <2>4. CASE ~Live(d)
    <3>1. rec'[d] = rec[d] /\ td'[d] = td[d]
      BY <1>1, <2>4
    <3>2. Runs(rec[d], td[d], Sent(d))'
      BY <2>1, <2>2, <3>1 DEF Runs, Over
    <3>3. Closes(rec[d], td[d], Closing(d))'
      BY <2>1, <2>2, <3>1 DEF Closes, Heard
    <3>4. Listed(rec[d], failed, InDrain)' /\ Announced(rec[d])'
      BY <2>4, <3>1 DEF Listed, Announced, Live
    <3> QED
      BY <3>2, <3>3, <3>4 DEF Fits
  <2> QED
    BY <2>3, <2>4
<1>4. Budget' /\ WorkerKnows' /\ DrainExcludesSends'
  BY <1>1, <1>2 DEF Budget, WorkerKnows, DrainExcludesSends
<1>5. Quiet'
  BY <1>1 DEF Safe, Quiet
<1> QED
  BY <1>3, <1>4, <1>5 DEF Safe

\* The drain takes a record off its list: the list was right.
LEMMA DrainPickSafe ==
    ASSUME Inv, Safe, NEW c \in Clients, DrainPick(c)
    PROVE  Safe'
<1>0. PICK r : r = rec[c]
  OBVIOUS
<1>1. /\ worker.pc = "pick" /\ r.work # "None" /\ Commit(c, With(Unlink(At(c)), "busy", TRUE))
      /\ worker' = [pc |-> "work", client |-> c, work |-> r.work]
      /\ UNCHANGED <<phase, failed, sender, owner, td>>
  BY <1>0 DEF DrainPick, Queued
<1>2. /\ r \in Record /\ r.state = "live" /\ ~r.busy /\ Good(At(c)) /\ At(c).r = r
  <2>1. r \in Record /\ WellFormed(r) /\ ~r.busy
    BY <1>0, <1>1 DEF Inv, TypeOK, BusyPinned
  <2>2. r.state = "live"
    BY <1>1, <2>1 DEF WellFormed, Blank
  <2> QED
    BY <1>0, <2>1, <2>2, LiveGood DEF Live, At
<1>3. /\ failed /\ phase # "Quiescent" /\ ~Sent(c) /\ r.active = 0 /\ InDrain
  BY <1>0, <1>1, InDrainAlone DEF InDrain
<1>4. PICK y : y = With(Unlink(At(c)), "busy", TRUE).r
  OBVIOUS
<1>5. y = [[r EXCEPT !.work = "None"] EXCEPT !["busy"] = TRUE]
  <2>1. Unlink(At(c)).r = [r EXCEPT !.work = "None"]
    BY <1>2, UnlinkSound
  <2> QED
    BY <1>4, <2>1 DEF With
<1>6. /\ y.state = "live" /\ y.materialized = r.materialized /\ y.close_sent = r.close_sent
      /\ y.terminal = r.terminal /\ y.uncertain = r.uncertain /\ y.notified = r.notified
      /\ y.close_uncertain = r.close_uncertain /\ y.busy /\ y.active = r.active
      /\ y.work = "None"
  BY <1>2, <1>5 DEF Record
<1>7. rec'[c] = y /\ \A d \in Clients \ {c} : rec'[d] = rec[d]
  BY <1>1, <1>4 DEF Commit, Inv, TypeOK
<1>8. /\ Runs(r, td[c], Sent(c)) /\ Listed(r, failed, InDrain)
      /\ Closes(r, td[c], Closing(c)) /\ Announced(r)
  BY <1>0 DEF Safe, Fits
<1>9. r.work = Desired(r, failed) /\ ~r.notified
  BY <1>2, <1>3, <1>8 DEF Listed, Announced
<1>10. WorkerKnows'
  <2>1. CASE r.work = "Notify"
    <3>1. r.terminal \/ (~r.materialized /\ ~r.uncertain)
      BY <1>9, <2>1 DEF Desired
    <3>2. Over(td[c])
      BY <1>3, <1>8, <3>1 DEF Runs, Over
    <3> QED
      BY <1>1, <1>6, <1>7, <2>1, <3>1, <3>2 DEF WorkerKnows, Over
  <2>2. CASE r.work # "Notify"
    <3>1. r.work = "Close"
      BY <1>1, <1>2, <2>2 DEF Record
    <3>2. r.materialized /\ ~r.terminal /\ ~r.close_sent /\ ~r.close_uncertain
      BY <1>9, <3>1 DEF Desired
    <3> QED
      BY <1>1, <1>6, <1>7, <1>9, <2>2, <3>1, <3>2 DEF WorkerKnows
  <2> QED
    BY <2>1, <2>2
<1>11. Fits(c)'
  <2>1. (Sent(c)' <=> Sent(c)) /\ (Closing(c)' <=> Closing(c)) /\ td'[c] = td[c] /\ failed' = failed
    BY <1>1 DEF Sent, Closing
  <2>2. Runs(rec[c], td[c], Sent(c))'
    BY <1>2, <1>6, <1>7, <1>8, <2>1 DEF Runs, Over
  <2>3. Closes(rec[c], td[c], Closing(c))'
    BY <1>2, <1>6, <1>7, <1>8, <2>1 DEF Closes, Heard
  <2>4. Listed(rec[c], failed, InDrain)'
    BY <1>6, <1>7, <2>1 DEF Listed, Desired
  <2>5. Announced(rec[c])'
    BY <1>6, <1>7, <1>9 DEF Announced
  <2> QED
    BY <2>2, <2>3, <2>4, <2>5 DEF Fits
<1> QED
  BY <1>1, <1>3, <1>7, <1>10, <1>11, WorkStep DEF InDrain

\* The unlocked call of the drain takes effect.
LEMMA DrainEffectSafe ==
    ASSUME Inv, Safe, DrainEffect
    PROVE  Safe'
<1>0. PICK c, r, t, u : c = worker.client /\ r = rec[c] /\ t = td[c] /\ u = td'[c]
  OBVIOUS
<1>1. /\ worker.pc = "work" /\ c \in Clients /\ InDrain
      /\ worker'.pc = "finish" /\ worker'.client = c /\ worker'.work = worker.work
      /\ UNCHANGED <<rec, phase, failed, sender, owner>>
      /\ r.state = "live"
  BY <1>0 DEF DrainEffect, Goto, Inv, TypeOK, Handles, InDrain, BusyPinned, Live
<1>2. failed /\ phase # "Quiescent" /\ ~Sent(c)
  BY <1>1, InDrainAlone
<1>3. /\ Runs(r, t, Sent(c)) /\ Listed(r, failed, InDrain)
      /\ Closes(r, t, Closing(c)) /\ Announced(r)
  BY <1>0, <1>1 DEF Safe, Fits
<1>4. /\ worker.work = "Notify" => td' = td /\ Over(t)
                                   /\ (r.terminal \/ (~r.materialized /\ ~r.uncertain))
      /\ worker.work # "Notify" => /\ worker.work = "Close" /\ TdAccept(c, TRUE)
                                   /\ r.materialized /\ ~r.terminal /\ ~r.notified
                                   /\ ~r.close_sent /\ ~r.close_uncertain
  BY <1>0, <1>1 DEF DrainEffect, Safe, WorkerKnows
<1>5. \A d \in Clients \ {c} : td'[d] = td[d]
  BY <1>1, <1>4 DEF TdAccept, Inv, TypeOK
<1>6. WorkerKnows'
  BY <1>0, <1>1, <1>4 DEF WorkerKnows, Over
<1>7. (Sent(c)' <=> Sent(c)) /\ (Closing(c)' <=> Closing(c) \/ worker.work # "Notify")
  BY <1>1, <1>4 DEF Sent, Closing
<1>8. Fits(c)'
  <2>1. CASE worker.work = "Notify"
    <3>1. Runs(rec[c], td[c], Sent(c))'
      BY <1>0, <1>1, <1>3, <1>4, <1>7, <2>1 DEF Runs, Over
    <3>2. Closes(rec[c], td[c], Closing(c))'
      BY <1>0, <1>1, <1>3, <1>4, <1>7, <2>1 DEF Closes, Heard
    <3>3. Listed(rec[c], failed, InDrain)' /\ Announced(rec[c])'
      BY <1>0, <1>1, <1>3 DEF Listed, Desired, Announced, InDrain
    <3> QED
      BY <3>1, <3>2, <3>3 DEF Fits
  <2>2. CASE worker.work # "Notify"
    <3>1. /\ t \in [actor : {"none", "open", "terminating", "closed"},
                    closes : Nat, rejected : Nat, refused : BOOLEAN]
          /\ t.actor = "closed" => u = t
          /\ t.actor # "closed" =>
               u = [actor |-> IF t.actor = "none" THEN "open" ELSE t.actor,
                    closes |-> t.closes + 1,
                    rejected |-> t.rejected, refused |-> t.refused]
      BY <1>0, <1>1, <1>4, <2>2 DEF TdAccept, Inv, TypeOK
    <3>2. u.actor # "none" /\ (u.closes > 0 \/ u.actor = "closed")
          /\ (t.actor = "closed" => u.actor = "closed")
      BY <3>1
    <3>3. Runs(r, u, Sent(c)')
      BY <1>1, <1>3, <1>4, <2>2, <3>2 DEF Runs
    <3>4. Closes(r, u, Closing(c)')
      BY <1>7, <2>2, <3>2 DEF Closes, Heard
    <3>5. Listed(rec[c], failed, InDrain)' /\ Announced(rec[c])'
      BY <1>0, <1>1, <1>3 DEF Listed, Desired, Announced, InDrain
    <3> QED
      BY <1>0, <1>1, <3>3, <3>4, <3>5 DEF Fits
  <2> QED
    BY <2>1, <2>2
<1> QED
  BY <1>0, <1>1, <1>2, <1>5, <1>6, <1>8, WorkStep DEF InDrain

-----------------------------------------------------------------------------
(***************************************************************************)
(* Observations, and the ends of the drain's work.                         *)
(***************************************************************************)

\* refreshWork() changes the list of a record and nothing else.
LEMMA RefreshRec ==
    ASSUME NEW p, p.r \in Record, NEW f
    PROVE  RefreshWork(p, f).r = [p.r EXCEPT !.work = Desired(p.r, f)]
<1>1. CASE p.r.work = Desired(p.r, f)
  BY <1>1 DEF RefreshWork, Record
<1>2. CASE p.r.work # Desired(p.r, f)
  <2>1. PICK u, w : u = Unlink(p) /\ w = Desired(p.r, f)
    OBVIOUS
  <2>2. u.r = [p.r EXCEPT !.work = "None"]
    BY <2>1 DEF Unlink, Record
  <2>3. Link(u, w).r = [p.r EXCEPT !.work = w]
    BY <2>2 DEF Link, Record
  <2> QED
    BY <1>2, <2>1, <2>3 DEF RefreshWork
<1> QED
  BY <1>1, <1>2

\* What observe() leaves of a record.
LEMMA ObserveRec ==
    ASSUME NEW p, Good(p), NEW terminal \in BOOLEAN
    PROVE  \E b \in Record :
             /\ ObserveLocal(p, terminal).r = [b EXCEPT !.work = Desired(b, failed)]
             /\ b.state = "live" /\ b.materialized
             /\ b.terminal <=> p.r.terminal \/ terminal
             /\ b.close_sent = p.r.close_sent /\ b.close_uncertain = p.r.close_uncertain
             /\ b.notified = p.r.notified /\ b.busy = p.r.busy /\ b.active = p.r.active
<1>1. PICK seen : seen = Materialize(p)
  OBVIOUS
<1>2. seen.r = [p.r EXCEPT !.materialized = TRUE] /\ p.r \in Record /\ p.r.state = "live"
  BY <1>1, MaterializeSound DEF Good, Local
<1>3. PICK ended : ended = IF terminal /\ ~seen.r.terminal
                           THEN [r |-> [seen.r EXCEPT !.terminal = TRUE],
                                 n |-> Add(Add(seen.n, "remaining", -1),
                                           "terminal_records", 1)]
                           ELSE seen
  OBVIOUS
<1>4. /\ ended.r \in Record /\ ended.r.state = "live" /\ ended.r.materialized
      /\ ended.r.terminal <=> p.r.terminal \/ terminal
      /\ ended.r.close_sent = p.r.close_sent /\ ended.r.close_uncertain = p.r.close_uncertain
      /\ ended.r.notified = p.r.notified /\ ended.r.busy = p.r.busy
      /\ ended.r.active = p.r.active
  <2>1. CASE terminal /\ ~seen.r.terminal
    BY <1>2, <1>3, <2>1 DEF Record
  <2>2. CASE ~(terminal /\ ~seen.r.terminal)
    BY <1>2, <1>3, <2>2 DEF Record
  <2> QED
    BY <2>1, <2>2
<1>5. PICK sure : sure = IF terminal \/ ~ended.r.close_uncertain
                         THEN SetUncertain(ended, FALSE) ELSE ended
  OBVIOUS
<1>6. sure.r = ended.r \/ sure.r = [ended.r EXCEPT !.uncertain = FALSE]
  BY <1>5 DEF SetUncertain
<1>7. /\ sure.r \in Record /\ sure.r.state = "live" /\ sure.r.materialized
      /\ sure.r.terminal = ended.r.terminal
      /\ sure.r.close_sent = p.r.close_sent /\ sure.r.close_uncertain = p.r.close_uncertain
      /\ sure.r.notified = p.r.notified /\ sure.r.busy = p.r.busy
      /\ sure.r.active = p.r.active
  BY <1>4, <1>6 DEF Record
<1>8. ObserveLocal(p, terminal).r = [sure.r EXCEPT !.work = Desired(sure.r, failed)]
  <2>1. ObserveLocal(p, terminal) = RefreshWork(sure, failed)
    BY <1>1, <1>3, <1>5 DEF ObserveLocal
  <2> QED
    BY <1>7, <2>1, RefreshRec
<1> QED
  BY <1>4, <1>7, <1>8

\* An update of a client is taken from TDLib, by the worker or by its drain.
LEMMA ReceiveSafe ==
    ASSUME Inv, Safe, NEW c \in Clients, NEW terminal \in BOOLEAN,
           WorkerReceive(c, terminal) \/ DrainObserve(c, terminal)
    PROVE  Safe'
<1>0. PICK r, t, u : r = rec[c] /\ t = td[c] /\ u = td'[c]
  OBVIOUS
<1>1. /\ t.actor # "none" /\ (terminal => t.actor = "terminating")
      /\ td' = [td EXCEPT ![c].actor = IF terminal THEN "closed" ELSE @]
      /\ Observe(c, terminal) /\ UNCHANGED <<phase, failed, sender, owner>>
      /\ worker.pc \in {"receive", "poll"}
      /\ worker'.pc \in {"receive", "pick", "ack"}
      /\ worker'.pc = "ack" => worker'.client = c /\ terminal
      /\ InDrain' => InDrain
      /\ phase # "Quiescent"
  BY <1>0 DEF WorkerReceive, DrainObserve, TdDeliver, Goto, InDrain, Inv, TypeOK, Safe, Quiet
<1>2. /\ u.actor = (IF terminal THEN "closed" ELSE t.actor) /\ u.closes = t.closes
      /\ u.rejected = t.rejected /\ u.refused = t.refused
      /\ \A d \in Clients \ {c} : td'[d] = td[d]
  BY <1>0, <1>1 DEF Inv, TypeOK
<1>3. /\ Runs(r, t, Sent(c)) /\ Listed(r, failed, InDrain)
      /\ Closes(r, t, Closing(c)) /\ Announced(r)
  BY <1>0 DEF Safe, Fits
<1>4. /\ (Sent(c)' <=> Sent(c)) /\ (Closing(c)' <=> Closing(c))
  BY <1>1 DEF Sent, Closing
<1>5. CASE Live(c)
  <2>1. Good(At(c)) /\ At(c).r = r /\ ~r.busy
    BY <1>0, <1>1, <1>5, LiveGood DEF At, Inv, BusyPinned
  <2>2. PICK y : y = ObserveLocal(At(c), terminal).r
    OBVIOUS
  <2>3. PICK b \in Record :
          /\ y = [b EXCEPT !.work = Desired(b, failed)]
          /\ b.state = "live" /\ b.materialized
          /\ b.terminal <=> r.terminal \/ terminal
          /\ b.close_sent = r.close_sent /\ b.close_uncertain = r.close_uncertain
          /\ b.notified = r.notified /\ b.busy = r.busy /\ b.active = r.active
    BY <2>1, <2>2, ObserveRec
  <2>4. rec'[c] = y /\ \A d \in Clients \ {c} : rec'[d] = rec[d]
    BY <1>1, <1>5, <2>2 DEF Observe, Commit, Inv, TypeOK
  <2>5. Runs(b, u, Sent(c)')
    BY <1>1, <1>2, <1>3, <2>3 DEF Runs, Over
  <2>6. Closes(b, u, Closing(c)')
    BY <1>0, <1>2, <1>3, <1>4, <1>5, <2>3 DEF Closes, Heard, Live
  <2>7. Announced(b)
    BY <1>0, <1>3, <1>5, <2>1, <2>3 DEF Announced, Live
  <2>8. Fits(c)' /\ (terminal => rec'[c].terminal)
    <3>1. PICK sent, closing, visited : sent = Sent(c)' /\ closing = Closing(c)'
                                        /\ visited = InDrain'
      OBVIOUS
    <3>2. failed \in BOOLEAN
      BY DEF Inv, TypeOK
    <3>3. /\ Listed(y, failed, visited) /\ Runs(y, u, sent) /\ Closes(y, u, closing)
          /\ Announced(y)
      BY <2>3, <2>5, <2>6, <2>7, <3>1, <3>2, RefreshedFits
    <3>4. terminal => y.terminal
      BY <2>3 DEF Record
    <3> QED
      BY <1>0, <1>1, <2>4, <3>1, <3>3, <3>4 DEF Fits
  <2>9. WorkerKnows'
    BY <1>1, <2>8 DEF WorkerKnows
  <2> QED
    BY <1>0, <1>1, <1>2, <2>4, <2>8, <2>9, WorkStep
<1>6. CASE ~Live(c)
  <2>1. t.actor = "closed" /\ ~terminal
    BY <1>0, <1>1, <1>3, <1>6 DEF Runs, Over, Live
  <2>2. rec' = rec
    BY <1>1, <1>6 DEF Observe
  <2>3. Fits(c)'
    BY <1>0, <1>1, <1>2, <1>3, <1>4, <1>6, <2>1, <2>2
       DEF Fits, Runs, Listed, Closes, Announced, Over, Heard, Live
  <2>4. WorkerKnows'
    BY <1>1, <2>1 DEF WorkerKnows
  <2> QED
    BY <1>0, <1>1, <1>2, <2>2, <2>3, <2>4, WorkStep
<1> QED
  BY <1>5, <1>6

\* A terminal update was published.
LEMMA WorkerAckSafe ==
    ASSUME Inv, Safe, WorkerAck
    PROVE  Safe'
<1>0. PICK c, r : c = worker.client /\ r = rec[c]
  OBVIOUS
<1>1. /\ worker.pc = "ack" /\ c \in Clients /\ worker'.pc = "receive"
      /\ Live(c) => NotifyAndRetire(c)
      /\ ~Live(c) => rec' = rec
      /\ UNCHANGED <<phase, failed, sender, owner, td>>
      /\ phase # "Quiescent" /\ ~InDrain /\ ~InDrain'
      /\ r.terminal \/ ~Live(c)
  BY <1>0 DEF WorkerAck, Inv, TypeOK, Handles, InDrain, Safe, Quiet, WorkerKnows, Live
<1>2. WorkerKnows'
  BY <1>1 DEF WorkerKnows
<1>3. (Sent(c)' <=> Sent(c)) /\ (Closing(c)' <=> Closing(c))
  BY <1>1 DEF Sent, Closing
<1>4. CASE ~Live(c)
  BY <1>1, <1>4, MoveStep
<1>5. CASE Live(c)
  <2>0. PICK p : p = With(At(c), "notified", TRUE)
    OBVIOUS
  <2>1. /\ Good(p) /\ p.r = [r EXCEPT !["notified"] = TRUE] /\ r \in Record
        /\ failed \in BOOLEAN
    <3>1. failed \in BOOLEAN /\ r \in Record
      BY <1>0, <1>1 DEF Inv, TypeOK
    <3>2. Good(At(c)) /\ At(c).r = r
      BY <1>0, <1>1, <1>5, LiveGood DEF At
    <3>3. TRUE \in BOOLEAN
      OBVIOUS
    <3>4. Good(p) /\ p.r = [At(c).r EXCEPT !["notified"] = TRUE]
      BY <2>0, <3>2, <3>3, WithSound
    <3> QED
      BY <3>1, <3>2, <3>4
  <2>2. /\ p.r.state = r.state /\ p.r.materialized = r.materialized /\ p.r.active = r.active
        /\ p.r.uncertain = r.uncertain /\ p.r.terminal = r.terminal
        /\ p.r.close_sent = r.close_sent /\ p.r.close_uncertain = r.close_uncertain
    BY <2>1 DEF Record
  <2>3. Commit(c, RetireIfReady(RefreshWork(p, failed)))
    BY <1>1, <1>5, <2>0 DEF NotifyAndRetire
  <2>4. /\ rec'[c] = RetireIfReady(RefreshWork(p, failed)).r
        /\ \A d \in Clients \ {c} : rec'[d] = rec[d]
    BY <1>1, <2>3 DEF Commit, Inv, TypeOK
  <2>5. Runs(p.r, td[c], Sent(c)) /\ Closes(p.r, td[c], Closing(c))
    <3>1. Runs(r, td[c], Sent(c)) /\ Closes(r, td[c], Closing(c))
      BY <1>0, <1>1 DEF Safe, Fits
    <3> QED
      BY <2>2, <3>1 DEF Runs, Closes
  <2>6. Sent(c) => p.r.active # 0
    BY <1>0, <1>1, <2>2, AllPinned DEF Sent
  <2>7. Fits(c)'
    <3>1. PICK y, t, sent, closing, visited :
            /\ y = RetireIfReady(RefreshWork(p, failed)).r /\ t = td[c] /\ sent = Sent(c)
            /\ closing = Closing(c) /\ visited = InDrain
      OBVIOUS
    <3>2. /\ Runs(y, t, sent) /\ Listed(y, failed, visited)
          /\ Closes(y, t, closing) /\ Announced(y)
      <4>1. p.r.terminal /\ Good(p) /\ failed \in BOOLEAN
        BY <1>1, <1>5, <2>1, <2>2
      <4>2. Runs(p.r, t, sent) /\ Closes(p.r, t, closing) /\ (sent => p.r.active # 0)
        BY <2>5, <2>6, <3>1
      <4> QED
        BY <3>1, <4>1, <4>2, FinishFits
    <3>3. y = rec'[c] /\ t = td'[c] /\ sent = Sent(c)' /\ closing = Closing(c)' /\ visited = InDrain'
      BY <1>1, <1>3, <2>4, <3>1 DEF Sent, Closing, InDrain
    <3> QED
      BY <1>1, <3>2, <3>3 DEF Fits
  <2> QED
    BY <1>1, <1>2, <2>4, <2>7, WorkStep
<1> QED
  BY <1>4, <1>5

\* performWork() comes back to the record it has pinned.
LEMMA WorkedOn ==
    ASSUME Inv, Safe, worker.pc \in {"work", "finish"},
           NEW c, c = worker.client
    PROVE  /\ c \in Clients /\ Live(c) /\ Good(At(c)) /\ At(c).r = rec[c] /\ rec[c].busy
           /\ failed /\ phase # "Quiescent" /\ ~Sent(c) /\ rec[c].active = 0
           /\ Runs(rec[c], td[c], FALSE) /\ Closes(rec[c], td[c], Closing(c))
           /\ Announced(rec[c])
<1>1. c \in Clients /\ rec[c].busy /\ Live(c)
  BY DEF Inv, Handles, BusyPinned
<1>2. failed /\ phase # "Quiescent" /\ ~Sent(c) /\ rec[c].active = 0
  BY <1>1, InDrainAlone DEF InDrain
<1>3. Good(At(c)) /\ At(c).r = rec[c]
  BY <1>1, LiveGood DEF At
<1>4. /\ Runs(rec[c], td[c], Sent(c)) /\ Closes(rec[c], td[c], Closing(c))
      /\ Announced(rec[c])
  BY <1>1 DEF Safe, Fits
<1>5. Runs(rec[c], td[c], FALSE)
  BY <1>2, <1>4 DEF Runs
<1> QED
  BY <1>1, <1>2, <1>3, <1>4, <1>5

\* The drain's work on a record ends: p is what it leaves of the record.
LEMMA ReturnSafe ==
    ASSUME Inv, Safe, worker.pc \in {"work", "finish"}, NEW c, c = worker.client,
           NEW p, Good(p), Commit(c, RetireIfReady(RefreshWork(p, failed))),
           worker'.pc \in {"pick", "done"}, phase' = phase \/ phase' = "Error",
           UNCHANGED <<failed, sender, owner, td>>,
           Runs(p.r, td[c], FALSE), Closes(p.r, td[c], FALSE),
           p.r.notified => p.r.terminal \/ (~p.r.materialized /\ ~p.r.uncertain /\ p.r.active = 0)
    PROVE  Safe'
<1>1. /\ c \in Clients /\ failed /\ phase # "Quiescent" /\ ~Sent(c)
  BY WorkedOn
<1>2. /\ rec'[c] = RetireIfReady(RefreshWork(p, failed)).r
      /\ \A d \in Clients \ {c} : rec'[d] = rec[d]
  BY <1>1 DEF Commit, Inv, TypeOK
<1>3. WorkerKnows'
  BY DEF WorkerKnows
<1>4. Fits(c)'
  <2>1. PICK y, t, visited : y = RetireIfReady(RefreshWork(p, failed)).r /\ t = td[c]
                             /\ visited = InDrain'
    OBVIOUS
  <2>2. /\ Runs(y, t, FALSE) /\ Listed(y, failed, visited)
        /\ Closes(y, t, FALSE) /\ Announced(y)
    <3>1. failed \in BOOLEAN
      BY DEF Inv, TypeOK
    <3>2. PICK sent, closing : sent = FALSE /\ closing = FALSE
      OBVIOUS
    <3>3. Runs(p.r, t, sent) /\ Closes(p.r, t, closing) /\ (sent => p.r.active # 0)
      BY <2>1, <3>2
    <3>4. /\ Runs(y, t, sent) /\ Listed(y, failed, visited)
          /\ Closes(y, t, closing) /\ Announced(y)
      BY <2>1, <3>1, <3>3, FinishFits
    <3> QED
      BY <3>2, <3>4
  <2>3. y = rec'[c] /\ t = td'[c] /\ visited = InDrain' /\ failed' = failed
    BY <1>2, <2>1
  <2>4. ~Sent(c)' /\ ~Closing(c)'
    <3>1. \A s \in Senders : sender'[s] = Idle
      BY InDrainAlone DEF InDrain
    <3> QED
      BY <1>1, <3>1 DEF Sent, Closing, Idle
  <2>5. Runs(rec[c], td[c], Sent(c))'
    BY <2>2, <2>3, <2>4 DEF Runs, Over
  <2>6. Closes(rec[c], td[c], Closing(c))'
    BY <2>2, <2>3, <2>4 DEF Closes, Heard
  <2>7. Listed(rec[c], failed, InDrain)' /\ Announced(rec[c])'
    BY <2>2, <2>3 DEF Listed, Desired, Announced
  <2> QED
    BY <2>5, <2>6, <2>7 DEF Fits
<1>5. (InDrain' => InDrain) /\ worker'.pc # "finish" /\ phase' # "Quiescent"
  BY <1>1 DEF InDrain
<1> QED
  BY <1>1, <1>2, <1>3, <1>4, <1>5, WorkStep

\* performWork() returns.
LEMMA DrainFinishSafe ==
    ASSUME Inv, Safe, DrainFinish
    PROVE  Safe'
<1>0. PICK c, r, q : c = worker.client /\ r = rec[c]
                     /\ q = (IF worker.work = "Close" THEN MarkCloseSent(At(c))
                             ELSE With(At(c), "notified", TRUE))
  OBVIOUS
<1>1. PICK p : p = With(q, "busy", FALSE)
  OBVIOUS
<1>2. /\ worker.pc = "finish" /\ Commit(c, RetireIfReady(RefreshWork(p, failed)))
      /\ worker'.pc = "pick" /\ UNCHANGED <<phase, failed, sender, owner, td>>
  BY <1>0, <1>1 DEF DrainFinish
<1>3. /\ Live(c) /\ Good(At(c)) /\ At(c).r = r /\ r \in Record /\ r.active = 0
      /\ Runs(r, td[c], FALSE) /\ Closes(r, td[c], Closing(c))
  <2>1. /\ Live(c) /\ Good(At(c)) /\ At(c).r = r /\ r.active = 0
        /\ Runs(r, td[c], FALSE) /\ Closes(r, td[c], Closing(c))
    BY <1>0, <1>2, WorkedOn
  <2> QED
    BY <2>1 DEF Good, Local
<1>4. /\ worker.work = "Notify" => r.terminal \/ (~r.materialized /\ ~r.uncertain)
      /\ worker.work # "Notify" => worker.work = "Close" /\ ~r.notified /\ r.materialized
  BY <1>0, <1>2 DEF Safe, WorkerKnows
<1>5. TRUE \in BOOLEAN /\ FALSE \in BOOLEAN
  OBVIOUS
<1>6. CASE worker.work = "Notify"
  <2>1. Good(q) /\ q.r = [r EXCEPT !["notified"] = TRUE]
    <3>1. q = With(At(c), "notified", TRUE)
      BY <1>0, <1>6
    <3> QED
      BY <1>3, <1>5, <3>1, WithSound
  <2>2. Good(p) /\ p.r = [q.r EXCEPT !.busy = FALSE]
    BY <1>1, <1>5, <2>1, PinSound
  <2>3. /\ p.r.state = r.state /\ p.r.materialized = r.materialized /\ p.r.active = 0
        /\ p.r.uncertain = r.uncertain /\ p.r.terminal = r.terminal
        /\ p.r.close_sent = r.close_sent /\ p.r.close_uncertain = r.close_uncertain
    <3>1. r \in Record /\ r.active = 0
      BY <1>3
    <3>2. p.r = [r EXCEPT !["notified"] = TRUE, !.busy = FALSE]
      BY <2>1, <2>2
    <3>3. /\ p.r.state = r.state /\ p.r.materialized = r.materialized /\ p.r.active = r.active
          /\ p.r.uncertain = r.uncertain /\ p.r.terminal = r.terminal
      BY <3>1, <3>2 DEF Record
    <3>4. p.r.close_sent = r.close_sent /\ p.r.close_uncertain = r.close_uncertain
      BY <3>1, <3>2 DEF Record
    <3> QED
      BY <3>1, <3>3, <3>4
  <2>4. Runs(p.r, td[c], FALSE)
    BY <1>3, <2>3 DEF Runs
  <2>5. Closes(p.r, td[c], FALSE)
    <3>1. ~Closing(c)
      <4>1. \A s \in Senders : sender[s] = Idle
        BY <1>2, InDrainAlone DEF InDrain
      <4> QED
        BY <1>6, <4>1 DEF Closing, Idle
    <3> QED
      BY <1>3, <2>3, <3>1 DEF Closes
  <2>6. p.r.terminal \/ (~p.r.materialized /\ ~p.r.uncertain /\ p.r.active = 0)
    BY <1>4, <1>6, <2>3
  <2> QED
    BY <1>0, <1>2, <2>2, <2>4, <2>5, <2>6, ReturnSafe
<1>7. CASE worker.work # "Notify"
  <2>1. Good(q) /\ q.r = [[r EXCEPT !["close_sent"] = TRUE] EXCEPT !["close_uncertain"] = FALSE]
    <3>1. PICK a : a = At(c)
      OBVIOUS
    <3>2. /\ Good(With(With(a, "close_sent", TRUE), "close_uncertain", FALSE))
          /\ With(With(a, "close_sent", TRUE), "close_uncertain", FALSE).r
               = [[a.r EXCEPT !["close_sent"] = TRUE] EXCEPT !["close_uncertain"] = FALSE]
      BY <1>3, <1>5, <3>1, WithTwiceSound
    <3> QED
      BY <1>0, <1>3, <1>4, <1>7, <3>1, <3>2 DEF MarkCloseSent
  <2>2. Good(p) /\ p.r = [q.r EXCEPT !.busy = FALSE]
    BY <1>1, <1>5, <2>1, PinSound
  <2>3. /\ p.r.state = r.state /\ p.r.materialized = r.materialized /\ ~p.r.notified
        /\ p.r.uncertain = r.uncertain /\ p.r.terminal = r.terminal /\ p.r.close_sent
    <3>1. PICK a : a = [r EXCEPT !["close_sent"] = TRUE]
      OBVIOUS
    <3>2. /\ a.state = r.state /\ a.materialized = r.materialized /\ ~a.notified
          /\ a.uncertain = r.uncertain /\ a.terminal = r.terminal /\ a.close_sent
          /\ a \in Record
      BY <1>3, <1>4, <1>7, <3>1 DEF Record
    <3>3. /\ q.r.state = r.state /\ q.r.materialized = r.materialized /\ ~q.r.notified
          /\ q.r.uncertain = r.uncertain /\ q.r.terminal = r.terminal /\ q.r.close_sent
          /\ q.r \in Record
      BY <2>1, <3>1, <3>2 DEF Record
    <3> QED
      BY <2>2, <3>3 DEF Record
  <2>4. Runs(p.r, td[c], FALSE)
    BY <1>3, <2>3 DEF Runs
  <2>5. Closes(p.r, td[c], FALSE)
    <3>1. Closing(c)
      BY <1>0, <1>2, <1>4, <1>7 DEF Closing
    <3> QED
      BY <1>3, <2>3, <3>1 DEF Closes
  <2> QED
    BY <1>0, <1>2, <2>2, <2>3, <2>4, <2>5, ReturnSafe
<1> QED
  BY <1>6, <1>7

\* performWork()'s call throws.
LEMMA DrainThrowSafe ==
    ASSUME Inv, Safe, DrainThrow
    PROVE  Safe'
<1>0. PICK c, r, b : c = worker.client /\ r = rec[c] /\ b = With(At(c), "busy", FALSE)
  OBVIOUS
<1>1. PICK p : p = IF worker.work = "Close" /\ ~b.r.terminal
                   THEN With(SetUncertain(b, TRUE), "close_uncertain", TRUE) ELSE b
  OBVIOUS
<1>2. /\ worker.pc \in {"work", "finish"} /\ Commit(c, RetireIfReady(RefreshWork(p, failed)))
      /\ worker'.pc = "done" /\ phase' = "Error" /\ UNCHANGED <<failed, sender, owner, td>>
  BY <1>0, <1>1 DEF DrainThrow, DrainEnd, Inv, TypeOK
<1>3. /\ Live(c) /\ Good(At(c)) /\ At(c).r = r /\ r \in Record /\ r.active = 0
      /\ Runs(r, td[c], FALSE) /\ Closes(r, td[c], Closing(c)) /\ Announced(r)
  <2>1. /\ Live(c) /\ Good(At(c)) /\ At(c).r = r /\ r.active = 0
        /\ Runs(r, td[c], FALSE) /\ Closes(r, td[c], Closing(c)) /\ Announced(r)
    BY <1>0, <1>2, WorkedOn
  <2> QED
    BY <2>1 DEF Good, Local
<1>4. TRUE \in BOOLEAN /\ FALSE \in BOOLEAN
  OBVIOUS
<1>5. Good(b) /\ b.r = [r EXCEPT !.busy = FALSE]
  BY <1>0, <1>3, <1>4, PinSound
<1>6. /\ b.r.state = r.state /\ b.r.materialized = r.materialized /\ b.r.active = 0
      /\ b.r.uncertain = r.uncertain /\ b.r.terminal = r.terminal /\ b.r.notified = r.notified
      /\ b.r.close_sent = r.close_sent /\ b.r.close_uncertain = r.close_uncertain
      /\ b.r \in Record /\ r.state = "live"
  BY <1>0, <1>3, <1>5 DEF Record, Live
<1>7. /\ worker.work # "Notify" => /\ worker.work = "Close" /\ ~r.terminal /\ ~r.notified
                                   /\ ~r.close_sent /\ r.materialized
  BY <1>0, <1>2 DEF Safe, WorkerKnows
<1>8. CASE worker.work = "Notify"
  <2>1. p = b
    BY <1>1, <1>8
  <2>2. ~Closing(c)
    <3>1. \A s \in Senders : sender[s] = Idle
      BY <1>2, InDrainAlone DEF InDrain
    <3> QED
      BY <1>8, <3>1 DEF Closing, Idle
  <2>3. Runs(p.r, td[c], FALSE) /\ Closes(p.r, td[c], FALSE)
    BY <1>3, <1>6, <2>1, <2>2 DEF Runs, Closes
  <2>4. p.r.notified => p.r.terminal \/ (~p.r.materialized /\ ~p.r.uncertain /\ p.r.active = 0)
    BY <1>3, <1>6, <2>1 DEF Announced
  <2> QED
    BY <1>0, <1>2, <1>5, <2>1, <2>3, <2>4, ReturnSafe
<1>9. CASE worker.work # "Notify"
  <2>1. PICK v : v = SetUncertain(b, TRUE)
    OBVIOUS
  <2>2. Good(v) /\ v.r = [b.r EXCEPT !.uncertain = TRUE] /\ v.r \in Record
    <3>1. Good(v) /\ v.r = [b.r EXCEPT !.uncertain = TRUE]
      BY <1>4, <1>5, <1>6, <1>7, <1>9, <2>1, SetUncertainSound
    <3> QED
      BY <3>1 DEF Good, Local
  <2>3. Good(p) /\ p.r = [v.r EXCEPT !["close_uncertain"] = TRUE]
    <3>1. p = With(v, "close_uncertain", TRUE)
      BY <1>1, <1>6, <1>7, <1>9, <2>1
    <3> QED
      BY <1>4, <2>2, <3>1, WithSound
  <2>4. /\ p.r.state = "live" /\ p.r.materialized /\ ~p.r.notified /\ ~p.r.terminal
        /\ ~p.r.close_sent /\ p.r.close_uncertain
    BY <1>6, <1>7, <1>9, <2>2, <2>3 DEF Record
  <2>5. Runs(p.r, td[c], FALSE) /\ Closes(p.r, td[c], FALSE)
    BY <1>3, <1>6, <1>7, <1>9, <2>4 DEF Runs, Closes
  <2> QED
    BY <1>0, <1>2, <2>3, <2>4, <2>5, ReturnSafe
<1> QED
  BY <1>8, <1>9

-----------------------------------------------------------------------------
(***************************************************************************)
(* The theorems.                                                           *)
(***************************************************************************)

\* Initially nothing is registered, sent or running.
LEMMA InitSafe == Init => Safe
<1> SUFFICES ASSUME Init PROVE Safe
  OBVIOUS
<1>1. ASSUME NEW c \in Clients PROVE Fits(c)
  <2>1. rec[c] = Blank("unknown") /\ td[c].actor = "none" /\ td[c].closes = 0
    BY DEF Init
  <2>2. ~Sent(c) /\ ~Closing(c)
    BY DEF Init, Sent, Closing, Idle
  <2> QED
    BY <2>1, <2>2 DEF Fits, Runs, Listed, Closes, Announced, Blank, Over
<1>2. Budget
  <2>1. ASSUME NEW c \in Clients PROVE Cardinality(Underway(c)) = 0
    <3>1. Underway(c) = {}
      BY DEF Init, Underway, Idle
    <3> QED
      BY <3>1, FS_EmptySet
  <2> QED
    BY <2>1 DEF Init, Budget
<1>3. WorkerKnows /\ Quiet /\ DrainExcludesSends
  BY DEF Init, WorkerKnows, Quiet, DrainExcludesSends
<1> QED
  BY <1>1, <1>2, <1>3 DEF Safe

\* Every step keeps it.
LEMMA NextSafe == Inv /\ Safe /\ [Next]_vars => Safe'
<1> SUFFICES ASSUME Inv, Safe, [Next]_vars PROVE Safe'
  OBVIOUS
<1>0. Inv'
  BY NextInv
<1>1. CASE OwnerStep
  <2>1. ASSUME NEW c \in Clients, PublishClient(c) PROVE Safe'
    <3>1. \A d \in Clients : owner'[d].shutdown = owner[d].shutdown
      BY <2>1 DEF PublishClient, Inv, TypeOK
    <3>2. UNCHANGED <<rec, phase, failed, worker, sender, td>>
      BY <2>1 DEF PublishClient
    <3> QED
      BY <3>1, <3>2, PublishSafe
  <2> QED
    BY <1>1, <2>1, RegisterSafe, RetireSafe, RejectionSafe, BeginSendSafe DEF OwnerStep
<1>2. CASE TdStep
  BY <1>2, TdSafe DEF TdStep
<1>3. CASE WorkerStep
  BY <1>3, ReceiveSafe, WorkerAckSafe, WorkerMovesSafe DEF WorkerStep
<1>4. CASE DrainStep
  BY <1>4, ReceiveSafe, WorkerMovesSafe, DrainBeginSafe, DrainStartSafe, DrainQuiesceSafe,
     DrainPickSafe, DrainPollSafe, DrainEffectSafe, DrainFinishSafe, DrainThrowSafe DEF DrainStep
<1>5. CASE DrainExpire
  BY <1>5, WorkerMovesSafe
<1>6. CASE \E s \in Senders : SendStep(s)
  BY <1>0, <1>6, TdSendSafe, EndSendSafe DEF SendStep
<1>7. CASE UNCHANGED vars
  <2>1. CASE Clients = {}
    <3>1. Budget' /\ WorkerKnows' /\ Quiet' /\ DrainExcludesSends'
      BY <1>7 DEF Safe, Budget, Underway, WorkerKnows, Quiet, Over, DrainExcludesSends, vars
    <3> QED
      BY <2>1, <3>1 DEF Safe
  <2>2. CASE Clients # {}
    <3>1. PICK c \in Clients : TRUE
      BY <2>2
    <3> QED
      BY <1>7, <3>1, PublishSafe DEF vars
  <2> QED
    BY <2>1, <2>2
<1> QED
  BY <1>1, <1>2, <1>3, <1>4, <1>5, <1>6, <1>7 DEF Next

\* Records, TDLib and the worker fit in every reachable state.
THEOREM Safety == Spec => [](Inv /\ Safe)
<1>1. Init => Inv /\ Safe
  BY InitInv, InitSafe
<1>2. Inv /\ Safe /\ [Next]_vars => (Inv /\ Safe)'
  BY NextInv, NextSafe
<1> QED
  BY <1>1, <1>2, PTL DEF Spec

\* The drain never sends a close for a client that TDLib has a close of already,
\* whether an owner's send of it has returned, has thrown, or was refused.
THEOREM ClosesNotDoubled == Spec => []NoDuplicateClose
<1>1. Inv /\ Safe => NoDuplicateClose
  <2> SUFFICES ASSUME Inv, Safe, worker.pc = "work", worker.work = "Close"
               PROVE  td[worker.client].closes = 0
    BY DEF NoDuplicateClose
  <2>1. PICK c : c = worker.client
    OBVIOUS
  <2>2. c \in Clients /\ Live(c) /\ Closes(rec[c], td[c], Closing(c))
    BY <2>1, WorkedOn
  <2>3. ~rec[c].terminal /\ ~rec[c].close_sent /\ ~rec[c].close_uncertain
    BY <2>1 DEF Safe, WorkerKnows
  <2>4. ~Closing(c)
    <3>1. \A s \in Senders : sender[s] = Idle
      BY InDrainAlone DEF InDrain
    <3> QED
      BY <3>1 DEF Closing, Idle
  <2>5. td[c].closes \in Nat
    BY <2>2 DEF Inv, TypeOK
  <2> QED
    BY <2>1, <2>2, <2>3, <2>4, <2>5 DEF Closes, Live
<1> QED
  BY <1>1, Safety, PTL

\* What the module takes for over is over in TDLib: the client of a retired
\* identity, the one the drain announces, and all of them once it is Quiescent.
THEOREM RetirementIsFinal == Spec => []Retirement
<1>1. Inv /\ Safe => Retirement
  <2> SUFFICES ASSUME Inv, Safe PROVE Retirement
    OBVIOUS
  <2>1. RetiredIsDead
    <3>1. ASSUME NEW c \in Clients, rec[c].state = "retired" PROVE Over(td[c])
      BY <3>1 DEF Safe, Fits, Runs
    <3>2. ASSUME worker.pc \in {"work", "finish"}, worker.work = "Notify"
          PROVE  Over(td[worker.client])
      BY <3>2 DEF Safe, WorkerKnows
    <3> QED
      BY <3>1, <3>2 DEF RetiredIsDead, Over
  <2>2. QuiescentMeansSafe
    BY DEF Safe, Quiet, QuiescentMeansSafe, Over
  <2> QED
    BY <2>1, <2>2 DEF Retirement
<1> QED
  BY <1>1, Safety, PTL

\* No owner's request reaches TDLib while the drain decides what to close.
THEOREM DrainAlone == Spec => []DrainExcludesSends
<1>1. Safe => DrainExcludesSends
  BY DEF Safe
<1> QED
  BY <1>1, Safety, PTL

\* The drain polls TDLib only for clients that TDLib was asked to end, or whose
\* state is in doubt.
THEOREM WaitsAreJustified == Spec => []WaitJustified
<1>1. Inv /\ Safe => WaitJustified
  <2> SUFFICES ASSUME Inv, Safe, worker.pc = "poll", NEW c \in Clients, Live(c), ~rec[c].terminal
               PROVE  \/ td[c].closes > 0 \/ td[c].actor \in {"terminating", "closed"}
                      \/ rec[c].uncertain \/ rec[c].close_uncertain
                      \/ td[c].refused
    BY DEF WaitJustified
  <2>1. failed /\ rec[c].active = 0 /\ InDrain /\ ~rec[c].busy
    BY InDrainAlone DEF InDrain, Inv, BusyPinned
  <2>2. Listed(rec[c], failed, InDrain) /\ Closes(rec[c], td[c], Closing(c)) /\ Announced(rec[c])
    BY DEF Safe, Fits
  <2>3. Desired(rec[c], failed) = "None"
    BY <2>1, <2>2 DEF Listed, Live, Safe, WorkerKnows
  <2>4. ~rec[c].notified
    BY <2>1, <2>2 DEF Announced, Live
  <2>5. rec[c].uncertain \/ rec[c].close_sent \/ rec[c].close_uncertain
    BY <2>1, <2>3, <2>4 DEF Desired
  <2> QED
    BY <2>2, <2>5 DEF Closes, Heard
<1> QED
  BY <1>1, Safety, PTL
=============================================================================
