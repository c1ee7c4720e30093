---------------------------- MODULE DriverProofs ----------------------------
(***************************************************************************)
(* The driver's turn and the luv adapter around it, for any set of         *)
(* clients, budget and stall bound: clients are served in order, a stall   *)
(* is earned and reported once, and the adapter's host sleeps only over    *)
(* nothing.                                                                *)
(***************************************************************************)
EXTENDS LuvAdapter, SequenceTheorems, WellFoundedInduction, TLAPS

(***************************************************************************)
(* What holds of a driver x between any two steps of its thread.           *)
(***************************************************************************)

\* Registrations are in the order of their serials, and the one to serve next
\* is one of them.
Listing(x) ==
    /\ x \in Driver
    /\ x.cursor \in 1..(Len(x.clients) + 1)
    /\ \A i, j \in DOMAIN x.clients : i < j =>
          /\ x.clients[i].client # x.clients[j].client
          /\ x.clients[i].serial < x.clients[j].serial
    /\ \A i \in DOMAIN x.clients : x.clients[i].serial < x.nextSerial
    /\ Len(x.clients) < x.nextSerial
    /\ IF x.clients = <<>> THEN x.due = 0
       ELSE \E i \in DOMAIN x.clients : x.clients[i].serial = x.due
    /\ x.stopped => x.clients = <<>>

\* Where no client is being served the cursor is at the one to serve next.
AtCursor(x) ==
    ~x.stopped /\ x.clients # <<>> =>
        x.cursor <= Len(x.clients) /\ x.clients[x.cursor].serial = x.due

\* The idle rounds that still count when u updates were delivered in the turn.
Idle(x, u) == IF u > 0 THEN 0 ELSE x.idle

\* n complete sweeps cover the idle rounds of the driver: unless a sweep has
\* ended during the round, what it called was called in the sweep in progress.
\* The client that is being called, if any, is the one with serial s.
Covers(x, u, n, s) ==
    /\ Idle(x, u) <= n
    /\ \/ x.roundProgress \/ Idle(x, u) < n \/ n = StallAfter
       \/ \A i \in DOMAIN x.clients :
             x.clients[i].inRound => x.clients[i].swept \/ x.clients[i].serial = s
    /\ x.roundCalls /\ x.clients # <<>> =>
          \E i \in DOMAIN x.clients : ~x.clients[i].swept

\* Going up from a one meets b before c, as registrations are served.
Cyclic(a, b, c) == (a < b /\ b < c) \/ (b < c /\ c < a) \/ (c < a /\ a < b)

-----------------------------------------------------------------------------
(***************************************************************************)
(* The inductive invariant.                                                *)
(***************************************************************************)
Calling == IF pc = "receive" THEN current.serial ELSE 0

Locals ==
    /\ pc \in {"call", "receive", "deliver", "next"} => current \in Entry
    /\ pc = "receive" => call < Slice /\ calls < Budget
    /\ pc = "deliver" => call > 0 /\ updates > 0
    /\ pc = "idle" => updates = 0
    /\ pc # "idle" => result = Returns("none") /\ (d.stopped \/ d.clients # <<>>)

\* The rest of the snapshot in registration order, from the client being served.
Rotation ==
    /\ \A i, j, k \in DOMAIN queue : i < j /\ j < k =>
          Cyclic(queue[i].serial, queue[j].serial, queue[k].serial)
    /\ pc \in {"call", "receive", "deliver", "next"} =>
          \A i, j \in DOMAIN queue : i < j =>
              Cyclic(current.serial, queue[i].serial, queue[j].serial)

\* What comes before the client to serve next is no longer registered.
NextIsDue ==
    /\ pc = "select" =>
          \A i, j \in DOMAIN queue : i < j /\ queue[j].serial = d.due =>
              ~IsRegistered(queue[i])
    /\ InOrder

Episode ==
    /\ updates > 0 => reports = 0
    /\ ~StallFatal => reports <= 1
    /\ ~StallFatal /\ reports > 0 /\ ~d.stopped => d.stallReported

Earned ==
    /\ ~d.stopped /\ ~Terminal => Covers(d, updates, quiet, Calling)
    /\ pc = "receive" /\ ~IsRegistered(current) =>
          \A i \in DOMAIN d.clients : ~d.clients[i].inRound

Inv ==
    /\ TypeOK /\ Listing(d) /\ Locals
    /\ pc \in {"idle", "select", "resolve"} /\ ~Terminal => AtCursor(d)
    /\ Rotation /\ NextIsDue /\ Episode /\ Earned

\* A turn runs with the adapter open or stopped, and what makes the host sleep
\* without a timeout is a turn that found nothing to wait for.
LuvInv ==
    /\ Inv /\ SleepsSafely
    /\ pc # "idle" => adapter # "notice"

-----------------------------------------------------------------------------
(***************************************************************************)
(* Operations on a driver.                                                 *)
(***************************************************************************)

\* The same registrations, whatever was recorded of them.
Same(a, b) ==
    /\ DOMAIN a = DOMAIN b /\ Len(a) = Len(b)
    /\ \A i \in DOMAIN a : a[i].client = b[i].client /\ a[i].serial = b[i].serial

\* The listing does not depend on what is recorded of rounds and stalls.
LEMMA Relisted ==
    ASSUME NEW x, Listing(x), NEW y \in Driver,
           Same(x.clients, y.clients), y.cursor = x.cursor,
           y.nextSerial = x.nextSerial, y.due = x.due, y.stopped = x.stopped
    PROVE  Listing(y)
<1>1. x.clients \in Seq(Entry) /\ y.clients \in Seq(Entry)
  BY DEF Listing, Driver
<1>2. x.clients = <<>> <=> y.clients = <<>>
  BY <1>1 DEF Same
<1> QED
  BY <1>1, <1>2 DEF Listing, Same

\* stop() leaves nothing registered.
LEMMA StoppedListing ==
    ASSUME NEW x \in Driver
    PROVE  /\ Listing(Stopped(x)) /\ Stopped(x).stopped /\ Stopped(x).clients = <<>>
           /\ Stopped(x).due = 0
<1>1. PICK y : y = Stopped(x)
  OBVIOUS
<1>2. x \in Driver /\ x.nextSerial \in 1..(MaxSerial + 1)
  BY DEF Driver
<1>3. /\ y \in Driver /\ y.cursor = 1 /\ y.clients = <<>> /\ y.stopped /\ y.due = 0
      /\ y.nextSerial = x.nextSerial
  <2>1. <<>> \in Seq(Entry) /\ 1 \in Nat /\ 0 \in 0..MaxSerial
    BY BoundAssumption
  <2> QED
    BY <1>1, <1>2, <2>1 DEF Stopped, Driver
<1>4. Listing(y)
  BY <1>2, <1>3 DEF Listing
<1> QED
  BY <1>1, <1>3, <1>4

\* A function on 1..n is a sequence.
LEMMA IsSequence ==
    ASSUME NEW S, NEW n \in Nat, NEW f \in [1..n -> S]
    PROVE  f \in Seq(S) /\ Len(f) = n
BY SeqDef

\* A list of entries of which only what is recorded changes.
LEMMA Recorded ==
    ASSUME NEW list \in Seq(Entry), NEW new,
           new = [i \in DOMAIN list |-> new[i]],
           \A i \in DOMAIN list :
              /\ new[i] \in Entry
              /\ new[i].client = list[i].client /\ new[i].serial = list[i].serial
    PROVE  new \in Seq(Entry) /\ Same(list, new)
<1>1. Len(list) \in Nat /\ DOMAIN list = 1..Len(list)
  BY LenProperties
<1>2. new \in [1..Len(list) -> Entry]
  BY <1>1
<1>3. new \in Seq(Entry) /\ Len(new) = Len(list) /\ DOMAIN new = DOMAIN list
  BY <1>1, <1>2, IsSequence
<1> QED
  BY <1>3 DEF Same

\* The members of a list are entries.
LEMMA Members ==
    ASSUME NEW list \in Seq(Entry)
    PROVE  /\ Len(list) \in Nat /\ DOMAIN list = 1..Len(list)
           /\ \A i \in DOMAIN list : list[i] \in Entry
           /\ list = <<>> <=> Len(list) = 0
           /\ list = <<>> <=> DOMAIN list = {}
<1>1. Len(list) \in Nat /\ DOMAIN list = 1..Len(list)
  BY LenProperties
<1> QED
  BY <1>1, ElementOfSeq, EmptySeq

LEMMA EntryFields ==
    ASSUME NEW e \in Entry, NEW b \in BOOLEAN
    PROVE  LET r == [e EXCEPT !.inRound = b]
               s == [e EXCEPT !.swept = b]
           IN  /\ r \in Entry /\ r.client = e.client /\ r.serial = e.serial
               /\ r.inRound = b /\ r.swept = e.swept
               /\ s \in Entry /\ s.client = e.client /\ s.serial = e.serial
               /\ s.swept = b /\ s.inRound = e.inRound
               /\ e.inRound \in BOOLEAN /\ e.swept \in BOOLEAN
               /\ e.client \in Clients /\ e.serial \in 1..MaxSerial
BY DEF Entry

\* What _reset_round() and the end of a sweep forget of the registrations.
LEMMA Forgets ==
    ASSUME NEW list \in Seq(Entry)
    PROVE  LET out == Map(list, LAMBDA e : [e EXCEPT !.inRound = FALSE])
               off == Unswept(list)
           IN  /\ out \in Seq(Entry) /\ Same(list, out)
               /\ \A i \in DOMAIN list : ~out[i].inRound /\ out[i].swept = list[i].swept
               /\ off \in Seq(Entry) /\ Same(list, off)
               /\ \A i \in DOMAIN list : ~off[i].swept /\ off[i].inRound = list[i].inRound
<1>1. PICK out : out = [i \in DOMAIN list |-> [list[i] EXCEPT !.inRound = FALSE]]
  OBVIOUS
<1>2. PICK off : off = [i \in DOMAIN list |-> [list[i] EXCEPT !.swept = FALSE]]
  OBVIOUS
<1>3. \A i \in DOMAIN list : list[i] \in Entry
  BY Members
<1>4. \A i \in DOMAIN list :
        /\ out[i] \in Entry
        /\ out[i].client = list[i].client /\ out[i].serial = list[i].serial
        /\ ~out[i].inRound /\ out[i].swept = list[i].swept
        /\ off[i] \in Entry
        /\ off[i].client = list[i].client /\ off[i].serial = list[i].serial
        /\ ~off[i].swept /\ off[i].inRound = list[i].inRound
  BY <1>1, <1>2, <1>3, EntryFields
<1>5. out \in Seq(Entry) /\ Same(list, out) /\ off \in Seq(Entry) /\ Same(list, off)
  BY <1>1, <1>2, <1>4, Recorded
<1> QED
  BY <1>1, <1>2, <1>4, <1>5 DEF Map, Unswept

\* _reset_round() starts a round in which nothing was called.
LEMMA ResetListing ==
    ASSUME NEW x, Listing(x)
    PROVE  LET y == ResetRound(x)
           IN  /\ Listing(y) /\ Same(x.clients, y.clients)
               /\ \A i \in DOMAIN x.clients :
                     ~y.clients[i].inRound /\ y.clients[i].swept = x.clients[i].swept
               /\ ~y.roundCalls /\ ~y.roundProgress
               /\ y.cursor = x.cursor /\ y.stopped = x.stopped /\ y.kicked = x.kicked
               /\ y.idle = x.idle /\ y.zero = x.zero /\ y.stallReported = x.stallReported
               /\ y.nextSerial = x.nextSerial /\ y.due = x.due
<1>1. PICK out : out = Map(x.clients, LAMBDA e : [e EXCEPT !.inRound = FALSE])
  OBVIOUS
<1>2. PICK y : y = ResetRound(x)
  OBVIOUS
<1>3. x \in Driver /\ x.clients \in Seq(Entry)
  BY DEF Listing, Driver
<1>4. /\ out \in Seq(Entry) /\ Same(x.clients, out)
      /\ \A i \in DOMAIN x.clients : ~out[i].inRound /\ out[i].swept = x.clients[i].swept
  BY <1>1, <1>3, Forgets
<1>5. y = [x EXCEPT !.clients = out, !.roundCalls = FALSE, !.roundProgress = FALSE]
  BY <1>1, <1>2 DEF ResetRound
<1>6. /\ y \in Driver /\ y.clients = out
      /\ ~y.roundCalls /\ ~y.roundProgress
      /\ y.cursor = x.cursor /\ y.stopped = x.stopped /\ y.kicked = x.kicked
      /\ y.idle = x.idle /\ y.zero = x.zero /\ y.stallReported = x.stallReported
      /\ y.nextSerial = x.nextSerial /\ y.due = x.due
  BY <1>3, <1>4, <1>5 DEF Driver
<1>7. Listing(y)
  BY <1>4, <1>6, Relisted
<1> QED
  BY <1>2, <1>4, <1>6, <1>7

-----------------------------------------------------------------------------
(***************************************************************************)
(* Who comes next.                                                         *)
(***************************************************************************)
LEMMA Least ==
    ASSUME NEW T, T \subseteq Nat, T # {}
    PROVE  \E x \in T : \A y \in T : x <= y
<1>1. IsWellFoundedOn(OpToRel(<, Nat), Nat)
  BY NatLessThanWellFounded
<1>2. PICK x \in T : \A y \in T : <<y, x>> \notin OpToRel(<, Nat)
  BY <1>1, WFMin
<1>3. \A y \in T : ~(y < x)
  BY <1>2 DEF OpToRel
<1> QED
  BY <1>3

\* Registrations in the order of their serials.
Sorted(list) ==
    \A i, j \in DOMAIN list : i < j => list[i].serial < list[j].serial

\* The registration that follows serial s, going round.
LEMMA After ==
    ASSUME NEW list \in Seq(Entry), Sorted(list), list # <<>>, NEW s \in Int
    PROVE  LET at == IndexAfter(list, s)
           IN  /\ at \in 1..Len(list) /\ SerialAfter(list, s) = list[at].serial
               /\ list[at].serial > s =>
                     \A i \in DOMAIN list : list[i].serial > s => list[at].serial <= list[i].serial
               /\ ~(list[at].serial > s) =>
                     /\ at = 1
                     /\ \A i \in DOMAIN list :
                           ~(list[i].serial > s) /\ list[at].serial <= list[i].serial
<1>1. PICK at : at = IndexAfter(list, s)
  OBVIOUS
<1>2. PICK later : later = {i \in DOMAIN list : list[i].serial > s}
  OBVIOUS
<1>3. /\ DOMAIN list = 1..Len(list) /\ Len(list) \in Nat \ {0}
      /\ \A i \in DOMAIN list : list[i].serial \in Nat
  <2>1. Len(list) \in Nat /\ Len(list) # 0 /\ DOMAIN list = 1..Len(list)
    BY Members
  <2>2. \A i \in DOMAIN list : list[i] \in Entry
    BY Members
  <2>3. \A e \in Entry : e.serial \in Nat
    BY BoundAssumption DEF Entry
  <2> QED
    BY <2>1, <2>2, <2>3
<1>4. CASE later = {}
  <2>1. at = 1
    BY <1>1, <1>2, <1>4 DEF IndexAfter
  <2>2. \A i \in DOMAIN list : list[1].serial <= list[i].serial /\ ~(list[i].serial > s)
    BY <1>2, <1>3, <1>4 DEF Sorted
  <2> QED
    BY <1>1, <1>3, <2>1, <2>2 DEF SerialAfter
<1>5. CASE later # {}
  <2>1. \E i \in later : \A j \in later : i <= j
    BY <1>2, <1>3, <1>5, Least
  <2>2. at = CHOOSE i \in later : \A j \in later : i <= j
    BY <1>1, <1>2, <1>5 DEF IndexAfter
  <2>3. at \in later /\ \A j \in later : at <= j
    BY <2>1, <2>2
  <2>4. \A i \in DOMAIN list : list[i].serial > s => list[at].serial <= list[i].serial
    BY <1>2, <1>3, <2>3 DEF Sorted
  <2> QED
    BY <1>1, <1>2, <1>3, <2>3, <2>4 DEF SerialAfter
<1> QED
  BY <1>4, <1>5

\* Where the list is left when a registration is taken out of it.
LEMMA TakenOut ==
    ASSUME NEW list \in Seq(Entry), NEW g \in DOMAIN list
    PROVE  LET rest == RemoveAt(list, g)
           IN  /\ rest \in Seq(Entry) /\ Len(rest) = Len(list) - 1
               /\ DOMAIN rest = 1..Len(rest)
               /\ \A i \in 1..Len(rest) : rest[i] = IF i < g THEN list[i] ELSE list[i + 1]
<1>1. Len(list) \in Nat /\ g \in 1..Len(list) /\ \A i \in 1..Len(list) : list[i] \in Entry
  BY Members
<1>2. PICK a : a = SubSeq(list, 1, g - 1)
  OBVIOUS
<1>3. PICK b : b = SubSeq(list, g + 1, Len(list))
  OBVIOUS
<1>4. a \in Seq(Entry) /\ Len(a) = g - 1 /\ \A i \in 1..(g - 1) : a[i] = list[i]
  BY <1>1, <1>2, SubSeqProperties
<1>5. /\ b \in Seq(Entry) /\ Len(b) = Len(list) - g
      /\ \A i \in 1..(Len(list) - g) : b[i] = list[g + i]
  BY <1>1, <1>3, SubSeqProperties
<1>6. PICK rest : rest = a \o b
  OBVIOUS
<1>7. /\ rest \in Seq(Entry) /\ Len(rest) = Len(list) - 1
      /\ \A i \in 1..Len(rest) : rest[i] = IF i <= Len(a) THEN a[i] ELSE b[i - Len(a)]
  <2>1. a \in Seq(Entry) /\ b \in Seq(Entry)
    BY <1>4, <1>5
  <2>2. /\ a \o b \in Seq(Entry) /\ Len(a \o b) = Len(a) + Len(b)
        /\ \A i \in 1..(Len(a) + Len(b)) :
              (a \o b)[i] = IF i <= Len(a) THEN a[i] ELSE b[i - Len(a)]
    BY <2>1, ConcatProperties
  <2>3. Len(a) + Len(b) = Len(list) - 1
    BY <1>1, <1>4, <1>5
  <2> QED
    BY <1>6, <2>2, <2>3
<1>8. ASSUME NEW i \in 1..Len(rest)
      PROVE  rest[i] = IF i < g THEN list[i] ELSE list[i + 1]
  <2>1. CASE i < g
    BY <1>1, <1>4, <1>7, <2>1
  <2>2. CASE ~(i < g)
    <3>1. PICK k : k = i - (g - 1)
      OBVIOUS
    <3>2. Len(a) = g - 1 /\ Len(rest) = Len(list) - 1
      BY <1>4, <1>7
    <3>3. k \in 1..(Len(list) - g) /\ g + k = i + 1 /\ ~(i <= g - 1)
      BY <1>1, <2>2, <3>1, <3>2
    <3>4. rest[i] = b[k]
      BY <1>7, <3>1, <3>2, <3>3
    <3> QED
      BY <1>5, <2>2, <3>3, <3>4
  <2> QED
    BY <2>1, <2>2
<1>9. DOMAIN rest = 1..Len(rest)
  BY <1>7, Members
<1> QED
  BY <1>2, <1>3, <1>6, <1>7, <1>8, <1>9 DEF RemoveAt

-----------------------------------------------------------------------------
(***************************************************************************)
(* Registrations come and go.                                              *)
(***************************************************************************)

\* What stop() leaves of the counters.
LEMMA StoppedKeeps ==
    ASSUME NEW x \in Driver
    PROVE  /\ Stopped(x).kicked = x.kicked /\ Stopped(x).roundCalls = x.roundCalls
           /\ Stopped(x).roundProgress = x.roundProgress
BY DEF Stopped, Driver

\* remove() leaves a well-formed list, and stops the driver with the last client.
LEMMA RemovedListing ==
    ASSUME NEW x, Listing(x), NEW c, \E i \in DOMAIN x.clients : x.clients[i].client = c
    PROVE  LET y == Removed(x, c)
           IN  /\ Listing(y)
               /\ \A i \in DOMAIN y.clients : ~y.clients[i].inRound
               /\ ~y.roundCalls /\ ~y.roundProgress /\ y.kicked = x.kicked
               /\ y.stopped \/ y.clients # <<>>
               /\ y.clients # <<>> => y.cursor <= Len(y.clients)
               /\ ~y.stopped => /\ y.idle = x.idle /\ y.zero = x.zero
                                /\ y.stallReported = x.stallReported
<1>1. PICK gone : gone = CHOOSE i \in DOMAIN x.clients : x.clients[i].client = c
  OBVIOUS
<1>2. gone \in DOMAIN x.clients
  BY <1>1
<1>3. x \in Driver /\ x.clients \in Seq(Entry) /\ x.due \in 0..MaxSerial /\ x.cursor \in Nat
  BY DEF Listing, Driver
<1>4. PICK rest : rest = RemoveAt(x.clients, gone)
  OBVIOUS
<1>5. /\ rest \in Seq(Entry) /\ Len(rest) = Len(x.clients) - 1 /\ DOMAIN rest = 1..Len(rest)
      /\ \A i \in 1..Len(rest) :
            rest[i] = IF i < gone THEN x.clients[i] ELSE x.clients[i + 1]
      /\ Len(rest) \in Nat /\ (rest = <<>> <=> Len(rest) = 0)
  BY <1>2, <1>3, <1>4, TakenOut, Members
<1>6. DOMAIN x.clients = 1..Len(x.clients) /\ Len(x.clients) \in Nat \ {0} /\ ~x.stopped
  BY <1>2, <1>3, Members DEF Listing
<1>7. /\ \A i, j \in DOMAIN rest : i < j =>
            rest[i].client # rest[j].client /\ rest[i].serial < rest[j].serial
      /\ \A i \in DOMAIN rest : rest[i].serial < x.nextSerial /\ rest[i].serial \in 1..MaxSerial
  <2>1. \A i \in 1..Len(rest) : \E k \in DOMAIN x.clients :
            rest[i] = x.clients[k] /\ k = IF i < gone THEN i ELSE i + 1
    BY <1>2, <1>5, <1>6
  <2>2. \A i \in DOMAIN x.clients : x.clients[i].serial \in 1..MaxSerial
    BY <1>3, Members, EntryFields
  <2>3. ASSUME NEW i \in DOMAIN rest, NEW j \in DOMAIN rest, i < j
        PROVE  rest[i].client # rest[j].client /\ rest[i].serial < rest[j].serial
    <3>1. PICK k \in DOMAIN x.clients :
              rest[i] = x.clients[k] /\ k = IF i < gone THEN i ELSE i + 1
      BY <1>5, <2>1
    <3>2. PICK m \in DOMAIN x.clients :
              rest[j] = x.clients[m] /\ m = IF j < gone THEN j ELSE j + 1
      BY <1>5, <2>1
    <3>3. k < m
      BY <1>2, <1>5, <1>6, <2>3, <3>1, <3>2
    <3> QED
      BY <3>1, <3>2, <3>3 DEF Listing
  <2>4. ASSUME NEW i \in DOMAIN rest
        PROVE  rest[i].serial < x.nextSerial /\ rest[i].serial \in 1..MaxSerial
    <3>1. PICK k \in DOMAIN x.clients : rest[i] = x.clients[k]
      BY <1>5, <2>1
    <3> QED
      BY <2>2, <3>1 DEF Listing
  <2> QED
    BY <2>3, <2>4
<1>8. PICK passed : passed = IF x.due = x.clients[gone].serial
                             THEN SerialAfter(rest, x.due) ELSE x.due
  OBVIOUS
<1>9. IF rest = <<>> THEN passed = 0 ELSE \E i \in DOMAIN rest : rest[i].serial = passed
  <2>1. PICK k \in DOMAIN x.clients : x.clients[k].serial = x.due
    BY <1>6, Members, <1>3 DEF Listing
  <2>2. CASE rest = <<>>
    <3>1. k = gone
      BY <1>2, <1>5, <1>6, <2>1, <2>2
    <3> QED
      BY <1>8, <2>1, <2>2, <3>1 DEF SerialAfter
  <2>3. CASE rest # <<>> /\ x.due = x.clients[gone].serial
    <3>1. Sorted(rest)
      BY <1>7 DEF Sorted
    <3>2. x.due \in Int
      BY <1>3, BoundAssumption
    <3>3. \E i \in DOMAIN rest : rest[i].serial = SerialAfter(rest, x.due)
      BY <1>5, <2>3, <3>1, <3>2, After
    <3> QED
      BY <1>8, <2>3, <3>3
  <2>4. CASE rest # <<>> /\ x.due # x.clients[gone].serial
    <3>1. k # gone
      BY <2>1, <2>4
    <3>2. rest[IF k < gone THEN k ELSE k - 1] = x.clients[k]
          /\ (IF k < gone THEN k ELSE k - 1) \in 1..Len(rest)
      BY <1>2, <1>5, <1>6, <3>1
    <3> QED
      BY <1>5, <1>8, <2>1, <2>4, <3>2
  <2> QED
    BY <2>2, <2>3, <2>4
<1>10. passed \in 0..MaxSerial
  BY <1>7, <1>9, BoundAssumption
<1>11. PICK cursor : cursor = IF x.cursor > Len(rest) THEN 1 ELSE x.cursor
  OBVIOUS
<1>12. cursor \in 1..(Len(rest) + 1) /\ (rest # <<>> => cursor <= Len(rest))
  BY <1>3, <1>5, <1>11 DEF Listing
<1>13. PICK z : z = [x EXCEPT !.clients = rest, !.cursor = cursor, !.due = passed]
  OBVIOUS
<1>14. /\ z \in Driver /\ z.clients = rest /\ z.cursor = cursor /\ z.due = passed
       /\ z.nextSerial = x.nextSerial /\ z.stopped = x.stopped /\ z.kicked = x.kicked
       /\ z.idle = x.idle /\ z.zero = x.zero /\ z.stallReported = x.stallReported
  <2>1. cursor \in Nat
    BY <1>5, <1>12
  <2> QED
    BY <1>3, <1>5, <1>10, <1>13, <2>1 DEF Driver
<1>15. Listing(z)
  <2>1. Len(rest) < x.nextSerial
    BY <1>3, <1>5 DEF Listing, Driver
  <2> QED
    BY <1>6, <1>7, <1>9, <1>12, <1>14, <2>1 DEF Listing
<1>16. PICK left : left = ResetRound(z)
  OBVIOUS
<1>17. /\ Listing(left) /\ Same(rest, left.clients)
       /\ \A i \in DOMAIN rest : ~left.clients[i].inRound
       /\ ~left.roundCalls /\ ~left.roundProgress
       /\ left.cursor = cursor /\ left.stopped = x.stopped /\ left.kicked = x.kicked
       /\ left.idle = x.idle /\ left.zero = x.zero /\ left.stallReported = x.stallReported
  BY <1>14, <1>15, <1>16, ResetListing
<1>18. left.clients \in Seq(Entry) /\ left \in Driver
  BY <1>17 DEF Listing, Driver
<1>19. DOMAIN left.clients = DOMAIN rest /\ Len(left.clients) = Len(rest)
       /\ (left.clients = <<>> <=> rest = <<>>)
  BY <1>5, <1>17, <1>18, Members DEF Same
<1>20. Removed(x, c) = IF rest = <<>> THEN Stopped(left) ELSE left
  BY <1>1, <1>4, <1>8, <1>11, <1>13, <1>16 DEF Removed
<1>21. CASE rest = <<>>
  BY <1>17, <1>18, <1>20, <1>21, StoppedListing, StoppedKeeps
<1>22. CASE rest # <<>>
  BY <1>6, <1>12, <1>17, <1>19, <1>20, <1>22
<1> QED
  BY <1>21, <1>22

\* add() puts a new registration last.
LEMMA AddedListing ==
    ASSUME NEW x, Listing(x), ~x.stopped, x.nextSerial <= MaxSerial, NEW c \in Clients,
           \A i \in DOMAIN x.clients : x.clients[i].client # c
    PROVE  LET y == Added(x, c)
           IN  /\ Listing(y) /\ y.clients # <<>>
               /\ \A i \in DOMAIN y.clients : ~y.clients[i].inRound
               /\ \A i \in DOMAIN y.clients : i \notin DOMAIN x.clients => ~y.clients[i].swept
               /\ \A i \in DOMAIN x.clients : /\ i \in DOMAIN y.clients
                                              /\ y.clients[i].serial = x.clients[i].serial
               /\ Len(y.clients) = Len(x.clients) + 1
               /\ ~y.roundCalls /\ ~y.roundProgress
               /\ y.cursor = x.cursor /\ y.stopped = x.stopped /\ y.kicked = x.kicked
               /\ y.idle = x.idle /\ y.zero = x.zero /\ y.stallReported = x.stallReported
               /\ y.due = IF x.due = 0 THEN x.nextSerial ELSE x.due
<1>1. PICK e : e = [client |-> c, serial |-> x.nextSerial, inRound |-> FALSE, swept |-> FALSE]
  OBVIOUS
<1>2. x \in Driver /\ x.clients \in Seq(Entry) /\ x.nextSerial \in 1..MaxSerial
      /\ x.due \in 0..MaxSerial
  BY BoundAssumption DEF Listing, Driver
<1>3. e \in Entry /\ e.client = c /\ e.serial = x.nextSerial /\ ~e.inRound /\ ~e.swept
  BY <1>1, <1>2 DEF Entry
<1>4. PICK list : list = Append(x.clients, e)
  OBVIOUS
<1>5. /\ list \in Seq(Entry) /\ Len(list) = Len(x.clients) + 1 /\ list # <<>>
      /\ \A i \in 1..Len(x.clients) : list[i] = x.clients[i]
      /\ list[Len(x.clients) + 1] = e
  BY <1>2, <1>3, <1>4, AppendProperties
<1>6. /\ DOMAIN list = 1..Len(list) /\ DOMAIN x.clients = 1..Len(x.clients)
      /\ Len(x.clients) \in Nat
  BY <1>2, <1>5, Members
<1>7. PICK z : z = [x EXCEPT !.clients = list, !.nextSerial = x.nextSerial + 1,
                             !.due = IF x.due = 0 THEN x.nextSerial ELSE x.due]
  OBVIOUS
<1>8. /\ z \in Driver /\ z.clients = list /\ z.nextSerial = x.nextSerial + 1
      /\ z.due = IF x.due = 0 THEN x.nextSerial ELSE x.due
      /\ z.cursor = x.cursor /\ z.stopped = x.stopped /\ z.kicked = x.kicked
      /\ z.idle = x.idle /\ z.zero = x.zero /\ z.stallReported = x.stallReported
  <2>1. /\ x.nextSerial + 1 \in 1..(MaxSerial + 1)
        /\ (IF x.due = 0 THEN x.nextSerial ELSE x.due) \in 0..MaxSerial
    BY <1>2, BoundAssumption
  <2> QED
    BY <1>2, <1>5, <1>7, <2>1 DEF Driver
<1>9. Listing(z)
  <2>1. ASSUME NEW i \in DOMAIN list, NEW j \in DOMAIN list, i < j
        PROVE  list[i].client # list[j].client /\ list[i].serial < list[j].serial
    <3>1. i \in DOMAIN x.clients /\ list[i] = x.clients[i]
      BY <1>5, <1>6, <2>1
    <3>2. CASE j \in DOMAIN x.clients
      BY <1>5, <1>6, <2>1, <3>1, <3>2 DEF Listing
    <3>3. CASE j \notin DOMAIN x.clients
      <4>1. list[j] = e
        BY <1>5, <1>6, <3>3
      <4> QED
        BY <1>3, <3>1, <4>1 DEF Listing
    <3> QED
      BY <3>2, <3>3
  <2>2. ASSUME NEW i \in DOMAIN list
        PROVE  list[i].serial < x.nextSerial + 1
    <3>1. CASE i \in DOMAIN x.clients
      <4>1. x.clients[i].serial < x.nextSerial /\ x.clients[i].serial \in 1..MaxSerial
        BY <1>2, <3>1, Members, EntryFields DEF Listing
      <4> QED
        BY <1>2, <1>5, <1>6, <3>1, <4>1, BoundAssumption
    <3>2. CASE i \notin DOMAIN x.clients
      <4>1. list[i] = e
        BY <1>5, <1>6, <3>2
      <4> QED
        BY <1>2, <1>3, <4>1
    <3> QED
      BY <3>1, <3>2
  <2>3. \E i \in DOMAIN list : list[i].serial = z.due
    <3>1. CASE x.due = 0
      BY <1>3, <1>5, <1>6, <1>8, <3>1
    <3>2. CASE x.due # 0
      <4>1. PICK i \in DOMAIN x.clients : x.clients[i].serial = x.due
        BY <3>2 DEF Listing
      <4> QED
        BY <1>5, <1>6, <1>8, <3>2, <4>1
    <3> QED
      BY <3>1, <3>2
  <2>4. /\ x.cursor \in 1..(Len(list) + 1) /\ Len(list) < x.nextSerial + 1
    BY <1>2, <1>5, <1>6 DEF Listing
  <2> QED
    BY <1>5, <1>8, <2>1, <2>2, <2>3, <2>4 DEF Listing
<1>10. PICK y : y = ResetRound(z)
  OBVIOUS
<1>11. /\ Listing(y) /\ Same(list, y.clients)
       /\ \A i \in DOMAIN list : ~y.clients[i].inRound /\ y.clients[i].swept = list[i].swept
       /\ ~y.roundCalls /\ ~y.roundProgress
       /\ y.cursor = x.cursor /\ y.stopped = x.stopped /\ y.kicked = x.kicked
       /\ y.idle = x.idle /\ y.zero = x.zero /\ y.stallReported = x.stallReported
       /\ y.due = IF x.due = 0 THEN x.nextSerial ELSE x.due
  BY <1>8, <1>9, <1>10, ResetListing
<1>12. y.clients # <<>> /\ DOMAIN y.clients = DOMAIN list
  <2>1. y.clients \in Seq(Entry)
    BY <1>11 DEF Listing, Driver
  <2> QED
    BY <1>5, <1>6, <1>11, <2>1, Members DEF Same
<1>13. y = Added(x, c)
  BY <1>1, <1>4, <1>7, <1>10 DEF Added
<1>14. \A i \in DOMAIN y.clients : i \notin DOMAIN x.clients => ~y.clients[i].swept
  BY <1>3, <1>5, <1>6, <1>11, <1>12
<1>15. \A i \in DOMAIN x.clients :
         i \in DOMAIN y.clients /\ y.clients[i].serial = x.clients[i].serial
  BY <1>5, <1>6, <1>11, <1>12 DEF Same
<1>16. Len(y.clients) = Len(x.clients) + 1
  BY <1>5, <1>11 DEF Same
<1> QED
  BY <1>11, <1>12, <1>13, <1>14, <1>15, <1>16

\* Every call of receive(0) is recorded, and the one that ends a sweep starts
\* the next.
LEMMA CalledListing ==
    ASSUME NEW x, Listing(x)
    PROVE  LET y == WithCall(x)
               full == \A i \in DOMAIN x.clients :
                          x.clients[i].swept \/ x.clients[i].serial = current.serial
           IN  /\ Listing(y) /\ Same(x.clients, y.clients)
               /\ \A i \in DOMAIN x.clients : y.clients[i].inRound = x.clients[i].inRound
               /\ full => \A i \in DOMAIN x.clients : ~y.clients[i].swept
               /\ ~full => \A i \in DOMAIN x.clients :
                     y.clients[i].swept
                       = (x.clients[i].swept \/ x.clients[i].serial = current.serial)
               /\ y.roundCalls /\ y.roundProgress = x.roundProgress
               /\ y.cursor = x.cursor /\ y.stopped = x.stopped /\ y.kicked = x.kicked
               /\ y.idle = x.idle /\ y.zero = x.zero /\ y.stallReported = x.stallReported
               /\ y.nextSerial = x.nextSerial /\ y.due = x.due
<1>1. PICK seen : seen = [i \in DOMAIN x.clients |->
                            IF x.clients[i].serial = current.serial
                            THEN [x.clients[i] EXCEPT !.swept = TRUE] ELSE x.clients[i]]
  OBVIOUS
<1>2. x \in Driver /\ x.clients \in Seq(Entry)
  BY DEF Listing, Driver
<1>3. \A i \in DOMAIN x.clients : x.clients[i] \in Entry
  BY <1>2, Members
<1>4. \A i \in DOMAIN x.clients :
        /\ seen[i] \in Entry
        /\ seen[i].client = x.clients[i].client /\ seen[i].serial = x.clients[i].serial
        /\ seen[i].inRound = x.clients[i].inRound
        /\ seen[i].swept = (x.clients[i].swept \/ x.clients[i].serial = current.serial)
  <2> TAKE i \in DOMAIN x.clients
  <2>1. PICK e \in Entry : e = x.clients[i]
    BY <1>3
  <2>2. seen[i] = IF e.serial = current.serial THEN [e EXCEPT !.swept = TRUE] ELSE e
    BY <1>1, <2>1
  <2>3. e.swept \in BOOLEAN
    BY EntryFields
  <2>4. CASE e.serial = current.serial
    <3>1. PICK f : f = [e EXCEPT !.swept = TRUE]
      OBVIOUS
    <3>2. /\ f \in Entry /\ f.client = e.client /\ f.serial = e.serial
          /\ f.inRound = e.inRound /\ f.swept = TRUE
      BY <3>1, EntryFields
    <3>3. seen[i] = f
      BY <2>2, <2>4, <3>1
    <3> QED
      BY <2>1, <2>4, <3>2, <3>3
  <2>5. CASE e.serial # current.serial
    BY <2>1, <2>2, <2>3, <2>5
  <2> QED
    BY <2>4, <2>5
<1>5. seen \in Seq(Entry) /\ Same(x.clients, seen)
  BY <1>1, <1>2, <1>4, Recorded
<1>6. PICK full : full = \A i \in DOMAIN seen : seen[i].swept
  OBVIOUS
<1>7. full <=> \A i \in DOMAIN x.clients :
                 x.clients[i].swept \/ x.clients[i].serial = current.serial
  BY <1>4, <1>5, <1>6 DEF Same
<1>8. PICK list : list = IF full THEN Unswept(seen) ELSE seen
  OBVIOUS
<1>9. /\ list \in Seq(Entry) /\ Same(x.clients, list)
      /\ \A i \in DOMAIN x.clients : list[i].inRound = x.clients[i].inRound
      /\ full => \A i \in DOMAIN x.clients : ~list[i].swept
      /\ ~full => \A i \in DOMAIN x.clients : list[i].swept = seen[i].swept
  <2>1. CASE full
    BY <1>4, <1>5, <1>8, <2>1, Forgets DEF Same
  <2>2. CASE ~full
    BY <1>4, <1>5, <1>8, <2>2
  <2> QED
    BY <2>1, <2>2
<1>10. PICK y : y = [x EXCEPT !.roundCalls = TRUE, !.clients = list]
  OBVIOUS
<1>11. /\ y \in Driver /\ y.clients = list
       /\ y.roundCalls /\ y.roundProgress = x.roundProgress
       /\ y.cursor = x.cursor /\ y.stopped = x.stopped /\ y.kicked = x.kicked
       /\ y.idle = x.idle /\ y.zero = x.zero /\ y.stallReported = x.stallReported
       /\ y.nextSerial = x.nextSerial /\ y.due = x.due
  BY <1>2, <1>9, <1>10 DEF Driver
<1>12. Listing(y)
  BY <1>9, <1>11, Relisted
<1>13. y = WithCall(x)
  BY <1>1, <1>6, <1>8, <1>10 DEF WithCall, Map
<1> QED
  BY <1>4, <1>7, <1>9, <1>11, <1>12, <1>13

\* _complete_round() counts a round without progress that called every client.
LEMMA CompletedListing ==
    ASSUME NEW x, Listing(x)
    PROVE  LET y == CompleteRound(x)
               counts == x.roundCalls /\ \A i \in DOMAIN x.clients : x.clients[i].inRound
           IN  /\ Listing(y) /\ Same(x.clients, y.clients)
               /\ \A i \in DOMAIN x.clients :
                     ~y.clients[i].inRound /\ y.clients[i].swept = x.clients[i].swept
               /\ ~y.roundCalls /\ ~y.roundProgress
               /\ y.cursor = x.cursor /\ y.stopped = x.stopped /\ y.kicked = x.kicked
               /\ y.zero = x.zero /\ y.stallReported = x.stallReported
               /\ y.nextSerial = x.nextSerial /\ y.due = x.due
               /\ ~counts => y.idle = x.idle
               /\ counts /\ x.roundProgress => y.idle = 0
               /\ counts /\ ~x.roundProgress => y.idle = Capped(x.idle)
<1>1. PICK counts : counts = (x.roundCalls /\ \A i \in DOMAIN x.clients : x.clients[i].inRound)
  OBVIOUS
<1>2. PICK n : n = IF ~counts THEN x.idle ELSE IF x.roundProgress THEN 0 ELSE Capped(x.idle)
  OBVIOUS
<1>3. x \in Driver /\ x.idle \in 0..StallAfter
  BY DEF Listing, Driver
<1>4. n \in 0..StallAfter
  BY <1>2, <1>3, StallAssumption DEF Capped
<1>5. PICK z : z = [x EXCEPT !.idle = n]
  OBVIOUS
<1>6. /\ z \in Driver /\ z.idle = n /\ z.clients = x.clients
      /\ z.cursor = x.cursor /\ z.stopped = x.stopped /\ z.kicked = x.kicked
      /\ z.zero = x.zero /\ z.stallReported = x.stallReported
      /\ z.nextSerial = x.nextSerial /\ z.due = x.due
  BY <1>3, <1>4, <1>5 DEF Driver
<1>7. Listing(z)
  BY <1>6 DEF Listing
<1>8. CompleteRound(x) = ResetRound(z)
  BY <1>1, <1>2, <1>5 DEF CompleteRound
<1>9. PICK y : y = ResetRound(z)
  OBVIOUS
<1>10. /\ Listing(y) /\ Same(x.clients, y.clients)
       /\ \A i \in DOMAIN x.clients :
             ~y.clients[i].inRound /\ y.clients[i].swept = x.clients[i].swept
       /\ ~y.roundCalls /\ ~y.roundProgress
       /\ y.cursor = x.cursor /\ y.stopped = x.stopped /\ y.kicked = x.kicked
       /\ y.zero = x.zero /\ y.stallReported = x.stallReported
       /\ y.nextSerial = x.nextSerial /\ y.due = x.due /\ y.idle = n
  BY <1>6, <1>7, <1>9, ResetListing
<1> QED
  BY <1>1, <1>2, <1>8, <1>9, <1>10

LEMMA Wraps ==
    ASSUME NEW n \in Nat \ {0}, NEW a \in 1..n
    PROVE  a % n = IF a = n THEN 0 ELSE a
OBVIOUS

\* The cursor goes to the registration that follows the client just served.
LEMMA CursorFollows ==
    ASSUME Listing(d), NEW e \in Entry
    PROVE  /\ d.clients = <<>> => CursorAfter(e) = 1
           /\ d.clients # <<>> =>
                 /\ CursorAfter(e) \in 1..Len(d.clients)
                 /\ d.clients[CursorAfter(e)].serial = SerialAfter(d.clients, e.serial)
<1>1. d.clients \in Seq(Entry) /\ e.serial \in Nat
  BY BoundAssumption DEF Listing, Driver, Entry
<1>2. DOMAIN d.clients = 1..Len(d.clients) /\ Len(d.clients) \in Nat
      /\ (d.clients = <<>> <=> Len(d.clients) = 0)
  BY <1>1, Members
<1>3. Sorted(d.clients) /\ \A i \in DOMAIN d.clients : d.clients[i].serial \in Nat
  <2>1. \A i \in DOMAIN d.clients : d.clients[i] \in Entry
    BY <1>1, Members
  <2> QED
    BY <2>1, BoundAssumption DEF Listing, Sorted, Entry
<1>4. CASE IsRegistered(e)
  <2>1. PICK at : at = CHOOSE i \in DOMAIN d.clients : d.clients[i].serial = e.serial
    OBVIOUS
  <2>2. at \in 1..Len(d.clients) /\ d.clients[at].serial = e.serial
    BY <1>2, <1>4, <2>1 DEF IsRegistered
  <2>3. CursorAfter(e) = (at % Len(d.clients)) + 1
    BY <1>4, <2>1 DEF CursorAfter
  <2>4. PICK next : next = IndexAfter(d.clients, e.serial)
    OBVIOUS
  <2>5. /\ next \in 1..Len(d.clients)
        /\ SerialAfter(d.clients, e.serial) = d.clients[next].serial
        /\ d.clients[next].serial > e.serial =>
              \A i \in DOMAIN d.clients : d.clients[i].serial > e.serial =>
                  d.clients[next].serial <= d.clients[i].serial
        /\ ~(d.clients[next].serial > e.serial) =>
              /\ next = 1
              /\ \A i \in DOMAIN d.clients : ~(d.clients[i].serial > e.serial)
    <3>1. d.clients # <<>> /\ e.serial \in Int
      BY <1>1, <1>2, <2>2
    <3> QED
      BY <1>1, <1>3, <2>4, <3>1, After
  <2>6. CASE at = Len(d.clients)
    <3>1. CursorAfter(e) = 1
      <4>1. PICK n : n = Len(d.clients)
        OBVIOUS
      <4>2. n \in Nat \ {0} /\ at \in 1..n /\ at = n
        BY <1>2, <2>2, <2>6, <4>1
      <4>3. at % n = 0
        BY <4>2, Wraps
      <4> QED
        BY <2>3, <4>1, <4>3
    <3>2. ~(d.clients[next].serial > e.serial)
      BY <1>2, <1>3, <2>2, <2>5, <2>6 DEF Sorted
    <3> QED
      BY <1>2, <2>2, <2>5, <3>1, <3>2
  <2>7. CASE at < Len(d.clients)
    <3>1. CursorAfter(e) = at + 1
      <4>1. PICK n : n = Len(d.clients)
        OBVIOUS
      <4>2. n \in Nat \ {0} /\ at \in 1..n /\ at # n
        BY <1>2, <2>2, <2>7, <4>1
      <4>3. at % n = at
        BY <4>2, Wraps
      <4> QED
        BY <2>3, <4>1, <4>3
    <3>2. d.clients[at + 1].serial > e.serial
      BY <1>2, <1>3, <2>2, <2>7 DEF Sorted
    <3>3. d.clients[next].serial > e.serial /\ d.clients[next].serial <= d.clients[at + 1].serial
      BY <1>2, <2>2, <2>5, <2>7, <3>2
    <3>4. next = at + 1
      <4>1. at \in DOMAIN d.clients /\ next \in DOMAIN d.clients /\ at + 1 \in DOMAIN d.clients
        BY <1>2, <2>2, <2>5, <2>7
      <4>2. /\ d.clients[next].serial \in Nat /\ d.clients[at].serial \in Nat
            /\ d.clients[at + 1].serial \in Nat
        BY <1>3, <4>1
      <4>3. ~(next <= at)
        <5>1. next < at => d.clients[next].serial < d.clients[at].serial
          BY <1>3, <4>1 DEF Sorted
        <5> QED
          BY <1>2, <2>2, <2>5, <3>3, <4>2, <5>1
      <4>4. ~(at + 1 < next)
        <5>1. at + 1 < next => d.clients[at + 1].serial < d.clients[next].serial
          BY <1>3, <4>1 DEF Sorted
        <5> QED
          BY <3>3, <4>2, <5>1
      <4> QED
        BY <1>2, <4>1, <4>3, <4>4
    <3> QED
      BY <1>2, <2>2, <2>5, <2>7, <3>1, <3>4
  <2> QED
    BY <1>2, <2>2, <2>6, <2>7
<1>5. CASE ~IsRegistered(e) /\ d.clients # <<>>
  <2>1. CursorAfter(e) = IndexAfter(d.clients, e.serial) /\ e.serial \in Int
    BY <1>1, <1>5 DEF CursorAfter
  <2> QED
    BY <1>1, <1>3, <1>5, <2>1, After
<1>6. CASE ~IsRegistered(e) /\ d.clients = <<>>
  <2>1. DOMAIN d.clients = {}
    BY <1>1, <1>6, Members
  <2> QED
    BY <1>6, <2>1 DEF CursorAfter, IndexAfter
<1> QED
  BY <1>4, <1>5, <1>6

\* Serials start over with a turn, and the one to serve next stays the same.
LEMMA RenumberedListing ==
    ASSUME NEW x, Listing(x), x.clients # <<>>
    PROVE  LET y == Renumbered(x)
           IN  /\ Listing(y) /\ y.clients # <<>> /\ Len(y.clients) = Len(x.clients)
               /\ \A i \in DOMAIN x.clients :
                     /\ y.clients[i].serial = i /\ y.clients[i].client = x.clients[i].client
                     /\ y.clients[i].inRound = x.clients[i].inRound
                     /\ y.clients[i].swept = x.clients[i].swept
               /\ y.due \in DOMAIN x.clients /\ x.clients[y.due].serial = x.due
               /\ y.roundCalls = x.roundCalls /\ y.roundProgress = x.roundProgress
               /\ y.cursor = x.cursor /\ y.stopped = x.stopped /\ y.kicked = x.kicked
               /\ y.idle = x.idle /\ y.zero = x.zero /\ y.stallReported = x.stallReported
<1>1. x \in Driver /\ x.clients \in Seq(Entry) /\ x.nextSerial \in 1..(MaxSerial + 1)
  BY DEF Listing, Driver
<1>2. /\ DOMAIN x.clients = 1..Len(x.clients) /\ Len(x.clients) \in 1..MaxSerial
      /\ \A i \in DOMAIN x.clients : x.clients[i] \in Entry
  BY <1>1, Members, BoundAssumption DEF Listing
<1>3. PICK list : list = [i \in DOMAIN x.clients |-> [x.clients[i] EXCEPT !.serial = i]]
  OBVIOUS
<1>4. ASSUME NEW i \in DOMAIN x.clients
      PROVE  /\ list[i] \in Entry /\ list[i].serial = i
             /\ list[i].client = x.clients[i].client
             /\ list[i].inRound = x.clients[i].inRound /\ list[i].swept = x.clients[i].swept
  <2>1. PICK e \in Entry : e = x.clients[i]
    BY <1>2
  <2>2. i \in 1..MaxSerial
    BY <1>2, BoundAssumption
  <2> QED
    BY <1>3, <2>1, <2>2 DEF Entry
<1>5. list \in Seq(Entry) /\ Len(list) = Len(x.clients) /\ DOMAIN list = DOMAIN x.clients
  <2>1. list \in [1..Len(x.clients) -> Entry] /\ Len(x.clients) \in Nat
    <3>1. DOMAIN list = 1..Len(x.clients) /\ list = [i \in DOMAIN list |-> list[i]]
      BY <1>2, <1>3
    <3>2. \A i \in 1..Len(x.clients) : list[i] \in Entry
      BY <1>2, <1>4
    <3> QED
      BY <1>2, <3>1, <3>2
  <2> QED
    BY <1>3, <2>1, IsSequence
<1>6. PICK due : due = CHOOSE i \in DOMAIN x.clients : x.clients[i].serial = x.due
  OBVIOUS
<1>7. due \in DOMAIN x.clients /\ x.clients[due].serial = x.due
  BY <1>6 DEF Listing
<1>8. PICK y : y = [x EXCEPT !.clients = list, !.nextSerial = Len(x.clients) + 1, !.due = due]
  OBVIOUS
<1>9. /\ y \in Driver /\ y.clients = list /\ y.nextSerial = Len(x.clients) + 1 /\ y.due = due
      /\ y.roundCalls = x.roundCalls /\ y.roundProgress = x.roundProgress
      /\ y.cursor = x.cursor /\ y.stopped = x.stopped /\ y.kicked = x.kicked
      /\ y.idle = x.idle /\ y.zero = x.zero /\ y.stallReported = x.stallReported
  <2>1. Len(x.clients) + 1 \in 1..(MaxSerial + 1) /\ due \in 0..MaxSerial
    BY <1>2, <1>7, BoundAssumption
  <2> QED
    BY <1>1, <1>5, <1>8, <2>1 DEF Driver
<1>10. Renumbered(x) = y
  BY <1>3, <1>6, <1>8 DEF Renumbered
<1>11. list # <<>>
  BY <1>2, <1>5, Members
<1>12. Listing(y)
  <2>1. ~x.stopped /\ x.cursor \in 1..(Len(list) + 1)
    BY <1>5 DEF Listing
  <2>2. \A i, j \in DOMAIN list : i < j =>
            list[i].client # list[j].client /\ list[i].serial < list[j].serial
    BY <1>4, <1>5 DEF Listing
  <2>3. \A i \in DOMAIN list : list[i].serial < Len(x.clients) + 1
    BY <1>2, <1>4, <1>5
  <2> QED
    BY <1>2, <1>4, <1>5, <1>7, <1>9, <1>11, <2>1, <2>2, <2>3 DEF Listing
<1> QED
  BY <1>4, <1>5, <1>7, <1>9, <1>10, <1>11, <1>12

-----------------------------------------------------------------------------
(***************************************************************************)
(* Operations of the application preserve the invariant.                   *)
(***************************************************************************)

\* The invariant after a step that leaves the locals of tick() and the world
\* alone, where an operation may be called.
LEMMA OperatedInv ==
    ASSUME Inv, UNCHANGED <<turn, world>>, pc \in {"idle", "receive", "deliver"},
           Listing(d'), pc # "idle" => d'.stopped \/ d'.clients # <<>>,
           pc = "idle" /\ ~Terminal => AtCursor(d'),
           quiet' \in 0..StallAfter, reports' \in 0..2, Episode', Earned'
    PROVE  Inv'
<1>1. TypeOK' /\ Locals'
  BY DEF Inv, TypeOK, Locals, Listing, turn, world
<1>2. Rotation' /\ NextIsDue'
  BY DEF Inv, Rotation, NextIsDue, InOrder, turn
<1>3. Terminal' <=> Terminal
  BY DEF Terminal, turn
<1> QED
  BY <1>1, <1>2, <1>3 DEF Inv, turn

\* A round that starts anew is covered by any sweeps.
LEMMA NewRoundCovers ==
    ASSUME NEW x, Listing(x), NEW y, NEW u, NEW n, NEW s, NEW t, Covers(x, u, n, s),
           y.idle = x.idle, ~y.roundCalls,
           \A i \in DOMAIN y.clients : ~y.clients[i].inRound
    PROVE  Covers(y, u, n, t)
BY DEF Covers, Idle

LEMMA AddInv ==
    ASSUME Inv, NEW c \in Clients, Add(c)
    PROVE  Inv'
<1>1. /\ pc \in {"idle", "receive", "deliver"} /\ ~d.stopped
      /\ \A i \in DOMAIN d.clients : d.clients[i].client # c
      /\ d.nextSerial <= MaxSerial /\ d' = Added(d, c)
      /\ UNCHANGED <<turn, world, history>>
  BY DEF Add, MayCall, Registered
<1>2. Listing(d)
  BY DEF Inv
<1>3. /\ Listing(d') /\ d'.clients # <<>>
      /\ \A i \in DOMAIN d'.clients : ~d'.clients[i].inRound
      /\ \A i \in DOMAIN d.clients : /\ i \in DOMAIN d'.clients
                                     /\ d'.clients[i].serial = d.clients[i].serial
      /\ Len(d'.clients) = Len(d.clients) + 1
      /\ ~d'.roundCalls /\ ~d'.roundProgress
      /\ d'.cursor = d.cursor /\ d'.stopped = d.stopped
      /\ d'.idle = d.idle /\ d'.stallReported = d.stallReported
      /\ d'.due = IF d.due = 0 THEN d.nextSerial ELSE d.due
  BY <1>1, <1>2, AddedListing
<1>4. Episode'
  BY <1>1, <1>3 DEF Inv, Episode, turn, history
<1>5. Earned'
  <2>1. ~d.stopped /\ ~Terminal => Covers(d', updates, quiet, Calling')
    BY <1>2, <1>3, NewRoundCovers DEF Inv, Earned
  <2>2. Terminal' <=> Terminal
    BY <1>1 DEF Terminal, turn
  <2> QED
    BY <1>1, <1>3, <2>1, <2>2 DEF Earned, turn, history
<1>6. pc = "idle" /\ ~Terminal => AtCursor(d')
  <2> SUFFICES ASSUME pc = "idle", ~Terminal
               PROVE  AtCursor(d')
    OBVIOUS
  <2>1. d.clients \in Seq(Entry) /\ d'.clients \in Seq(Entry)
    BY <1>2, <1>3 DEF Listing, Driver
  <2>2. /\ DOMAIN d.clients = 1..Len(d.clients) /\ Len(d.clients) \in Nat
        /\ DOMAIN d'.clients = 1..Len(d'.clients)
        /\ (d.clients = <<>> <=> Len(d.clients) = 0)
    BY <2>1, Members
  <2>3. CASE d.clients = <<>>
    <3>1. d.due = 0 /\ d.cursor = 1 /\ Len(d.clients) = 0
      BY <1>2, <2>2, <2>3 DEF Listing
    <3>2. PICK i \in DOMAIN d'.clients : d'.clients[i].serial = d'.due
      BY <1>3 DEF Listing
    <3>3. i = 1
      BY <1>3, <2>2, <3>1, <3>2
    <3> QED
      BY <1>3, <2>2, <3>1, <3>2, <3>3 DEF AtCursor
  <2>4. CASE d.clients # <<>>
    <3>1. d.cursor <= Len(d.clients) /\ d.clients[d.cursor].serial = d.due /\ d.cursor >= 1
      BY <1>1, <1>2, <2>4 DEF Inv, AtCursor, Listing
    <3>2. d.cursor \in DOMAIN d.clients
      BY <1>2, <2>2, <3>1 DEF Listing, Driver
    <3>3. d.due # 0
      <4>1. d.clients[d.cursor].serial \in 1..MaxSerial
        BY <2>1, <3>2, Members, EntryFields
      <4> QED
        BY <3>1, <4>1
    <3> QED
      BY <1>3, <2>2, <3>1, <3>2, <3>3 DEF AtCursor
  <2> QED
    BY <2>3, <2>4
<1>7. quiet' \in 0..StallAfter /\ reports' \in 0..2
  BY <1>1 DEF Inv, TypeOK, history
<1> QED
  BY <1>1, <1>3, <1>4, <1>5, <1>6, <1>7, OperatedInv DEF turn, world

\* stop(), wherever tick() is.
LEMMA StopsInv ==
    ASSUME Inv, d' = Stopped(d), UNCHANGED <<turn, world, history>>
    PROVE  Inv'
<1>1. /\ Listing(d') /\ d'.stopped /\ d'.clients = <<>> /\ d'.due = 0
  BY StoppedListing DEF Inv, TypeOK
<1>2. TypeOK' /\ Locals'
  BY <1>1 DEF Inv, TypeOK, Locals, Listing, turn, world, history
<1>3. Rotation' /\ Episode'
  BY <1>1 DEF Inv, Rotation, Episode, turn, history
<1>4. NextIsDue'
  <2>1. \A i \in DOMAIN queue : queue[i].serial # 0
    <3>1. \A i \in DOMAIN queue : queue[i] \in Entry
      BY Members DEF Inv, TypeOK
    <3>2. \A e \in Entry : e.serial \in 1..MaxSerial
      BY EntryFields
    <3> QED
      BY <3>1, <3>2
  <2> QED
    BY <1>1, <2>1 DEF NextIsDue, InOrder, turn
<1>5. Earned'
  <2>1. DOMAIN d'.clients = {}
    BY <1>1
  <2> QED
    BY <1>1, <2>1 DEF Earned
<1> QED
  BY <1>1, <1>2, <1>3, <1>4, <1>5 DEF Inv, AtCursor

LEMMA AddFailsInv ==
    ASSUME Inv, NEW c \in Clients, AddFails(c)
    PROVE  Inv'
<1>1. /\ pc \in {"idle", "receive", "deliver"} /\ ~d.stopped
      /\ d.nextSerial <= MaxSerial
      /\ UNCHANGED <<turn, world, history>>
  BY DEF AddFails, MayCall
<1>2. PICK y : y = ResetRound(d)
  OBVIOUS
<1>3. /\ Listing(y) /\ Same(d.clients, y.clients)
      /\ \A i \in DOMAIN d.clients : ~y.clients[i].inRound
      /\ ~y.roundCalls
      /\ y.cursor = d.cursor /\ y.stopped = d.stopped
      /\ y.idle = d.idle /\ y.stallReported = d.stallReported
      /\ y.nextSerial = d.nextSerial /\ y.due = d.due
  BY <1>2, ResetListing DEF Inv
<1>4. d.nextSerial \in 1..MaxSerial /\ y \in Driver
  BY <1>1, <1>3 DEF Inv, TypeOK, Driver, Listing
<1>5. ASSUME d' = [y EXCEPT !.nextSerial = @ + 1]
      PROVE  Inv'
  <2>1. /\ d' \in Driver /\ d'.clients = y.clients /\ d'.nextSerial = y.nextSerial + 1
        /\ d'.cursor = y.cursor /\ d'.stopped = y.stopped /\ d'.due = y.due
        /\ d'.idle = y.idle /\ d'.roundCalls = y.roundCalls
        /\ d'.stallReported = y.stallReported
    <3>1. y.nextSerial + 1 \in 1..(MaxSerial + 1)
      BY <1>3, <1>4, BoundAssumption
    <3> QED
      BY <1>4, <1>5, <3>1 DEF Driver
  <2>2. Listing(d')
    <3>1. /\ \A i \in DOMAIN y.clients : y.clients[i].serial < y.nextSerial + 1
          /\ Len(y.clients) < y.nextSerial + 1
      <4>1. y.clients \in Seq(Entry)
        BY <1>4 DEF Driver
      <4>2. /\ \A i \in DOMAIN y.clients : y.clients[i].serial \in 1..MaxSerial
            /\ Len(y.clients) \in Nat
        BY <4>1, Members, EntryFields
      <4> QED
        BY <1>3, <1>4, <4>2, BoundAssumption DEF Listing
    <3> QED
      BY <1>3, <2>1, <3>1 DEF Listing
  <2>3. Episode'
    BY <1>1, <1>3, <2>1 DEF Inv, Episode, turn, history
  <2>4. \A i \in DOMAIN d'.clients : ~d'.clients[i].inRound
    BY <1>3, <2>1 DEF Same
  <2>5. Earned'
    <3>1. ~d.stopped /\ ~Terminal => Covers(d', updates, quiet, Calling')
      BY <1>3, <2>1, <2>4, NewRoundCovers DEF Inv, Earned
    <3>2. Terminal' <=> Terminal
      BY <1>1 DEF Terminal, turn
    <3> QED
      BY <1>1, <1>3, <2>1, <2>4, <3>1, <3>2 DEF Earned, turn, history
  <2>6. y.clients = <<>> <=> d.clients = <<>>
    <3>1. y.clients \in Seq(Entry) /\ d.clients \in Seq(Entry)
      BY <1>4 DEF Driver, Inv, TypeOK
    <3> QED
      BY <1>3, <3>1, Members DEF Same
  <2>7. pc = "idle" /\ ~Terminal => AtCursor(d')
    <3>1. d.clients # <<>> /\ d.cursor <= Len(d.clients) => d.cursor \in DOMAIN d.clients
      BY Members DEF Inv, TypeOK, Driver
    <3> QED
      BY <1>3, <2>1, <2>6, <3>1 DEF Inv, AtCursor, Same
  <2>8. quiet' \in 0..StallAfter /\ reports' \in 0..2
    BY <1>1 DEF Inv, TypeOK, history
  <2>9. pc # "idle" => d'.stopped \/ d'.clients # <<>>
    BY <1>3, <2>1, <2>6 DEF Inv, Locals
  <2> QED
    BY <1>1, <2>2, <2>3, <2>5, <2>7, <2>8, <2>9, OperatedInv DEF turn, world
<1>6. ASSUME d' = [Stopped(y) EXCEPT !.nextSerial = @ + 1]
      PROVE  Inv'
  <2>1. PICK z : z = Stopped(y)
    OBVIOUS
  <2>2. Listing(z) /\ z.stopped /\ z.clients = <<>> /\ z.nextSerial = d.nextSerial
    BY <1>3, <1>4, <2>1, StoppedListing DEF Stopped, Driver
  <2>3. /\ d' \in Driver /\ d'.clients = <<>> /\ d'.nextSerial = z.nextSerial + 1
        /\ d'.cursor = z.cursor /\ d'.stopped /\ d'.due = z.due
    <3>1. z.nextSerial + 1 \in 1..(MaxSerial + 1) /\ z \in Driver
      BY <1>4, <2>2, BoundAssumption DEF Listing
    <3> QED
      BY <1>6, <2>1, <2>2, <3>1 DEF Driver
  <2>4. Listing(d')
    BY <1>4, <2>2, <2>3, BoundAssumption DEF Listing
  <2>5. DOMAIN d'.clients = {}
    BY <2>3
  <2>6. Episode' /\ Earned'
    BY <1>1, <2>3, <2>5 DEF Inv, Episode, Earned, turn, history
  <2>7. quiet' \in 0..StallAfter /\ reports' \in 0..2
    BY <1>1 DEF Inv, TypeOK, history
  <2> QED
    BY <1>1, <2>3, <2>4, <2>6, <2>7, OperatedInv DEF AtCursor, turn, world
<1> QED
  BY <1>2, <1>5, <1>6 DEF AddFails

LEMMA RemoveInv ==
    ASSUME Inv, NEW c \in Clients, RemoveClient(c)
    PROVE  Inv'
<1>1. /\ pc \in {"idle", "receive", "deliver"}
      /\ \E i \in DOMAIN d.clients : d.clients[i].client = c
      /\ UNCHANGED <<turn, world, history>>
  BY DEF RemoveClient, MayCall, Registered
<1>2. PICK x : x = Removed(d, c)
  OBVIOUS
<1>3. /\ Listing(x)
      /\ \A i \in DOMAIN x.clients : ~x.clients[i].inRound
      /\ ~x.roundCalls
      /\ x.stopped \/ x.clients # <<>>
      /\ x.clients # <<>> => x.cursor <= Len(x.clients)
      /\ ~x.stopped => x.idle = d.idle /\ x.stallReported = d.stallReported
  BY <1>1, <1>2, RemovedListing DEF Inv
<1>4. x \in Driver /\ x.clients \in Seq(Entry)
  BY <1>3 DEF Listing, Driver
<1>5. /\ Listing(d') /\ d'.clients = x.clients /\ d'.stopped = x.stopped
      /\ d'.roundCalls = x.roundCalls /\ d'.idle = x.idle
      /\ d'.stallReported = x.stallReported
      /\ pc = "idle" => AtCursor(d')
  <2>1. CASE pc = "idle" /\ x.clients # <<>>
    <3>1. d' = [x EXCEPT !.due = x.clients[x.cursor].serial]
      BY <1>2, <2>1 DEF RemoveClient
    <3>2. x.cursor \in DOMAIN x.clients
      BY <1>3, <1>4, <2>1, Members DEF Listing
    <3>3. x.clients[x.cursor].serial \in 1..MaxSerial
      BY <1>4, <3>2, Members, EntryFields
    <3>4. /\ d' \in Driver /\ d'.clients = x.clients /\ d'.stopped = x.stopped
          /\ d'.roundCalls = x.roundCalls /\ d'.idle = x.idle
          /\ d'.stallReported = x.stallReported /\ d'.cursor = x.cursor
          /\ d'.nextSerial = x.nextSerial /\ d'.due = x.clients[x.cursor].serial
      <4>1. x.clients[x.cursor].serial \in 0..MaxSerial
        BY <3>3, BoundAssumption
      <4> QED
        BY <1>4, <3>1, <4>1 DEF Driver
    <3> QED
      BY <1>3, <2>1, <3>2, <3>4 DEF Listing, AtCursor
  <2>2. CASE ~(pc = "idle" /\ x.clients # <<>>)
    <3>1. d' = x
      BY <1>2, <2>2 DEF RemoveClient
    <3> QED
      BY <1>3, <2>2, <3>1 DEF AtCursor
  <2> QED
    BY <2>1, <2>2
<1>6. Episode'
  <2>1. ~d'.stopped => ~d.stopped
    BY <1>1, <1>3, <1>5 DEF Inv, Listing
  <2> QED
    BY <1>1, <1>3, <1>5, <2>1 DEF Inv, Episode, turn, history
<1>7. Earned'
  <2>1. ~d.stopped
    BY <1>1 DEF Inv, Listing
  <2>2. ~d'.stopped /\ ~Terminal => Covers(d', updates, quiet, Calling')
    BY <1>3, <1>5, <2>1, NewRoundCovers DEF Inv, Earned
  <2>3. Terminal' <=> Terminal
    BY <1>1 DEF Terminal, turn
  <2> QED
    BY <1>1, <1>3, <1>5, <2>2, <2>3 DEF Earned, turn, history
<1>8. quiet' \in 0..StallAfter /\ reports' \in 0..2
  BY <1>1 DEF Inv, TypeOK, history
<1> QED
  BY <1>1, <1>3, <1>5, <1>6, <1>7, <1>8, OperatedInv DEF turn, world

LEMMA KickInv ==
    ASSUME Inv, Kick
    PROVE  Inv'
<1>1. /\ pc \in {"idle", "receive", "deliver"} /\ d' = [d EXCEPT !.kicked = TRUE]
      /\ UNCHANGED <<turn, world, history>>
  BY DEF Kick, MayCall
<1>2. /\ d' \in Driver /\ d'.clients = d.clients /\ d'.stopped = d.stopped
      /\ d'.roundCalls = d.roundCalls /\ d'.roundProgress = d.roundProgress
      /\ d'.idle = d.idle /\ d'.due = d.due /\ d'.nextSerial = d.nextSerial
      /\ d'.stallReported = d.stallReported /\ d'.cursor = d.cursor
  BY <1>1 DEF Inv, TypeOK, Driver
<1>3. Listing(d') /\ (AtCursor(d) => AtCursor(d'))
  BY <1>2 DEF Inv, Listing, AtCursor
<1>4. Episode'
  BY <1>1, <1>2 DEF Inv, Episode, turn, history
<1>5. Earned'
  <2>1. Covers(d, updates, quiet, Calling) => Covers(d', updates, quiet, Calling)
    BY <1>2 DEF Covers, Idle
  <2>2. (Terminal' <=> Terminal) /\ Calling' = Calling
    BY <1>1 DEF Terminal, Calling, turn
  <2>3. IsRegistered(current)' <=> IsRegistered(current)
    BY <1>1, <1>2 DEF IsRegistered, turn
  <2> QED
    BY <1>1, <1>2, <2>1, <2>2, <2>3 DEF Inv, Earned, turn, history
<1>6. quiet' \in 0..StallAfter /\ reports' \in 0..2
  BY <1>1 DEF Inv, TypeOK, history
<1>7. pc # "idle" => d'.stopped \/ d'.clients # <<>>
  BY <1>2 DEF Inv, Locals
<1>8. pc = "idle" /\ ~Terminal => AtCursor(d')
  BY <1>3 DEF Inv
<1> QED
  BY <1>1, <1>3, <1>4, <1>5, <1>6, <1>7, <1>8, OperatedInv DEF turn, world

LEMMA ProgressInv ==
    ASSUME Inv, Progress
    PROVE  Inv'
<1>1. PICK off : off = Unswept(d.clients)
  OBVIOUS
<1>2. /\ pc \in {"idle", "receive", "deliver"}
      /\ d' = [d EXCEPT !.idle = 0, !.zero = 0, !.roundProgress = TRUE,
                        !.stallReported = FALSE, !.clients = off]
      /\ UNCHANGED <<turn, world>> /\ quiet' = 0 /\ reports' = 0
  BY <1>1 DEF Progress, MayCall
<1>3. d \in Driver /\ d.clients \in Seq(Entry) /\ Listing(d)
  BY DEF Inv, TypeOK, Driver
<1>4. /\ off \in Seq(Entry) /\ Same(d.clients, off)
      /\ \A i \in DOMAIN d.clients : ~off[i].swept /\ off[i].inRound = d.clients[i].inRound
  BY <1>1, <1>3, Forgets
<1>5. /\ d' \in Driver /\ d'.clients = off /\ d'.stopped = d.stopped
      /\ d'.roundProgress /\ d'.idle = 0 /\ d'.due = d.due /\ d'.nextSerial = d.nextSerial
      /\ d'.cursor = d.cursor
  <2>1. 0 \in 0..StallAfter
    BY StallAssumption
  <2> QED
    BY <1>2, <1>3, <1>4, <2>1 DEF Driver
<1>6. Listing(d')
  BY <1>3, <1>4, <1>5, Relisted
<1>7. off = <<>> <=> d.clients = <<>>
  BY <1>3, <1>4, Members DEF Same
<1>8. pc = "idle" /\ ~Terminal => AtCursor(d')
  <2>1. d.clients # <<>> /\ d.cursor <= Len(d.clients) => d.cursor \in DOMAIN d.clients
    BY <1>3, Members DEF Listing
  <2> QED
    BY <1>4, <1>5, <1>7, <2>1 DEF Inv, AtCursor, Same
<1>9. Episode'
  BY <1>2 DEF Inv, Episode, turn
<1>10. Earned'
  <2>1. Covers(d', updates, 0, Calling')
    <3>1. off # <<>> => \E i \in DOMAIN off : ~off[i].swept
      BY <1>3, <1>4, <1>7, Members DEF Same
    <3> QED
      BY <1>5, <3>1 DEF Covers, Idle
  <2>2. IsRegistered(current)' <=> IsRegistered(current)
    BY <1>2, <1>4, <1>5 DEF IsRegistered, Same, turn
  <2>3. pc = "receive" /\ ~IsRegistered(current) =>
          \A i \in DOMAIN off : ~off[i].inRound
    BY <1>4 DEF Inv, Earned, Same
  <2> QED
    BY <1>2, <1>5, <2>1, <2>2, <2>3 DEF Earned, turn
<1>11. quiet' \in 0..StallAfter /\ reports' \in 0..2
  BY <1>2, StallAssumption
<1>12. pc # "idle" => d'.stopped \/ d'.clients # <<>>
  BY <1>5, <1>7 DEF Inv, Locals
<1> QED
  BY <1>2, <1>6, <1>8, <1>9, <1>10, <1>11, <1>12, OperatedInv

-----------------------------------------------------------------------------
(***************************************************************************)
(* The steps of a turn preserve the invariant.                             *)
(***************************************************************************)

\* The results that a turn may leave.
LEMMA Results ==
    /\ \A n \in {"none", "sleep", "again", "closed", "error"} :
          Returns(n) \in Result /\ ~Returns(n).fatal /\ Returns(n).state = n
    /\ \A f \in BOOLEAN, c \in {"none", "work", "deadline"} :
          [state |-> "stalled", fatal |-> f, cause |-> c] \in Result
BY DEF Result, Returns

\* The invariant at the end of a turn.
LEMMA EndedInv ==
    ASSUME Inv, TurnOver, Listing(d'), result' \in Result,
           backlog' = backlog, closed' = closed, foreign' = foreign, owner' = owner,
           expired' \subseteq expired, quiet' \in 0..StallAfter, reports' \in 0..2,
           ~Terminal' => AtCursor(d'), Episode',
           ~d'.stopped /\ ~Terminal' => Covers(d', 0, quiet', 0)
    PROVE  Inv'
<1>1. TypeOK' /\ Locals'
  BY BudgetAssumption DEF Inv, TypeOK, Locals, Listing, TurnOver
<1>2. Rotation' /\ NextIsDue'
  BY DEF Rotation, NextIsDue, InOrder, TurnOver
<1>3. Earned'
  BY DEF Earned, Calling, TurnOver
<1> QED
  BY <1>1, <1>2, <1>3 DEF Inv, TurnOver

LEMMA TickClosedInv ==
    ASSUME Inv, TickClosed
    PROVE  Inv'
<1>1. Listing(d') /\ d'.stopped /\ d'.clients = <<>>
  BY StoppedListing DEF TickClosed, Inv, TypeOK
<1>2. Episode'
  BY <1>1 DEF TickClosed, TurnOver, Inv, Episode, history
<1>3. result' \in Result
  BY Results DEF TickClosed
<1> QED
  BY <1>1, <1>2, <1>3, EndedInv DEF TickClosed, Inv, TypeOK, AtCursor, world, history

LEMMA TickRaisesInv ==
    ASSUME Inv, TickRaises
    PROVE  Inv'
<1>1. Episode'
  BY DEF TickRaises, TurnOver, Inv, Episode, history
<1>2. result' \in Result /\ Terminal' /\ Listing(d')
  BY Results DEF TickRaises, Terminal, Inv
<1> QED
  BY <1>1, <1>2, EndedInv DEF TickRaises, Inv, TypeOK, world, history

\* The snapshot goes round the list once, from where it starts.
LEMMA Snapshot ==
    ASSUME NEW list \in Seq(Entry), NEW start \in 1..Len(list),
           \A i \in DOMAIN list : list[i].serial = i,
           NEW q, q = SubSeq(list, start, Len(list)) \o SubSeq(list, 1, start - 1)
    PROVE  /\ q \in Seq(Entry) /\ Len(q) = Len(list) /\ q[1].serial = start
           /\ \A i \in DOMAIN q :
                 q[i].serial = IF i <= Len(list) - start + 1
                               THEN start + i - 1 ELSE i - (Len(list) - start + 1)
<1>1. /\ Len(list) \in Nat /\ DOMAIN list = 1..Len(list)
      /\ \A i \in 1..Len(list) : list[i] \in Entry
  BY Members
<1>2. PICK a : a = SubSeq(list, start, Len(list))
  OBVIOUS
<1>3. PICK b : b = SubSeq(list, 1, start - 1)
  OBVIOUS
<1>4. PICK n : n = Len(list) - start + 1
  OBVIOUS
<1>5. n \in Nat /\ n >= 1 /\ n <= Len(list)
  BY <1>1, <1>4
<1>6. /\ a \in Seq(Entry) /\ Len(a) = n
      /\ \A i \in 1..n : a[i] = list[start + i - 1]
  BY <1>1, <1>2, <1>4, SubSeqProperties
<1>7. /\ b \in Seq(Entry) /\ Len(b) = start - 1
      /\ \A i \in 1..(start - 1) : b[i] = list[i]
  BY <1>1, <1>3, SubSeqProperties
<1>8. /\ q \in Seq(Entry) /\ Len(q) = Len(list)
      /\ \A i \in 1..Len(list) : q[i] = IF i <= n THEN a[i] ELSE b[i - n]
  <2>1. q = a \o b
    BY <1>2, <1>3
  <2>2. Len(a) = n /\ n + Len(b) = Len(list)
    BY <1>1, <1>4, <1>6, <1>7
  <2>3. /\ q \in Seq(Entry) /\ Len(q) = Len(a) + Len(b)
        /\ \A i \in 1..(Len(a) + Len(b)) : q[i] = IF i <= Len(a) THEN a[i] ELSE b[i - Len(a)]
    <3>1. a \in Seq(Entry) /\ b \in Seq(Entry)
      BY <1>6, <1>7
    <3>2. /\ a \o b \in Seq(Entry) /\ Len(a \o b) = Len(a) + Len(b)
          /\ \A i \in 1..(Len(a) + Len(b)) :
                (a \o b)[i] = IF i <= Len(a) THEN a[i] ELSE b[i - Len(a)]
      BY <3>1, ConcatProperties
    <3> QED
      BY <2>1, <3>2
  <2> QED
    BY <2>2, <2>3
<1>9. ASSUME NEW i \in 1..Len(list)
      PROVE  q[i].serial = IF i <= n THEN start + i - 1 ELSE i - n
  <2>1. CASE i <= n
    <3>1. start + i - 1 \in 1..Len(list) /\ i \in 1..n
      BY <1>1, <1>4, <2>1
    <3> QED
      <4>1. q[i] = a[i] /\ a[i] = list[start + i - 1]
        BY <1>6, <1>8, <2>1, <3>1
      <4>2. list[start + i - 1].serial = start + i - 1
        BY <1>1, <3>1
      <4> QED
        BY <2>1, <4>1, <4>2
  <2>2. CASE ~(i <= n)
    <3>1. PICK k : k = i - n
      OBVIOUS
    <3>2. k \in 1..(start - 1) /\ k \in 1..Len(list)
      BY <1>1, <1>4, <1>5, <2>2, <3>1
    <3> QED
      <4>1. q[i] = b[k] /\ b[k] = list[k]
        BY <1>7, <1>8, <2>2, <3>1, <3>2
      <4>2. list[k].serial = k
        BY <1>1, <3>2
      <4> QED
        BY <2>2, <3>1, <4>1, <4>2
  <2> QED
    BY <2>1, <2>2
<1>10. DOMAIN q = 1..Len(list)
  BY <1>8, Members
<1>11. q[1].serial = start
  BY <1>1, <1>4, <1>5, <1>9
<1> QED
  BY <1>4, <1>8, <1>9, <1>10, <1>11

LEMMA TickInv ==
    ASSUME Inv, Tick
    PROVE  Inv'
<1>1. /\ pc = "idle" /\ ~Terminal /\ ~d.stopped /\ d.clients # <<>>
      /\ Listing(d) /\ AtCursor(d) /\ Covers(d, 0, quiet, 0) /\ reports \in 0..2
      /\ quiet \in 0..StallAfter
  BY DEF Tick, MayTick, Inv, Earned, Locals, Calling, TypeOK
<1>2. PICK x : x = Renumbered(d)
  OBVIOUS
<1>3. /\ Listing(x) /\ x.clients # <<>> /\ Len(x.clients) = Len(d.clients)
      /\ \A i \in DOMAIN d.clients :
            /\ x.clients[i].serial = i
            /\ x.clients[i].inRound = d.clients[i].inRound
            /\ x.clients[i].swept = d.clients[i].swept
      /\ x.due \in DOMAIN d.clients /\ d.clients[x.due].serial = d.due
      /\ x.roundCalls = d.roundCalls /\ x.roundProgress = d.roundProgress
      /\ x.cursor = d.cursor /\ x.stopped = d.stopped
      /\ x.idle = d.idle /\ x.stallReported = d.stallReported
  BY <1>1, <1>2, RenumberedListing
<1>4. /\ x.clients \in Seq(Entry) /\ d.clients \in Seq(Entry)
      /\ DOMAIN d.clients = 1..Len(d.clients) /\ DOMAIN x.clients = DOMAIN d.clients
      /\ Len(d.clients) \in Nat
  BY <1>1, <1>3, Members DEF Listing, Driver
<1>5. PICK start : start = IF d.cursor > Len(d.clients) THEN 1 ELSE d.cursor
  OBVIOUS
<1>6. start \in 1..Len(d.clients) /\ start = d.cursor /\ x.due = start
  <2>1. start = d.cursor /\ start \in 1..Len(d.clients) /\ d.clients[start].serial = d.due
    BY <1>1, <1>4, <1>5 DEF AtCursor, Listing
  <2>2. \A i, j \in DOMAIN d.clients : d.clients[i].serial = d.clients[j].serial => i = j
    <3>1. \A i \in DOMAIN d.clients : d.clients[i].serial \in 1..MaxSerial
      BY <1>4, Members, EntryFields
    <3>2. \A i, j \in DOMAIN d.clients : i < j => d.clients[i].serial < d.clients[j].serial
      BY <1>1 DEF Listing
    <3>3. ASSUME NEW i \in DOMAIN d.clients, NEW j \in DOMAIN d.clients,
                 d.clients[i].serial = d.clients[j].serial
          PROVE  i = j
      <4>1. i \in Nat /\ j \in Nat /\ d.clients[i].serial \in Nat /\ d.clients[j].serial \in Nat
        BY <1>4, <3>1, BoundAssumption
      <4>2. ~(i < j) /\ ~(j < i)
        BY <3>2, <3>3, <4>1
      <4> QED
        BY <4>1, <4>2
    <3> QED
      BY <3>3
  <2> QED
    BY <1>3, <1>4, <2>1, <2>2
<1>7. /\ d' = [x EXCEPT !.cursor = start]
      /\ queue' = SubSeq(x.clients, start, Len(x.clients)) \o SubSeq(x.clients, 1, start - 1)
      /\ pc' = "select" /\ current' = <<>> /\ call' = 0 /\ calls' = 0 /\ updates' = 0
      /\ result' = Returns("none")
      /\ UNCHANGED <<world, history>>
  BY <1>2, <1>5 DEF Tick
<1>8. d' = x
  BY <1>3, <1>6, <1>7 DEF Listing, Driver
<1>9. /\ queue' \in Seq(Entry) /\ Len(queue') = Len(x.clients) /\ queue'[1].serial = start
      /\ \A i \in DOMAIN queue' :
            queue'[i].serial = IF i <= Len(x.clients) - start + 1
                               THEN start + i - 1 ELSE i - (Len(x.clients) - start + 1)
  <2>1. start \in 1..Len(x.clients) /\ \A i \in DOMAIN x.clients : x.clients[i].serial = i
    BY <1>3, <1>4, <1>6
  <2> QED
    <3>1. PICK list : list = x.clients
      OBVIOUS
    <3>2. PICK q : q = SubSeq(list, start, Len(list)) \o SubSeq(list, 1, start - 1)
      OBVIOUS
    <3>3. queue' = q
      BY <1>7, <3>1, <3>2
    <3>4. /\ list \in Seq(Entry) /\ start \in 1..Len(list)
          /\ \A i \in DOMAIN list : list[i].serial = i
      BY <1>4, <2>1, <3>1
    <3>5. /\ q \in Seq(Entry) /\ Len(q) = Len(list) /\ q[1].serial = start
          /\ \A i \in DOMAIN q :
                q[i].serial = IF i <= Len(list) - start + 1
                              THEN start + i - 1 ELSE i - (Len(list) - start + 1)
      BY <3>2, <3>4, Snapshot
    <3> QED
      BY <3>1, <3>3, <3>5
<1>10. DOMAIN queue' = 1..Len(x.clients)
  BY <1>9, Members
<1>11. Rotation'
  <2>1. PICK m : m = Len(x.clients)
    OBVIOUS
  <2>2. PICK q : q = queue'
    OBVIOUS
  <2>3. m \in Nat /\ start \in 1..m /\ DOMAIN q = 1..m
    BY <1>3, <1>4, <1>6, <1>10, <2>1, <2>2
  <2>4. \A i \in 1..m : q[i].serial = IF i <= m - start + 1
                                      THEN start + i - 1 ELSE i - (m - start + 1)
    BY <1>9, <1>10, <2>1, <2>2
  <2>5. \A i, j, k \in 1..m : i < j /\ j < k =>
          Cyclic(q[i].serial, q[j].serial, q[k].serial)
    BY <2>3, <2>4 DEF Cyclic
  <2> QED
    BY <1>7, <2>2, <2>3, <2>5 DEF Rotation
<1>12. NextIsDue'
  <2>1. \A i, j \in DOMAIN queue' : i < j => queue'[j].serial # start
    BY <1>3, <1>4, <1>6, <1>9, <1>10
  <2> QED
    BY <1>6, <1>7, <1>8, <2>1 DEF NextIsDue, InOrder
<1>13. TypeOK' /\ Locals'
  <2>1. result' \in Result
    BY <1>7, Results
  <2>2. 0 \in 0..Slice /\ 0 \in 0..Budget
    BY BudgetAssumption
  <2>3. Listing(d')
    BY <1>3, <1>8
  <2> QED
    <3>1. TypeOK'
      BY <1>7, <1>9, <2>1, <2>2, <2>3 DEF Inv, TypeOK, Listing, world, history
    <3>2. Locals'
      BY <1>3, <1>7, <1>8 DEF Locals
    <3> QED
      BY <3>1, <3>2
<1>14. Episode'
  BY <1>3, <1>7, <1>8 DEF Inv, Episode, history
<1>15. Earned'
  <2>1. Covers(x, 0, quiet, 0)
    <3>1. \A i \in DOMAIN d.clients : d.clients[i].serial # 0
      <4>1. \A i \in DOMAIN d.clients : d.clients[i] \in Entry
        BY <1>4, Members
      <4>2. \A e \in Entry : e.serial \in 1..MaxSerial
        BY EntryFields
      <4> QED
        BY <4>1, <4>2
    <3> QED
      BY <1>1, <1>3, <1>4, <3>1 DEF Covers, Idle
  <2> QED
    BY <1>7, <1>8, <2>1 DEF Earned, Calling, history
<1>16. AtCursor(d')
  BY <1>3, <1>4, <1>6, <1>8 DEF AtCursor
<1> QED
  BY <1>3, <1>8, <1>11, <1>12, <1>13, <1>14, <1>15, <1>16 DEF Inv

LEMMA SelectInv ==
    ASSUME Inv, Select
    PROVE  Inv'
<1>1. /\ pc = "select" /\ UNCHANGED <<d, calls, updates, result, world, history>>
      /\ ~Terminal /\ result = Returns("none")
  BY Results DEF Select, Inv, Locals, Terminal
<1>2. Episode' /\ (Terminal' <=> Terminal)
  BY <1>1 DEF Inv, Episode, Terminal, Select, history
<1>3. Covers(d, updates, quiet, 0) \/ d.stopped
  BY <1>1 DEF Inv, Earned, Calling
<1>4. CASE pc' = "resolve" /\ UNCHANGED <<queue, current, call>>
  <2>1. TypeOK' /\ Locals' /\ Listing(d') /\ AtCursor(d')
    BY <1>1, <1>4 DEF Inv, TypeOK, Locals, Listing, AtCursor, world, history
  <2>2. Rotation' /\ NextIsDue' /\ Earned'
    BY <1>1, <1>3, <1>4 DEF Inv, Rotation, NextIsDue, InOrder, Earned, Calling, history
  <2> QED
    BY <1>2, <2>1, <2>2 DEF Inv
<1>5. CASE queue # <<>> /\ queue' = Tail(queue)
  <2>1. queue \in Seq(Entry) /\ Len(queue) \in Nat \ {0} /\ DOMAIN queue = 1..Len(queue)
        /\ Head(queue) = queue[1]
    BY <1>5, Members, HeadTailProperties DEF Inv, TypeOK
  <2>2. /\ queue' \in Seq(Entry) /\ DOMAIN queue' = 1..(Len(queue) - 1)
        /\ \A i \in DOMAIN queue' : i + 1 \in DOMAIN queue /\ queue'[i] = queue[i + 1]
    <3>1. PICK q : q = Tail(queue)
      OBVIOUS
    <3>2. /\ q \in Seq(Entry) /\ Len(q) = Len(queue) - 1
          /\ \A i \in 1..Len(q) : q[i] = queue[i + 1]
      BY <1>5, <2>1, <3>1, HeadTailProperties
    <3>3. DOMAIN q = 1..Len(q)
      BY <3>2, Members
    <3> QED
      BY <1>5, <2>1, <3>1, <3>2, <3>3
  <2>3. /\ 1 \in DOMAIN queue
        /\ \A i, j \in DOMAIN queue' : i < j => i + 1 < j + 1 /\ 1 < i + 1
    BY <2>1, <2>2
  <2>4. \A i, j, k \in DOMAIN queue' : i < j /\ j < k =>
          Cyclic(queue'[i].serial, queue'[j].serial, queue'[k].serial)
    BY <1>1, <2>2, <2>3 DEF Inv, Rotation
  <2>5. \A i, j \in DOMAIN queue' : i < j =>
          Cyclic(queue[1].serial, queue'[i].serial, queue'[j].serial)
    BY <1>1, <2>2, <2>3 DEF Inv, Rotation
  <2>6. CASE /\ IsRegistered(Head(queue))
             /\ pc' = "call" /\ current' = Head(queue) /\ call' = 0
    <3>1. current' \in Entry /\ current' = queue[1]
      BY <2>1, <2>3, <2>6, Members
    <3>2. TypeOK'
      BY <1>1, <2>2, <2>6, <3>1, BudgetAssumption DEF Inv, TypeOK, world, history
    <3>3. Locals' /\ Listing(d')
      BY <1>1, <2>6, <3>1 DEF Inv, Locals
    <3>4. Rotation'
      BY <2>4, <2>5, <2>6, <3>1 DEF Rotation
    <3>5. NextIsDue'
      <4>1. \A j \in DOMAIN queue' : queue'[j].serial # d.due
        <5>1. \A j \in DOMAIN queue' : 1 < j + 1
          BY <2>1, <2>2
        <5> QED
          BY <1>1, <2>1, <2>2, <2>3, <2>6, <5>1 DEF Inv, NextIsDue
      <4> QED
        BY <1>1, <2>6, <4>1 DEF NextIsDue, InOrder
    <3>6. Earned'
      <4>1. Calling' = 0
        BY <2>6 DEF Calling
      <4> QED
        BY <1>1, <1>2, <1>3, <2>6, <4>1 DEF Earned, history
    <3> QED
      BY <1>2, <2>6, <3>2, <3>3, <3>4, <3>5, <3>6 DEF Inv
  <2>7. CASE UNCHANGED <<pc, current, call>>
    <3>1. TypeOK' /\ Locals' /\ Listing(d') /\ AtCursor(d')
      BY <1>1, <2>2, <2>7 DEF Inv, TypeOK, Locals, Listing, AtCursor, world, history
    <3>2. Rotation'
      BY <1>1, <2>4, <2>7 DEF Rotation
    <3>3. NextIsDue'
      <4>1. \A i, j \in DOMAIN queue' : i < j /\ queue'[j].serial = d.due =>
              ~IsRegistered(queue'[i])
        BY <1>1, <2>2, <2>3 DEF Inv, NextIsDue
      <4> QED
        BY <1>1, <2>7, <4>1 DEF NextIsDue, InOrder, IsRegistered
    <3>4. Earned'
      BY <1>1, <1>3, <2>7 DEF Earned, Calling, Terminal, history
    <3> QED
      BY <1>2, <3>1, <3>2, <3>3, <3>4 DEF Inv
  <2> QED
    BY <1>4, <1>5, <2>6, <2>7 DEF Select
<1> QED
  BY <1>4, <1>5 DEF Select

LEMMA CallInv ==
    ASSUME Inv, Call
    PROVE  Inv'
<1>1. /\ pc = "call" /\ current \in Entry
      /\ UNCHANGED <<queue, current, call, calls, updates, result, world, history>>
      /\ Listing(d) /\ d \in Driver /\ d.clients \in Seq(Entry) /\ result = Returns("none")
      /\ ~Terminal /\ (d.stopped \/ Covers(d, updates, quiet, 0))
      /\ (d.stopped \/ d.clients # <<>>)
  BY Results DEF Call, Inv, Locals, Listing, Driver, Earned, Calling, Terminal
<1>2. CASE pc' # "receive"
  <2>1. d' = d /\ pc' \in {"next", "resolve"} /\ (pc' = "resolve" => d.stopped)
    BY <1>2 DEF Call
  <2>2. TypeOK' /\ Locals' /\ Rotation' /\ Episode'
    BY <1>1, <2>1 DEF Inv, TypeOK, Locals, Rotation, Episode, world, history
  <2>3. NextIsDue' /\ Earned'
    BY <1>1, <2>1 DEF NextIsDue, InOrder, Earned, Calling, Terminal, history
  <2> QED
    BY <1>1, <2>1, <2>2, <2>3 DEF Inv, AtCursor
<1>3. CASE pc' = "receive"
  <2>1. /\ call < Slice /\ calls < Budget /\ ~d.stopped /\ IsRegistered(current)
        /\ d' = [d EXCEPT !.clients = Map(@, LAMBDA e :
                    IF e.serial = current.serial THEN [e EXCEPT !.inRound = TRUE] ELSE e)]
    <3>1. call \in Int /\ calls \in Int /\ Slice \in Int /\ Budget \in Int
      BY BudgetAssumption DEF Inv, TypeOK
    <3> QED
      BY <1>3, <3>1 DEF Call
  <2>2. PICK list : list = [i \in DOMAIN d.clients |->
                              IF d.clients[i].serial = current.serial
                              THEN [d.clients[i] EXCEPT !.inRound = TRUE] ELSE d.clients[i]]
    OBVIOUS
  <2>3. ASSUME NEW i \in DOMAIN d.clients
        PROVE  /\ list[i] \in Entry
               /\ list[i].client = d.clients[i].client /\ list[i].serial = d.clients[i].serial
               /\ list[i].swept = d.clients[i].swept
               /\ list[i].inRound =>
                     d.clients[i].inRound \/ d.clients[i].serial = current.serial
    <3>1. PICK e \in Entry : e = d.clients[i]
      BY <1>1, Members
    <3>2. list[i] = IF e.serial = current.serial THEN [e EXCEPT !.inRound = TRUE] ELSE e
      BY <2>2, <3>1
    <3>3. CASE e.serial = current.serial
      <4>1. PICK f : f = [e EXCEPT !.inRound = TRUE]
        OBVIOUS
      <4>2. /\ f \in Entry /\ f.client = e.client /\ f.serial = e.serial
            /\ f.swept = e.swept
        BY <4>1, EntryFields
      <4> QED
        BY <3>1, <3>2, <3>3, <4>1, <4>2
    <3>4. CASE e.serial # current.serial
      BY <3>1, <3>2, <3>4
    <3> QED
      BY <3>3, <3>4
  <2>4. list \in Seq(Entry) /\ Same(d.clients, list)
    BY <1>1, <2>2, <2>3, Recorded
  <2>5. /\ d' \in Driver /\ d'.clients = list /\ d'.stopped = d.stopped
        /\ d'.cursor = d.cursor /\ d'.due = d.due /\ d'.nextSerial = d.nextSerial
        /\ d'.idle = d.idle /\ d'.roundCalls = d.roundCalls
        /\ d'.roundProgress = d.roundProgress /\ d'.stallReported = d.stallReported
    <3>1. d' = [d EXCEPT !.clients = list]
      BY <2>1, <2>2 DEF Map
    <3> QED
      BY <1>1, <2>4, <3>1 DEF Driver
  <2>6. Listing(d') /\ list # <<>>
    <3>1. d.clients # <<>>
      BY <1>1, <2>1
    <3> QED
      BY <1>1, <2>4, <2>5, <3>1, Relisted, Members DEF Same
  <2>7. TypeOK' /\ Locals'
    BY <1>1, <1>3, <2>1, <2>5, <2>6 DEF Inv, TypeOK, Locals, Listing, world, history
  <2>8. Rotation' /\ NextIsDue' /\ Episode'
    BY <1>1, <1>3, <2>5 DEF Inv, Rotation, NextIsDue, InOrder, Episode, history
  <2>9. Earned'
    <3>1. Calling' = current.serial
      BY <1>1, <1>3 DEF Calling
    <3>2. \A i \in DOMAIN d.clients : d.clients[i].serial # 0
      <4>1. \A i \in DOMAIN d.clients : d.clients[i] \in Entry
        BY <1>1, Members
      <4>2. \A e \in Entry : e.serial \in 1..MaxSerial
        BY EntryFields
      <4> QED
        BY <4>1, <4>2
    <3>3. Covers(d', updates, quiet, current.serial)
      <4>1. \A i \in DOMAIN list : list[i].inRound =>
              d.clients[i].inRound \/ list[i].serial = current.serial
        BY <2>3, <2>4 DEF Same
      <4>2. \A i \in DOMAIN list : list[i].swept = d.clients[i].swept
        BY <2>3, <2>4 DEF Same
      <4>3. Covers(d, updates, quiet, 0)
        BY <1>1, <2>1
      <4>4. DOMAIN list = DOMAIN d.clients /\ d.clients # <<>>
        BY <1>1, <2>1, <2>4 DEF Same
      <4> QED
        BY <2>5, <3>2, <4>1, <4>2, <4>3, <4>4 DEF Covers, Idle
    <3>4. IsRegistered(current)'
      BY <1>1, <2>1, <2>4, <2>5 DEF IsRegistered, Same
    <3> QED
      BY <1>1, <1>3, <3>1, <3>3, <3>4 DEF Earned, history
  <2> QED
    BY <1>3, <2>6, <2>7, <2>8, <2>9 DEF Inv
<1> QED
  BY <1>2, <1>3

\* What holds while a client is being called, and of the driver once the call
\* is recorded.
LEMMA Recording ==
    ASSUME Inv, pc = "receive"
    PROVE  LET y == WithCall(d)
           IN  /\ Listing(y) /\ y.roundProgress = d.roundProgress
               /\ y.stopped = d.stopped /\ y.stallReported = d.stallReported
               /\ y.clients # <<>> <=> d.clients # <<>>
               /\ \A c : (\E i \in DOMAIN d.clients : d.clients[i].client = c)
                            => \E i \in DOMAIN y.clients : y.clients[i].client = c
               /\ ~d.stopped /\ SweepEnds => Covers(y, updates, Capped(quiet), 0)
               /\ ~d.stopped /\ ~SweepEnds => Covers(y, updates, quiet, 0)
               /\ ~d.stopped /\ ~IsRegistered(current) => Covers(y, updates, quiet, 0)
<1>1. PICK y : y = WithCall(d)
  OBVIOUS
<1>2. PICK ends : ends <=> SweepEnds
  OBVIOUS
<1>3. /\ Listing(y) /\ Same(d.clients, y.clients)
      /\ \A i \in DOMAIN d.clients : y.clients[i].inRound = d.clients[i].inRound
      /\ ends => \A i \in DOMAIN d.clients : ~y.clients[i].swept
      /\ ~ends => \A i \in DOMAIN d.clients :
            y.clients[i].swept
              = (d.clients[i].swept \/ d.clients[i].serial = current.serial)
      /\ y.roundProgress = d.roundProgress /\ y.stopped = d.stopped
      /\ y.idle = d.idle /\ y.stallReported = d.stallReported
  <2>1. Listing(d)
    BY DEF Inv
  <2> QED
    BY <1>1, <1>2, <2>1, CalledListing DEF SweepEnds
<1>4. y.clients \in Seq(Entry) /\ d.clients \in Seq(Entry)
  BY <1>3 DEF Listing, Driver, Inv
<1>5. /\ y.clients # <<>> <=> d.clients # <<>>
      /\ y.clients # <<>> => 1 \in DOMAIN d.clients
      /\ DOMAIN y.clients = DOMAIN d.clients
  BY <1>3, <1>4, Members DEF Same
<1>6. y.clients # <<>> => \E i \in DOMAIN y.clients : ~y.clients[i].swept
  <2>1. CASE ends
    BY <1>3, <1>5, <2>1
  <2>2. CASE ~ends
    BY <1>2, <1>3, <1>5, <2>2 DEF SweepEnds
  <2> QED
    BY <2>1, <2>2
<1>7. ~d.stopped => Covers(d, updates, quiet, current.serial)
  BY Results DEF Inv, Earned, Locals, Terminal, Calling
<1>8. quiet \in 0..StallAfter /\ StallAfter \in Nat /\ d.idle \in 0..StallAfter
      /\ Idle(d, updates) \in Nat
  BY StallAssumption DEF Inv, TypeOK, Driver, Idle
<1>9. Idle(y, updates) = Idle(d, updates)
  BY <1>3 DEF Idle
<1>10. ~d.stopped /\ ends => Covers(y, updates, Capped(quiet), 0)
  <2> SUFFICES ASSUME ~d.stopped, ends
               PROVE  Covers(y, updates, Capped(quiet), 0)
    OBVIOUS
  <2>1. Idle(d, updates) <= quiet
    BY <1>7 DEF Covers
  <2>2. /\ Idle(d, updates) <= Capped(quiet)
        /\ Idle(d, updates) < Capped(quiet) \/ Capped(quiet) = StallAfter
    BY <1>8, <2>1 DEF Capped
  <2> QED
    BY <1>6, <1>9, <2>2 DEF Covers
<1>11. ~d.stopped /\ ~ends => Covers(y, updates, quiet, 0)
  <2> SUFFICES ASSUME ~d.stopped, ~ends
               PROVE  Covers(y, updates, quiet, 0)
    OBVIOUS
  <2>1. Covers(d, updates, quiet, current.serial)
    BY <1>7
  <2>2. \A i \in DOMAIN d.clients :
          d.clients[i].swept \/ d.clients[i].serial = current.serial => y.clients[i].swept
    BY <1>3
  <2> QED
    BY <1>3, <1>5, <1>6, <1>9, <2>1, <2>2 DEF Covers
<1>12. ~d.stopped /\ ~IsRegistered(current) => Covers(y, updates, quiet, 0)
  <2> SUFFICES ASSUME ~d.stopped, ~IsRegistered(current)
               PROVE  Covers(y, updates, quiet, 0)
    OBVIOUS
  <2>1. Covers(d, updates, quiet, current.serial)
    BY <1>7
  <2>2. \A i \in DOMAIN d.clients : ~d.clients[i].inRound
    BY DEF Inv, Earned
  <2> QED
    BY <1>3, <1>5, <1>6, <1>9, <2>1, <2>2 DEF Covers
<1>13. \A c : (\E i \in DOMAIN d.clients : d.clients[i].client = c)
                 => \E i \in DOMAIN y.clients : y.clients[i].client = c
  BY <1>3, <1>5 DEF Same
<1> QED
  BY <1>1, <1>2, <1>3, <1>5, <1>10, <1>11, <1>12, <1>13

\* The invariant after a call of receive(0) that does not end the turn.
LEMMA ReceivedInv ==
    ASSUME Inv, Called, Counted, pc' \in {"next", "deliver", "resolve"},
           Listing(d'), d'.stopped \/ d'.clients # <<>>,
           backlog' \in [Clients -> 0..MaxBacklog],
           updates' \in 0..(calls + 1), pc' = "deliver" => updates' > 0,
           pc' = "resolve" => d'.stopped,
           quiet' \in 0..StallAfter, reports' \in 0..2, Episode',
           ~d'.stopped => Covers(d', updates', quiet', 0)
    PROVE  Inv'
<1>1. /\ pc = "receive" /\ current \in Entry /\ call < Slice /\ calls < Budget
      /\ UNCHANGED <<queue, current, result, closed, foreign, owner>>
      /\ call' = call + 1 /\ calls' = calls + 1 /\ expired' = expired \ {current.client}
      /\ result = Returns("none")
  BY DEF Called, Counted, Inv, Locals
<1>2. TypeOK'
  <2>1. call + 1 \in 0..Slice /\ calls + 1 \in 0..Budget /\ call + 1 > 0
    BY <1>1, BudgetAssumption DEF Inv, TypeOK
  <2> QED
    BY <1>1, <2>1 DEF Inv, TypeOK, Listing
<1>3. Locals'
  <2>1. call' > 0
    BY <1>1, BudgetAssumption DEF Inv, TypeOK
  <2> QED
    BY <1>1, <2>1 DEF Locals
<1>4. Rotation' /\ NextIsDue'
  BY <1>1 DEF Inv, Rotation, NextIsDue, InOrder
<1>5. Earned'
  BY DEF Earned, Calling
<1> QED
  BY <1>2, <1>3, <1>4, <1>5 DEF Inv, AtCursor

\* An update is taken from the backlog of the client that is called.
LEMMA Taken ==
    ASSUME Inv, pc = "receive", backlog[current.client] > 0,
           backlog' = [backlog EXCEPT ![current.client] = @ - 1]
    PROVE  backlog' \in [Clients -> 0..MaxBacklog]
<1>1. PICK c : c = current.client
  OBVIOUS
<1>2. c \in Clients
  BY <1>1 DEF Inv, Locals, Entry
<1>3. PICK n \in 0..MaxBacklog : n = backlog[c]
  BY <1>2 DEF Inv, TypeOK
<1>4. n - 1 \in 0..MaxBacklog
  BY <1>1, <1>3, BoundAssumption
<1>5. backlog' = [backlog EXCEPT ![c] = n - 1] /\ backlog \in [Clients -> 0..MaxBacklog]
  BY <1>1, <1>3 DEF Inv, TypeOK
<1> QED
  BY <1>2, <1>4, <1>5

\* A client taken out after its call leaves what the sweeps cover.
LEMMA RemovedCovers ==
    ASSUME NEW y, Listing(y), NEW c, \E i \in DOMAIN y.clients : y.clients[i].client = c,
           NEW u, NEW n
    PROVE  LET z == Removed(y, c)
           IN  /\ Listing(z) /\ (z.stopped \/ z.clients # <<>>)
               /\ ~z.stopped => ~y.stopped /\ z.stallReported = y.stallReported
               /\ ~z.stopped /\ Covers(y, u, n, 0) => Covers(z, u, n, 0)
<1>1. PICK z : z = Removed(y, c)
  OBVIOUS
<1>2. /\ Listing(z)
      /\ \A i \in DOMAIN z.clients : ~z.clients[i].inRound
      /\ ~z.roundCalls
      /\ z.stopped \/ z.clients # <<>>
      /\ ~z.stopped => z.idle = y.idle /\ z.stallReported = y.stallReported
  BY <1>1, RemovedListing
<1>3. ~z.stopped /\ Covers(y, u, n, 0) => Covers(z, u, n, 0)
  BY <1>2, NewRoundCovers
<1>4. ~y.stopped
  BY DEF Listing
<1> QED
  BY <1>1, <1>2, <1>3, <1>4

LEMMA ReceiveNilInv ==
    ASSUME Inv, ReceiveNil
    PROVE  Inv'
<1>1. /\ pc = "receive" /\ Called /\ Counted /\ pc' = "next" /\ UNCHANGED <<updates, backlog, reports>>
      /\ quiet' = IF SweepEnds THEN Capped(quiet) ELSE quiet
  BY DEF ReceiveNil, Called
<1>2. PICK y : y = WithCall(d)
  OBVIOUS
<1>3. /\ Listing(y) /\ y.stopped = d.stopped /\ y.stallReported = d.stallReported
      /\ (y.clients # <<>> <=> d.clients # <<>>)
      /\ \A c : (\E i \in DOMAIN d.clients : d.clients[i].client = c)
                   => \E i \in DOMAIN y.clients : y.clients[i].client = c
      /\ ~d.stopped => Covers(y, updates, quiet', 0)
  BY <1>1, <1>2, Recording
<1>4. /\ Listing(d') /\ (d'.stopped \/ d'.clients # <<>>)
      /\ ~d'.stopped => ~d.stopped /\ d'.stallReported = d.stallReported
      /\ ~d'.stopped => Covers(d', updates, quiet', 0)
  <2>1. CASE current.client \in closed /\ Registered(current.client)
    <3>1. d' = Removed(y, current.client)
      BY <1>2, <2>1 DEF ReceiveNil
    <3>2. \E i \in DOMAIN y.clients : y.clients[i].client = current.client
      BY <1>3, <2>1 DEF Registered
    <3> QED
      BY <1>3, <3>1, <3>2, RemovedCovers
  <2>2. CASE ~(current.client \in closed /\ Registered(current.client))
    <3>1. d' = y
      BY <1>2, <2>2 DEF ReceiveNil
    <3> QED
      BY <1>1, <1>3, <3>1 DEF Inv, Locals
  <2> QED
    BY <2>1, <2>2
<1>5. quiet' \in 0..StallAfter /\ reports' \in 0..2 /\ updates' \in 0..(calls + 1)
      /\ backlog' \in [Clients -> 0..MaxBacklog]
  <2>1. Capped(quiet) \in 0..StallAfter
    BY StallAssumption DEF Inv, TypeOK, Capped
  <2>2. updates \in 0..(calls + 1)
    BY BudgetAssumption DEF Inv, TypeOK
  <2> QED
    BY <1>1, <2>1, <2>2 DEF Inv, TypeOK
<1>6. Episode'
  BY <1>1, <1>4 DEF Inv, Episode
<1> QED
  BY <1>1, <1>4, <1>5, <1>6, ReceivedInv

LEMMA ReceiveRaisesInv ==
    ASSUME Inv, ReceiveRaises
    PROVE  Inv'
<1>1. PICK y : y = WithCall(d)
  OBVIOUS
<1>2. /\ Listing(y) /\ y.stopped = d.stopped /\ y.stallReported = d.stallReported
      /\ pc = "receive"
  BY <1>1, Recording DEF ReceiveRaises, Called
<1>3. /\ Listing(d') /\ d'.stopped = d.stopped
      /\ d'.stallReported <=> (d.stallReported /\ updates = 0)
  <2>1. d' = [y EXCEPT !.stallReported = @ /\ updates = 0]
    BY <1>1 DEF ReceiveRaises
  <2>2. y \in Driver
    BY <1>2 DEF Listing
  <2>3. PICK b \in BOOLEAN : b = (y.stallReported /\ updates = 0)
    OBVIOUS
  <2>4. d' = [y EXCEPT !.stallReported = b]
    BY <2>1, <2>3
  <2>5. /\ d' \in Driver /\ d'.stallReported = b /\ d'.clients = y.clients
        /\ d'.cursor = y.cursor /\ d'.stopped = y.stopped /\ d'.due = y.due
        /\ d'.nextSerial = y.nextSerial
    BY <2>2, <2>4 DEF Driver
  <2> QED
    <3>1. Listing(d')
      BY <1>2, <2>5 DEF Listing
    <3>2. d'.stopped = d.stopped
      BY <1>2, <2>5
    <3>3. d'.stallReported <=> (d.stallReported /\ updates = 0)
      BY <1>2, <2>3, <2>5
    <3> QED
      BY <3>1, <3>2, <3>3
<1>4. Episode'
  <2>1. updates > 0 \/ updates = 0
    BY BudgetAssumption DEF Inv, TypeOK
  <2> QED
    BY <1>3, <2>1 DEF ReceiveRaises, TurnOver, Inv, Episode, history
<1>5. result' \in Result /\ Terminal'
  BY Results DEF ReceiveRaises, Terminal
<1> QED
  BY <1>3, <1>4, <1>5, EndedInv DEF ReceiveRaises, Called, Inv, TypeOK, history

LEMMA ReceiveStaleInv ==
    ASSUME Inv, ReceiveStale
    PROVE  Inv'
<1>1. /\ pc = "receive" /\ Called /\ Counted /\ UNCHANGED <<updates, history>>
      /\ pc' = IF d.stopped THEN "resolve" ELSE "next"
      /\ backlog[current.client] > 0
      /\ backlog' = [backlog EXCEPT ![current.client] = @ - 1]
  BY DEF ReceiveStale, Called
<1>2. PICK y : y = WithCall(d)
  OBVIOUS
<1>3. /\ Listing(y) /\ y.stopped = d.stopped /\ y.stallReported = d.stallReported
      /\ (y.clients # <<>> <=> d.clients # <<>>)
      /\ \A c : (\E i \in DOMAIN d.clients : d.clients[i].client = c)
                   => \E i \in DOMAIN y.clients : y.clients[i].client = c
      /\ ~d.stopped /\ ~SweepEnds => Covers(y, updates, quiet, 0)
      /\ ~d.stopped /\ ~IsRegistered(current) => Covers(y, updates, quiet, 0)
      /\ ~d.stopped /\ SweepEnds => Covers(y, updates, Capped(quiet), 0)
  BY <1>1, <1>2, Recording
<1>4. /\ Listing(d') /\ (d'.stopped \/ d'.clients # <<>>)
      /\ ~d'.stopped => ~d.stopped /\ d'.stallReported = d.stallReported
      /\ ~d'.stopped => Covers(d', updates, quiet, 0)
      /\ d.stopped => d'.stopped
  <2>1. CASE ~d.stopped /\ IsRegistered(current)
    <3>1. d' = Removed(y, current.client)
      BY <1>2, <2>1 DEF ReceiveStale
    <3>2. \E i \in DOMAIN y.clients : y.clients[i].client = current.client
      BY <1>3, <2>1 DEF IsRegistered
    <3>3. /\ Listing(d') /\ (d'.stopped \/ d'.clients # <<>>)
          /\ ~d'.stopped => ~y.stopped /\ d'.stallReported = y.stallReported
      BY <1>3, <3>1, <3>2, RemovedCovers
    <3>4. ~d'.stopped => Covers(d', updates, quiet, 0)
      <4>1. /\ \A i \in DOMAIN d'.clients : ~d'.clients[i].inRound
            /\ ~d'.roundCalls
            /\ ~d'.stopped => d'.idle = y.idle
        BY <1>3, <3>1, <3>2, RemovedListing
      <4>2. Covers(d, updates, quiet, current.serial)
        BY <1>1, <2>1, Results DEF Inv, Earned, Locals, Terminal, Calling
      <4>3. y.idle = d.idle
        BY <1>2, CalledListing DEF Inv
      <4> QED
        BY <4>1, <4>2, <4>3 DEF Covers, Idle
    <3> QED
      BY <1>3, <2>1, <3>3, <3>4
  <2>2. CASE d.stopped \/ ~IsRegistered(current)
    <3>1. d' = y
      BY <1>2, <2>2 DEF ReceiveStale
    <3> QED
      BY <1>1, <1>3, <2>2, <3>1 DEF Inv, Locals
  <2> QED
    BY <2>1, <2>2
<1>5. quiet' \in 0..StallAfter /\ reports' \in 0..2 /\ updates' \in 0..(calls + 1)
      /\ backlog' \in [Clients -> 0..MaxBacklog]
  <2>1. updates \in 0..(calls + 1)
    BY BudgetAssumption DEF Inv, TypeOK
  <2>2. backlog' \in [Clients -> 0..MaxBacklog]
    BY <1>1, Taken
  <2> QED
    BY <1>1, <2>1, <2>2 DEF Inv, TypeOK, history
<1>6. Episode'
  BY <1>1, <1>4 DEF Inv, Episode, history
<1> QED
  BY <1>1, <1>4, <1>5, <1>6, ReceivedInv DEF history

LEMMA ReceiveUpdateInv ==
    ASSUME Inv, ReceiveUpdate
    PROVE  Inv'
<1>1. /\ pc = "receive" /\ Called /\ Counted /\ pc' = "deliver" /\ updates' = updates + 1
      /\ quiet' = 0 /\ reports' = 0 /\ ~d.stopped
      /\ backlog[current.client] > 0
      /\ backlog' = [backlog EXCEPT ![current.client] = @ - 1]
  BY DEF ReceiveUpdate, Called
<1>2. PICK y : y = WithCall(d)
  OBVIOUS
<1>3. Listing(y) /\ (y.clients # <<>> <=> d.clients # <<>>) /\ y.stopped = d.stopped
  BY <1>1, <1>2, Recording
<1>4. y \in Driver /\ y.clients \in Seq(Entry)
  BY <1>3 DEF Listing, Driver
<1>5. PICK off : off = Unswept(y.clients)
  OBVIOUS
<1>6. /\ off \in Seq(Entry) /\ Same(y.clients, off)
      /\ \A i \in DOMAIN y.clients : ~off[i].swept
  BY <1>4, <1>5, Forgets
<1>7. /\ d' \in Driver /\ d'.clients = off /\ d'.roundProgress /\ d'.stopped = y.stopped
      /\ d'.cursor = y.cursor /\ d'.nextSerial = y.nextSerial /\ d'.due = y.due
  <2>1. d' = [y EXCEPT !.roundProgress = TRUE, !.clients = off]
    BY <1>2, <1>5 DEF ReceiveUpdate
  <2> QED
    BY <1>4, <1>6, <2>1 DEF Driver
<1>8. Listing(d') /\ d'.clients # <<>> /\ 1 \in DOMAIN d'.clients
  <2>1. d.clients # <<>>
    BY <1>1 DEF Inv, Locals
  <2>2. Listing(d')
    BY <1>3, <1>6, <1>7, Relisted
  <2> QED
    BY <1>3, <1>4, <1>6, <1>7, <2>1, <2>2, Members DEF Same
<1>9. updates' \in 0..(calls + 1) /\ updates' > 0
  BY <1>1, BudgetAssumption DEF Inv, TypeOK
<1>10. Covers(d', updates', quiet', 0)
  BY <1>1, <1>6, <1>7, <1>8, <1>9 DEF Covers, Idle, Same
<1>11. backlog' \in [Clients -> 0..MaxBacklog] /\ quiet' \in 0..StallAfter
  BY <1>1, StallAssumption, Taken
<1>12. Episode'
  BY <1>1 DEF Episode
<1> QED
  BY <1>1, <1>8, <1>9, <1>10, <1>11, <1>12, ReceivedInv

LEMMA DeliveredInv ==
    ASSUME Inv, Delivered
    PROVE  Inv'
<1>1. /\ pc = "deliver" /\ current \in Entry /\ call > 0 /\ updates > 0
      /\ result = Returns("none") /\ Listing(d) /\ (d.stopped \/ d.clients # <<>>)
      /\ UNCHANGED <<queue, current, call, calls, updates, result, world, history>>
      /\ (d.stopped \/ Covers(d, updates, quiet, 0))
  BY Results DEF Delivered, Inv, Locals, Earned, Calling, Terminal
<1>2. /\ pc' \in {"next", "call"} /\ Listing(d') /\ (d'.stopped \/ d'.clients # <<>>)
      /\ ~d'.stopped => ~d.stopped /\ d'.stallReported = d.stallReported
      /\ d'.stopped \/ Covers(d', updates, quiet, 0)
  <2>1. CASE current.client \in closed /\ Registered(current.client)
    <3>1. d' = Removed(d, current.client) /\ pc' = "next"
      BY <2>1 DEF Delivered
    <3> QED
      BY <1>1, <2>1, <3>1, RemovedCovers DEF Registered
  <2>2. CASE ~(current.client \in closed /\ Registered(current.client))
    <3>1. d' = d /\ pc' \in {"next", "call"}
      BY <2>2 DEF Delivered
    <3> QED
      BY <1>1, <3>1
  <2> QED
    BY <2>1, <2>2
<1>3. TypeOK' /\ Locals'
  BY <1>1, <1>2 DEF Inv, TypeOK, Locals, Listing, world, history
<1>4. Rotation' /\ NextIsDue'
  BY <1>1, <1>2 DEF Inv, Rotation, NextIsDue, InOrder
<1>5. Episode' /\ Earned'
  BY <1>1, <1>2 DEF Inv, Episode, Earned, Calling, history
<1> QED
  BY <1>2, <1>3, <1>4, <1>5 DEF Inv

LEMMA DeliveryFailsInv ==
    ASSUME Inv, DeliveryFails
    PROVE  Inv'
<1>1. d' = [d EXCEPT !.stallReported = FALSE] /\ updates > 0 /\ reports = 0
  BY DEF DeliveryFails, Inv, Locals, Episode
<1>2. /\ d' \in Driver /\ d'.clients = d.clients /\ d'.cursor = d.cursor
      /\ d'.stopped = d.stopped /\ d'.due = d.due /\ d'.nextSerial = d.nextSerial
  BY <1>1 DEF Inv, TypeOK, Driver
<1>3. Listing(d')
  BY <1>2 DEF Inv, Listing
<1>4. Episode'
  BY <1>1 DEF DeliveryFails, TurnOver, Episode, history
<1>5. result' \in Result /\ Terminal'
  BY Results DEF DeliveryFails, Terminal
<1> QED
  BY <1>3, <1>4, <1>5, EndedInv DEF DeliveryFails, Inv, TypeOK, world, history

LEMMA NextClientInv ==
    ASSUME Inv, NextClient
    PROVE  Inv'
<1>1. /\ pc = "next" /\ current \in Entry /\ pc' = "select"
      /\ result = Returns("none") /\ Listing(d) /\ (d.stopped \/ d.clients # <<>>)
      /\ UNCHANGED <<queue, current, call, calls, updates, result, world, history>>
      /\ (d.stopped \/ Covers(d, updates, quiet, 0))
  BY Results DEF NextClient, Inv, Locals, Earned, Calling, Terminal
<1>2. PICK next : next = CursorAfter(current)
  OBVIOUS
<1>3. PICK due : due = SerialAfter(d.clients, current.serial)
  OBVIOUS
<1>4. PICK x : x = IF next = 1 THEN CompleteRound(d) ELSE d
  OBVIOUS
<1>5. d' = [x EXCEPT !.cursor = next, !.due = due]
  BY <1>2, <1>3, <1>4 DEF NextClient
<1>6. /\ Listing(x) /\ Same(d.clients, x.clients)
      /\ x.stopped = d.stopped /\ x.stallReported = d.stallReported
      /\ x.nextSerial = d.nextSerial
  BY <1>1, <1>4, CompletedListing DEF Same
<1>7. /\ d.clients \in Seq(Entry) /\ x.clients \in Seq(Entry) /\ x \in Driver
      /\ DOMAIN d.clients = 1..Len(d.clients) /\ DOMAIN x.clients = DOMAIN d.clients
      /\ Len(x.clients) = Len(d.clients) /\ Len(d.clients) \in Nat
      /\ x.clients = <<>> <=> d.clients = <<>>
  BY <1>1, <1>6, Members DEF Listing, Driver, Same
<1>8. /\ d.clients = <<>> => next = 1 /\ due = 0
      /\ d.clients # <<>> => next \in 1..Len(d.clients) /\ d.clients[next].serial = due
  <2>1. d.clients = <<>> => due = 0
    BY <1>3 DEF SerialAfter
  <2> QED
    BY <1>1, <1>2, <1>3, <2>1, CursorFollows
<1>9. next \in Nat /\ next \in 1..(Len(d.clients) + 1) /\ due \in 0..MaxSerial
  <2>1. d.clients # <<>> => d.clients[next].serial \in 1..MaxSerial
    BY <1>7, <1>8, Members, EntryFields
  <2>2. d.clients = <<>> => next = 1 /\ Len(d.clients) = 0
    BY <1>7, <1>8, Members
  <2> QED
    BY <1>7, <1>8, <2>1, <2>2, BoundAssumption
<1>10. /\ d' \in Driver /\ d'.clients = x.clients /\ d'.cursor = next /\ d'.due = due
       /\ d'.stopped = x.stopped /\ d'.nextSerial = x.nextSerial
       /\ d'.stallReported = x.stallReported /\ d'.idle = x.idle
       /\ d'.roundCalls = x.roundCalls /\ d'.roundProgress = x.roundProgress
  BY <1>5, <1>7, <1>9 DEF Driver
<1>11. Listing(d')
  <2>1. IF x.clients = <<>> THEN due = 0
        ELSE \E i \in DOMAIN x.clients : x.clients[i].serial = due
    BY <1>6, <1>7, <1>8 DEF Same
  <2>2. next \in 1..(Len(x.clients) + 1)
    BY <1>7, <1>9
  <2>3. /\ \A i, j \in DOMAIN x.clients : i < j =>
              /\ x.clients[i].client # x.clients[j].client
              /\ x.clients[i].serial < x.clients[j].serial
        /\ \A i \in DOMAIN x.clients : x.clients[i].serial < x.nextSerial
        /\ Len(x.clients) < x.nextSerial
        /\ x.stopped => x.clients = <<>>
    BY <1>6 DEF Listing
  <2> QED
    BY <1>10, <2>1, <2>2, <2>3 DEF Listing
<1>12. AtCursor(d')
  BY <1>6, <1>7, <1>8, <1>10 DEF AtCursor, Same
<1>13. TypeOK' /\ Locals'
  <2>1. TypeOK'
    BY <1>1, <1>11 DEF Inv, TypeOK, Listing, world, history
  <2>2. Locals'
    BY <1>1, <1>6, <1>7, <1>10 DEF Locals
  <2> QED
    BY <2>1, <2>2
<1>14. Rotation'
  BY <1>1 DEF Inv, Rotation
<1>15. NextIsDue'
  <2>1. ASSUME NEW i \in DOMAIN queue, NEW j \in DOMAIN queue, i < j,
               queue[j].serial = due, IsRegistered(queue[i])
        PROVE  FALSE
    <3>1. PICK k \in DOMAIN d.clients : d.clients[k].serial = queue[i].serial
      BY <2>1 DEF IsRegistered
    <3>2. Cyclic(current.serial, queue[i].serial, queue[j].serial)
      BY <1>1, <2>1 DEF Inv, Rotation
    <3>3. d.clients # <<>> /\ Sorted(d.clients)
      BY <1>1, <1>7, <3>1, Members DEF Listing, Sorted
    <3>4. /\ \A m \in DOMAIN d.clients : d.clients[m].serial \in Nat
          /\ current.serial \in Int
      <4>1. \A m \in DOMAIN d.clients : d.clients[m] \in Entry
        BY <1>7, Members
      <4> QED
        BY <1>1, <4>1, BoundAssumption DEF Entry
    <3>5. PICK at \in 1..Len(d.clients) :
            /\ due = d.clients[at].serial
            /\ due > current.serial =>
                  \A m \in DOMAIN d.clients :
                     d.clients[m].serial > current.serial => due <= d.clients[m].serial
            /\ ~(due > current.serial) =>
                  \A m \in DOMAIN d.clients :
                     ~(d.clients[m].serial > current.serial) /\ due <= d.clients[m].serial
      BY <1>3, <1>7, <3>3, <3>4, After
    <3> QED
      <4>1. PICK a, b : a = current.serial /\ b = queue[i].serial
        OBVIOUS
      <4>2. a \in Int /\ b \in Int /\ due \in Int
        BY <1>7, <3>1, <3>4, <3>5, <4>1
      <4>3. Cyclic(a, b, due)
        BY <2>1, <3>2, <4>1
      <4>4. CASE due > a
        <5>1. b > a => due <= b
          BY <3>1, <3>5, <4>1, <4>4
        <5> QED
          BY <4>2, <4>3, <4>4, <5>1 DEF Cyclic
      <4>5. CASE ~(due > a)
        <5>1. ~(b > a) /\ due <= b
          BY <3>1, <3>5, <4>1, <4>5
        <5> QED
          BY <4>2, <4>3, <5>1 DEF Cyclic
      <4> QED
        BY <4>4, <4>5
  <2>2. ASSUME NEW e, IsRegistered(e)'
        PROVE  IsRegistered(e)
    BY <1>6, <1>7, <1>10, <2>2 DEF IsRegistered, Same
  <2> QED
    BY <1>1, <1>10, <2>1, <2>2 DEF NextIsDue, InOrder
<1>16. Episode'
  BY <1>1, <1>6, <1>10 DEF Inv, Episode, history
<1>17. Earned'
  <2>1. ASSUME ~d.stopped
        PROVE  Covers(x, updates, quiet, 0)
    <3>1. Covers(d, updates, quiet, 0) /\ d.clients # <<>>
      BY <1>1, <2>1
    <3>2. CASE next # 1
      BY <1>4, <3>1, <3>2
    <3>3. CASE next = 1
      <4>1. PICK counts : counts <=>
              (d.roundCalls /\ \A i \in DOMAIN d.clients : d.clients[i].inRound)
        OBVIOUS
      <4>2. /\ \A i \in DOMAIN d.clients : ~x.clients[i].inRound
            /\ ~x.roundCalls
            /\ ~counts => x.idle = d.idle
            /\ counts /\ d.roundProgress => x.idle = 0
            /\ counts /\ ~d.roundProgress => x.idle = Capped(d.idle)
        BY <1>1, <1>4, <3>3, <4>1, CompletedListing
      <4>3. /\ d.idle \in 0..StallAfter /\ quiet \in 0..StallAfter /\ StallAfter \in Nat
            /\ updates > 0 \/ updates = 0
        BY StallAssumption, BudgetAssumption DEF Inv, TypeOK, Driver
      <4>4. Idle(x, updates) <= quiet
        <5>1. CASE updates > 0
          BY <4>3, <5>1 DEF Idle
        <5>2. CASE updates = 0 /\ ~(counts /\ ~d.roundProgress)
          BY <3>1, <4>2, <4>3, <5>2 DEF Idle, Covers
        <5>3. CASE updates = 0 /\ counts /\ ~d.roundProgress
          <6>1. \A i \in DOMAIN d.clients : d.clients[i].serial # 0
            <7>1. \A i \in DOMAIN d.clients : d.clients[i] \in Entry
              BY <1>7, Members
            <7>2. \A e \in Entry : e.serial \in 1..MaxSerial
              BY EntryFields
            <7> QED
              BY <7>1, <7>2
          <6>2. d.idle < quiet \/ quiet = StallAfter
            BY <3>1, <4>1, <4>3, <5>3, <6>1 DEF Idle, Covers
          <6> QED
            BY <4>2, <4>3, <5>3, <6>2 DEF Idle, Capped
        <5> QED
          BY <4>3, <5>1, <5>2, <5>3
      <4> QED
        BY <1>7, <4>2, <4>4 DEF Covers
    <3> QED
      BY <3>2, <3>3
  <2>2. ~d.stopped => Covers(d', updates, quiet, 0)
    BY <1>10, <2>1 DEF Covers, Idle
  <2> QED
    BY <1>1, <1>6, <1>10, <2>2 DEF Earned, Calling, history
<1> QED
  BY <1>1, <1>11, <1>12, <1>13, <1>14, <1>15, <1>16, <1>17 DEF Inv

-----------------------------------------------------------------------------
(***************************************************************************)
(* The end of a turn, and what happens outside it.                         *)
(***************************************************************************)

\* Idle rounds may be forgotten.
LEMMA FewerCovers ==
    ASSUME Inv, Covers(d, updates, quiet, 0), NEW y, y.clients = d.clients,
           y.roundCalls = d.roundCalls, y.roundProgress = d.roundProgress,
           y.idle = 0 \/ y.idle = Idle(d, updates)
    PROVE  Covers(y, 0, quiet, 0)
<1>1. d.idle \in Nat /\ quiet \in Nat
  BY StallAssumption DEF Inv, TypeOK, Driver
<1>2. Idle(d, updates) \in Nat /\ Idle(y, 0) = y.idle
  BY <1>1 DEF Idle
<1>3. y.idle \in Nat /\ y.idle <= Idle(d, updates)
  BY <1>2
<1> QED
  BY <1>1, <1>2, <1>3 DEF Covers

\* The invariant after _resolve_state() has left the driver y and the result r.
LEMMA EndTurnInv ==
    ASSUME Inv, pc = "resolve", TurnOver, UNCHANGED <<world, quiet>>,
           NEW y, Listing(y), NEW r \in Result, EndTurn(y, r),
           y.stopped \/ r.state = "error" \/
             /\ ~d.stopped
             /\ y.clients = d.clients /\ y.cursor = d.cursor /\ y.due = d.due
             /\ y.roundCalls = d.roundCalls /\ y.roundProgress = d.roundProgress
             /\ y.idle = 0 \/ y.idle = Idle(d, updates),
           ~y.stopped => ~d.stopped /\ (y.stallReported <=> d.stallReported /\ ~(updates > 0)),
           r.state = "stalled" => ~y.stopped /\ (~y.stallReported \/ StallFatal)
    PROVE  Inv'
<1>1. /\ d' = [y EXCEPT !.stallReported = @ \/ r.state = "stalled"]
      /\ result' = r
      /\ reports' = IF r.state = "stalled" /\ reports < 2 THEN reports + 1 ELSE reports
  BY DEF EndTurn
<1>2. /\ d' \in Driver /\ (d'.stallReported <=> y.stallReported \/ r.state = "stalled")
      /\ d'.clients = y.clients /\ d'.cursor = y.cursor /\ d'.due = y.due
      /\ d'.stopped = y.stopped /\ d'.nextSerial = y.nextSerial /\ d'.idle = y.idle
      /\ d'.roundCalls = y.roundCalls /\ d'.roundProgress = y.roundProgress
  <2>1. PICK b \in BOOLEAN : b <=> (y.stallReported \/ r.state = "stalled")
    OBVIOUS
  <2>2. y \in Driver
    BY DEF Listing
  <2>3. y.stallReported \in BOOLEAN
    BY <2>2 DEF Driver
  <2>4. d' = [y EXCEPT !.stallReported = b]
    BY <1>1, <2>1, <2>3
  <2> QED
    BY <2>1, <2>2, <2>4 DEF Driver
<1>3. Listing(d')
  BY <1>2 DEF Listing
<1>4. result = Returns("none") /\ ~Terminal
  BY Results DEF Inv, Locals, Terminal
<1>5. ~Terminal' => AtCursor(d')
  <2>1. CASE y.stopped
    BY <1>2, <2>1 DEF AtCursor
  <2>2. CASE r.state = "error"
    BY <1>1, <2>2 DEF Terminal
  <2>3. CASE /\ y.clients = d.clients /\ y.cursor = d.cursor /\ y.due = d.due
             /\ ~d.stopped
    BY <1>2, <1>4, <2>3 DEF Inv, AtCursor
  <2> QED
    BY <2>1, <2>2, <2>3
<1>6. ~d'.stopped /\ ~Terminal' => Covers(d', 0, quiet, 0)
  <2>1. CASE y.stopped
    BY <1>2, <2>1
  <2>2. CASE r.state = "error"
    BY <1>1, <2>2 DEF Terminal
  <2>3. CASE /\ ~d.stopped /\ y.clients = d.clients
             /\ y.roundCalls = d.roundCalls /\ y.roundProgress = d.roundProgress
             /\ y.idle = 0 \/ y.idle = Idle(d, updates)
    <3>1. Covers(d, updates, quiet, 0)
      BY <1>4, <2>3 DEF Inv, Earned, Calling
    <3> QED
      BY <1>2, <2>3, <3>1, FewerCovers
  <2> QED
    BY <2>1, <2>2, <2>3
<1>7. reports \in 0..2 /\ reports' \in 0..2 /\ quiet' \in 0..StallAfter /\ quiet' = quiet
  BY <1>1 DEF Inv, TypeOK
<1>8. Episode'
  <2>1. updates' = 0
    BY DEF TurnOver
  <2>2. ASSUME ~StallFatal
        PROVE  reports' <= 1 /\ (reports' > 0 /\ ~d'.stopped => d'.stallReported)
    <3>1. ~d.stopped /\ reports > 0 => d.stallReported /\ ~(updates > 0)
      BY <1>7, <2>2 DEF Inv, Episode
    <3>2. reports <= 1
      BY <2>2 DEF Inv, Episode
    <3>3. CASE r.state = "stalled"
      BY <1>1, <1>2, <1>7, <2>2, <3>1, <3>3
    <3>4. CASE r.state # "stalled"
      BY <1>1, <1>2, <1>7, <3>1, <3>2, <3>4
    <3> QED
      BY <3>3, <3>4
  <2> QED
    BY <2>1, <2>2 DEF Episode
<1> QED
  BY <1>1, <1>3, <1>5, <1>6, <1>7, <1>8, EndedInv DEF world

LEMMA ResolveInv ==
    ASSUME Inv, Resolve
    PROVE  Inv'
<1>1. pc = "resolve" /\ TurnOver /\ UNCHANGED <<world, quiet>> /\ Listing(d) /\ d \in Driver
  BY DEF Resolve, Inv, TypeOK
<1>2. PICK x : x = Credited(d)
  OBVIOUS
<1>3. /\ Listing(x) /\ x \in Driver /\ x.stopped = d.stopped
      /\ x.clients = d.clients /\ x.cursor = d.cursor /\ x.due = d.due
      /\ x.roundCalls = d.roundCalls /\ x.roundProgress = d.roundProgress
      /\ x.idle = Idle(d, updates) /\ x.nextSerial = d.nextSerial
      /\ (x.stallReported <=> d.stallReported /\ ~(updates > 0))
  <2>1. CASE updates > 0
    <3>1. x = [d EXCEPT !.idle = 0, !.stallReported = FALSE]
      BY <1>2, <2>1 DEF Credited
    <3>2. 0 \in 0..StallAfter
      BY StallAssumption
    <3>3. /\ x \in Driver /\ x.stopped = d.stopped
          /\ x.clients = d.clients /\ x.cursor = d.cursor /\ x.due = d.due
          /\ x.roundCalls = d.roundCalls /\ x.roundProgress = d.roundProgress
          /\ x.idle = 0 /\ x.nextSerial = d.nextSerial /\ ~x.stallReported
      BY <1>1, <3>1, <3>2 DEF Driver
    <3> QED
      BY <1>1, <2>1, <3>3 DEF Listing, Idle
  <2>2. CASE ~(updates > 0)
    BY <1>1, <1>2, <2>2 DEF Credited, Idle
  <2> QED
    BY <2>1, <2>2
<1>4. x.idle \in 0..StallAfter /\ x.zero \in 0..StallAfter
  BY <1>3 DEF Driver
<1>5. 0 \in 0..StallAfter /\ x.kicked \in BOOLEAN
  BY <1>3, StallAssumption DEF Driver
<1>6. CASE d.stopped /\ EndTurn(d, Returns("closed"))
  BY <1>1, <1>6, Results, EndTurnInv
<1>7. CASE ~d.stopped /\ EndTurn(Stopped(x), Returns("closed"))
  BY <1>1, <1>3, <1>7, Results, EndTurnInv, StoppedListing
<1>8. CASE ~d.stopped /\ EndTurn(x, Returns("error"))
  BY <1>1, <1>3, <1>8, Results, EndTurnInv
<1>9. CASE ~d.stopped /\ EndTurn([x EXCEPT !.kicked = FALSE, !.zero = 0], Returns("again"))
  <2>1. PICK y : y = [x EXCEPT !.idle = x.idle, !.zero = 0, !.kicked = FALSE]
    OBVIOUS
  <2>2. y = [x EXCEPT !.kicked = FALSE, !.zero = 0]
    BY <1>3, <2>1 DEF Driver
  <2>3. EndTurn(y, Returns("again")) /\ Returns("again") \in Result
        /\ Returns("again").state = "again"
    BY <1>9, <2>2, Results
  <2>4. /\ Listing(y) /\ y.stopped = d.stopped
        /\ y.clients = d.clients /\ y.cursor = d.cursor /\ y.due = d.due
        /\ y.roundCalls = d.roundCalls /\ y.roundProgress = d.roundProgress
        /\ y.idle = x.idle /\ y.stallReported = x.stallReported
    <3>1. /\ y \in Driver /\ y.stopped = x.stopped /\ y.nextSerial = x.nextSerial
          /\ y.clients = x.clients /\ y.cursor = x.cursor /\ y.due = x.due
          /\ y.roundCalls = x.roundCalls /\ y.roundProgress = x.roundProgress
          /\ y.idle = x.idle /\ y.stallReported = x.stallReported
      BY <1>4, <1>3, <1>5, <2>1 DEF Driver
    <3>2. Listing(y)
      BY <1>3, <3>1 DEF Listing
    <3> QED
      BY <1>3, <3>1, <3>2
  <2> QED
    BY <1>1, <1>3, <1>9, <2>3, <2>4, EndTurnInv
<1>10. CASE ~d.stopped /\ ResolveWork(x)
  <2>1. PICK y : y = [x EXCEPT !.idle = x.idle, !.zero = 0, !.kicked = x.kicked]
    OBVIOUS
  <2>2. y = [x EXCEPT !.zero = 0]
    BY <1>3, <2>1 DEF Driver
  <2>3. PICK r : r = Decide(y, x.idle, "work")
    OBVIOUS
  <2>4. /\ Listing(y) /\ y.stopped = d.stopped
        /\ y.clients = d.clients /\ y.cursor = d.cursor /\ y.due = d.due
        /\ y.roundCalls = d.roundCalls /\ y.roundProgress = d.roundProgress
        /\ y.idle = x.idle /\ y.stallReported = x.stallReported
    <3>1. /\ y \in Driver /\ y.stopped = x.stopped /\ y.nextSerial = x.nextSerial
          /\ y.clients = x.clients /\ y.cursor = x.cursor /\ y.due = x.due
          /\ y.roundCalls = x.roundCalls /\ y.roundProgress = x.roundProgress
          /\ y.idle = x.idle /\ y.stallReported = x.stallReported
      BY <1>4, <1>3, <1>5, <2>1 DEF Driver
    <3>2. Listing(y)
      BY <1>3, <3>1 DEF Listing
    <3> QED
      BY <1>3, <3>1, <3>2
  <2>5. r \in Result /\ (r.state = "stalled" => ~y.stallReported \/ StallFatal)
    BY <2>3, Results, StallAssumption DEF Decide
  <2>6. EndTurn(y, r)
    BY <1>10, <2>2, <2>3, <2>4 DEF ResolveWork, Decide
  <2> QED
    BY <1>1, <1>3, <1>10, <2>4, <2>5, <2>6, EndTurnInv
<1>11. CASE ~d.stopped /\ updates = 0 /\ ResolveDeadline(x)
  <2>1. PICK zero : zero = Capped(x.zero)
    OBVIOUS
  <2>2. zero \in 0..StallAfter
    BY <1>4, <2>1, StallAssumption DEF Capped
  <2>3. PICK y : y = [x EXCEPT !.idle = 0, !.zero = zero, !.kicked = x.kicked]
    OBVIOUS
  <2>4. y = [x EXCEPT !.idle = 0, !.zero = zero]
    BY <1>3, <2>3 DEF Driver
  <2>5. /\ Listing(y) /\ y.stopped = d.stopped
        /\ y.clients = d.clients /\ y.cursor = d.cursor /\ y.due = d.due
        /\ y.roundCalls = d.roundCalls /\ y.roundProgress = d.roundProgress
        /\ y.idle = 0 /\ y.stallReported = x.stallReported
    <3>1. /\ y \in Driver /\ y.stopped = x.stopped /\ y.nextSerial = x.nextSerial
          /\ y.clients = x.clients /\ y.cursor = x.cursor /\ y.due = x.due
          /\ y.roundCalls = x.roundCalls /\ y.roundProgress = x.roundProgress
          /\ y.idle = 0 /\ y.stallReported = x.stallReported
      BY <1>3, <1>5, <2>2, <2>3 DEF Driver
    <3>2. Listing(y)
      BY <1>3, <3>1 DEF Listing
    <3> QED
      BY <1>3, <3>1, <3>2
  <2>6. PICK r : r = Decide(x, zero, "deadline")
    OBVIOUS
  <2>7. r \in Result /\ (r.state = "stalled" => ~x.stallReported \/ StallFatal)
    BY <2>6, Results, StallAssumption DEF Decide
  <2>8. EndTurn(y, r)
    BY <1>11, <2>1, <2>4, <2>6 DEF ResolveDeadline
  <2> QED
    BY <1>1, <1>3, <1>11, <2>5, <2>7, <2>8, EndTurnInv
<1>12. CASE ~d.stopped /\ EndTurn([x EXCEPT !.idle = 0, !.zero = 0], Returns("sleep"))
  <2>1. PICK y : y = [x EXCEPT !.idle = 0, !.zero = 0, !.kicked = x.kicked]
    OBVIOUS
  <2>2. y = [x EXCEPT !.idle = 0, !.zero = 0]
    BY <1>3, <2>1 DEF Driver
  <2>3. EndTurn(y, Returns("sleep")) /\ Returns("sleep") \in Result
        /\ Returns("sleep").state = "sleep"
    BY <1>12, <2>2, Results
  <2>4. /\ Listing(y) /\ y.stopped = d.stopped
        /\ y.clients = d.clients /\ y.cursor = d.cursor /\ y.due = d.due
        /\ y.roundCalls = d.roundCalls /\ y.roundProgress = d.roundProgress
        /\ y.idle = 0 /\ y.stallReported = x.stallReported
    <3>1. /\ y \in Driver /\ y.stopped = x.stopped /\ y.nextSerial = x.nextSerial
          /\ y.clients = x.clients /\ y.cursor = x.cursor /\ y.due = x.due
          /\ y.roundCalls = x.roundCalls /\ y.roundProgress = x.roundProgress
          /\ y.idle = 0 /\ y.stallReported = x.stallReported
      BY <1>3, <1>5, <2>1 DEF Driver
    <3>2. Listing(y)
      BY <1>3, <3>1 DEF Listing
    <3> QED
      BY <1>3, <3>1, <3>2
  <2> QED
    BY <1>1, <1>3, <1>12, <2>3, <2>4, EndTurnInv
<1> QED
  BY <1>2, <1>6, <1>7, <1>8, <1>9, <1>10, <1>11, <1>12 DEF Resolve

\* What happens to the world does not reach the driver.
LEMMA OutsideInv ==
    ASSUME Inv, UNCHANGED <<d, turn, history>>,
           backlog' \in [Clients -> 0..MaxBacklog],
           closed' \subseteq Clients, expired' \subseteq Clients,
           foreign' \in BOOLEAN, owner' \in {"valid", "invalid", "raises"}
    PROVE  Inv'
<1>1. TypeOK' /\ Listing(d)' /\ Locals'
  BY DEF Inv, TypeOK, Locals, Listing, turn, history
<1>2. pc' \in {"idle", "select", "resolve"} /\ ~Terminal' => AtCursor(d)'
  BY DEF Inv, AtCursor, Terminal, turn, history
<1>3. Rotation' /\ NextIsDue' /\ Episode'
  BY DEF Inv, Rotation, NextIsDue, InOrder, IsRegistered, Episode, turn, history
<1>4. Earned'
  BY DEF Inv, Earned, Covers, Idle, Calling, Terminal, IsRegistered, turn, history
<1> QED
  BY <1>1, <1>2, <1>3, <1>4 DEF Inv

LEMMA WorldInv ==
    ASSUME Inv, Outside
    PROVE  Inv'
<1>1. /\ backlog \in [Clients -> 0..MaxBacklog]
      /\ closed \subseteq Clients /\ expired \subseteq Clients
      /\ foreign \in BOOLEAN /\ owner \in {"valid", "invalid", "raises"}
  BY DEF Inv, TypeOK
<1>2. ASSUME NEW c \in Clients, Arrive(c)
      PROVE  Inv'
  <2>1. backlog' \in [Clients -> 0..MaxBacklog]
    BY <1>1, <1>2, BoundAssumption DEF Arrive
  <2>2. UNCHANGED <<d, turn, closed, expired, foreign, owner, history>>
    BY <1>2 DEF Arrive
  <2> QED
    BY <1>1, <2>1, <2>2, OutsideInv
<1>3. ASSUME NEW c \in Clients, Close(c)
      PROVE  Inv'
  <2>1. closed' \subseteq Clients /\ UNCHANGED <<d, turn, backlog, expired, foreign, owner, history>>
    BY <1>1, <1>3 DEF Close
  <2> QED
    BY <1>1, <2>1, OutsideInv
<1>4. ASSUME NEW c \in Clients, Expire(c)
      PROVE  Inv'
  <2>1. expired' \subseteq Clients /\ UNCHANGED <<d, turn, backlog, closed, foreign, owner, history>>
    BY <1>1, <1>4 DEF Expire
  <2> QED
    BY <1>1, <2>1, OutsideInv
<1>5. CASE Foreign
  <2>1. foreign' \in BOOLEAN /\ UNCHANGED <<d, turn, backlog, closed, expired, owner, history>>
    BY <1>1, <1>5 DEF Foreign
  <2> QED
    BY <1>1, <2>1, OutsideInv
<1>6. CASE OwnerLost
  <2>1. /\ owner' \in {"valid", "invalid", "raises"}
        /\ UNCHANGED <<d, turn, backlog, closed, expired, foreign, history>>
    BY <1>6 DEF OwnerLost
  <2> QED
    BY <1>1, <2>1, OutsideInv
<1> QED
  BY <1>2, <1>3, <1>4, <1>5, <1>6 DEF Outside

-----------------------------------------------------------------------------
(***************************************************************************)
(* The driver.                                                             *)
(***************************************************************************)
LEMMA InitInv == Init => Inv
<1> SUFFICES ASSUME Init
             PROVE  Inv
  OBVIOUS
<1>1. <<>> \in Seq(Entry) /\ Len(<<>>) = 0 /\ DOMAIN <<>> = {}
  BY EmptySeq
<1>2. 0 \in 0..StallAfter /\ 0 \in 0..MaxSerial /\ 0 \in 0..Slice /\ 0 \in 0..Budget
  BY StallAssumption, BoundAssumption, BudgetAssumption
<1>3. Returns("none") \in Result /\ Returns("none").state = "none" /\ ~Returns("none").fatal
  BY Results
<1>4. /\ d \in Driver /\ d.clients = <<>> /\ d.cursor = 1 /\ d.nextSerial = 1
      /\ ~d.stopped /\ d.due = 0 /\ d.idle = 0 /\ ~d.roundCalls
  <2>1. 1 \in 1..(MaxSerial + 1)
    BY BoundAssumption
  <2> QED
    BY <1>1, <1>2, <2>1 DEF Init, Driver
<1>5. Listing(d)
  BY <1>1, <1>4 DEF Listing
<1>6. TypeOK
  <2>1. backlog \in [Clients -> 0..MaxBacklog]
    BY BoundAssumption DEF Init
  <2>2. 0 \in 0..calls /\ 0 \in 0..2
    BY DEF Init
  <2>3. /\ d.cursor \in 1..(Len(d.clients) + 1)
        /\ \A i, j \in DOMAIN d.clients : i < j =>
              /\ d.clients[i].client # d.clients[j].client
              /\ d.clients[i].serial < d.clients[j].serial
    BY <1>5 DEF Listing
  <2>4. d \in Driver /\ queue \in Seq(Entry) /\ result \in Result
    BY <1>1, <1>3, <1>4 DEF Init
  <2>5. call \in 0..Slice /\ calls \in 0..Budget /\ quiet \in 0..StallAfter
    BY <1>2 DEF Init
  <2> QED
    BY <2>1, <2>2, <2>3, <2>4, <2>5 DEF Init, TypeOK
<1>7. Locals /\ AtCursor(d) /\ Rotation /\ NextIsDue /\ Episode
  BY <1>1, <1>4 DEF Init, Locals, AtCursor, Rotation, NextIsDue, InOrder, Episode
<1>8. Earned
  BY <1>1, <1>2, <1>4 DEF Init, Earned, Covers, Idle
<1> QED
  BY <1>5, <1>6, <1>7, <1>8 DEF Inv

LEMMA FinishInv ==
    ASSUME Inv, Finish
    PROVE  Inv'
BY StopsInv DEF Finish

LEMMA StopInv ==
    ASSUME Inv, Stop
    PROVE  Inv'
BY StopsInv DEF Stop

LEMMA OperationInv ==
    ASSUME Inv, Operation
    PROVE  Inv'
BY AddInv, AddFailsInv, RemoveInv, StopInv, KickInv, ProgressInv DEF Operation

LEMMA TurnStepInv ==
    ASSUME Inv, TurnStep
    PROVE  Inv'
BY SelectInv, CallInv, NextClientInv, ResolveInv, ReceiveNilInv, ReceiveRaisesInv,
   ReceiveStaleInv, ReceiveUpdateInv, DeliveredInv, DeliveryFailsInv DEF TurnStep

LEMMA StartTurnInv ==
    ASSUME Inv, StartTurn
    PROVE  Inv'
BY TickInv, TickClosedInv, TickRaisesInv DEF StartTurn

LEMMA IdleInv ==
    ASSUME Inv, UNCHANGED vars
    PROVE  Inv'
BY OutsideInv DEF Inv, TypeOK, vars, world

LEMMA NextInv == Inv /\ [Next]_vars => Inv'
BY OperationInv, TurnStepInv, StartTurnInv, FinishInv, WorldInv, IdleInv DEF Next

\* Every step of the driver, its callbacks and its world keeps the invariant.
THEOREM Invariance == Spec => []Inv
BY InitInv, NextInv, PTL DEF Spec

\* Only a delivered update or progress() lets _resolve_state() report another
\* stall that is not fatal.
THEOREM Once == Spec => []OncePerEpisode
<1>1. Inv => OncePerEpisode
  BY StallAssumption DEF Inv, Episode, OncePerEpisode
<1> QED
  BY <1>1, Invariance, PTL

\* Every slice of a turn goes to the client whose turn it is in registration
\* order, whatever callbacks add, remove or stop.
THEOREM Order == Spec => []InOrder
<1>1. Inv => InOrder
  BY DEF Inv, NextIsDue
<1> QED
  BY <1>1, Invariance, PTL

\* The step that resolves a turn is the only one that leaves it with a stall.
LEMMA StallsByWork ==
    ASSUME Inv, [Next]_vars, StallsFor({"work"})
    PROVE  ~d.stopped /\ Decide(Credited(d), Credited(d).idle, "work").state = "stalled"
<1>1. pc = "resolve" /\ result'.state = "stalled" /\ result'.cause = "work"
  BY DEF StallsFor
<1>2. result.state = "none"
  <2>1. result = Returns("none")
    BY <1>1 DEF Inv, Locals
  <2> QED
    BY <2>1, Results
<1>3. result' # result
  BY <1>1, <1>2
<1>4. Resolve
  <2>1. UNCHANGED turn => result' = result
    BY DEF turn
  <2>2. ~Operation
    BY <1>3, <2>1 DEF Operation, Add, AddFails, RemoveClient, Stop, Kick, Progress
  <2>3. ~Outside
    BY <1>3, <2>1 DEF Outside, Arrive, Close, Expire, Foreign, OwnerLost
  <2>4. ~StartTurn /\ ~Finish
    BY <1>1 DEF StartTurn, Tick, TickClosed, TickRaises, MayTick, Finish
  <2>5. ~(Select \/ Call \/ NextClient \/ Delivered \/ DeliveryFails)
    BY <1>1 DEF Select, Call, NextClient, Delivered, DeliveryFails
  <2>6. ~(ReceiveNil \/ ReceiveRaises \/ ReceiveStale \/ ReceiveUpdate)
    BY <1>1 DEF ReceiveNil, ReceiveRaises, ReceiveStale, ReceiveUpdate, Called
  <2>7. ~UNCHANGED vars
    BY <1>3, <2>1 DEF vars
  <2> QED
    BY <2>2, <2>3, <2>4, <2>5, <2>6, <2>7 DEF Next, TurnStep
<1>5. /\ Returns("closed").state = "closed" /\ Returns("error").state = "error"
      /\ Returns("again").state = "again" /\ Returns("sleep").state = "sleep"
  BY Results
<1>6. ASSUME NEW y, NEW r, EndTurn(y, r)
      PROVE  r.state = "stalled" /\ r.cause = "work"
  BY <1>1, <1>6 DEF EndTurn
<1>7. PICK x : x = Credited(d)
  OBVIOUS
<1>8. \/ ~d.stopped /\ ResolveWork(x)
      \/ ~d.stopped /\ ResolveDeadline(x)
  BY <1>4, <1>5, <1>6, <1>7 DEF Resolve
<1>9. ASSUME ResolveDeadline(x)
      PROVE  FALSE
  <2>1. PICK r : r = Decide(x, Capped(x.zero), "deadline")
    OBVIOUS
  <2>2. r.state = "stalled" /\ r.cause = "work"
    BY <1>6, <1>9, <2>1 DEF ResolveDeadline
  <2>3. r.cause = "deadline" \/ r = Returns("again")
    BY <2>1 DEF Decide
  <2> QED
    BY <1>5, <2>2, <2>3
<1>10. PICK r : r = Decide(x, x.idle, "work")
  OBVIOUS
<1>11. ~d.stopped /\ r.state = "stalled"
  BY <1>6, <1>8, <1>9, <1>10 DEF ResolveWork
<1> QED
  BY <1>7, <1>10, <1>11

\* A stall over visible work is earned by StallAfter complete sweeps since the
\* last progress.
THEOREM Earn == Spec => StallEarned
<1>1. ASSUME Inv, [Next]_vars, StallsFor({"work"})
      PROVE  quiet = StallAfter
  <2>1. PICK x : x = Credited(d)
    OBVIOUS
  <2>2. ~d.stopped /\ Decide(x, x.idle, "work").state = "stalled"
    BY <1>1, <2>1, StallsByWork
  <2>3. x.idle >= StallAfter
    BY <2>2, Results DEF Decide
  <2>4. x.idle = Idle(d, updates)
    BY <2>1, <1>1 DEF Credited, Idle, Inv, TypeOK, Driver
  <2>5. pc = "resolve" /\ result = Returns("none")
    BY <1>1 DEF StallsFor, Inv, Locals
  <2>6. ~Terminal
    BY <2>5, Results DEF Terminal
  <2>7. Idle(d, updates) <= quiet
    BY <1>1, <2>2, <2>6 DEF Inv, Earned, Covers
  <2>8. quiet \in 0..StallAfter
    BY <1>1 DEF Inv, TypeOK
  <2>9. Idle(d, updates) \in Nat
    BY <1>1 DEF Idle, Inv, TypeOK, Driver
  <2> QED
    BY <2>3, <2>4, <2>7, <2>8, <2>9, StallAssumption
<1>2. Inv /\ [Next]_vars => [StallsFor({"work"}) => quiet = StallAfter]_vars
  BY <1>1
<1> QED
  BY <1>2, Invariance, PTL DEF Spec, StallEarned

-----------------------------------------------------------------------------
(***************************************************************************)
(* The luv adapter.                                                        *)
(***************************************************************************)

\* The turn ends with a result, and a sleep leaves nothing for the driver to do.
LEMMA TurnResult ==
    ASSUME Inv, StartTurn \/ TurnStep, pc' = "idle"
    PROVE  /\ result'.state \in {"sleep", "again", "stalled", "closed", "error"}
           /\ result'.state = "sleep" => ~d'.stopped /\ ~d'.kicked /\ expired' = expired
<1>1. /\ Returns("closed").state = "closed" /\ Returns("error").state = "error"
      /\ Returns("again").state = "again" /\ Returns("sleep").state = "sleep"
  BY Results
<1>2. CASE StartTurn
  BY <1>1, <1>2 DEF StartTurn, Tick, TickClosed, TickRaises
<1>3. CASE ReceiveRaises \/ DeliveryFails
  BY <1>1, <1>3 DEF ReceiveRaises, DeliveryFails
<1>4. CASE TurnStep /\ ~ReceiveRaises /\ ~DeliveryFails
  <2>1. Resolve
    <3>1. ~Select /\ ~Call
      <4>1. Select => pc' # "idle"
        BY DEF Select
      <4>2. Call => pc' # "idle"
        BY DEF Call
      <4> QED
        BY <4>1, <4>2
    <3>2. ~NextClient /\ ~Delivered
      BY DEF NextClient, Delivered
    <3>3. ~ReceiveNil /\ ~ReceiveStale /\ ~ReceiveUpdate
      BY DEF ReceiveNil, ReceiveStale, ReceiveUpdate
    <3> QED
      BY <1>4, <3>1, <3>2, <3>3 DEF TurnStep
  <2>2. d \in Driver /\ expired' = expired
    BY <2>1 DEF Inv, TypeOK, Resolve, world
  <2>3. PICK x : x = Credited(d)
    OBVIOUS
  <2>4. /\ x \in Driver /\ x.stopped = d.stopped /\ x.kicked = d.kicked
    <3>1. 0 \in 0..StallAfter
      BY StallAssumption
    <3> QED
      BY <2>2, <2>3, <3>1 DEF Credited, Driver
  <2>5. ASSUME NEW y, NEW r, EndTurn(y, r)
        PROVE  result' = r
    BY <2>5 DEF EndTurn
  <2>6. \/ result' \in {Returns("closed"), Returns("error"), Returns("again")}
        \/ ResolveWork(x) \/ ResolveDeadline(x)
        \/ /\ ~d.stopped /\ ~d.kicked
           /\ EndTurn([x EXCEPT !.idle = 0, !.zero = 0], Returns("sleep"))
    BY <2>1, <2>3, <2>5 DEF Resolve
  <2>7. ASSUME NEW n, NEW cause
        PROVE  Decide(x, n, cause).state \in {"stalled", "again"}
    BY <1>1 DEF Decide
  <2>8. ResolveWork(x) => result' = Decide(x, x.idle, "work")
    BY DEF ResolveWork, EndTurn
  <2>9. ResolveDeadline(x) => result' = Decide(x, Capped(x.zero), "deadline")
    BY DEF ResolveDeadline, EndTurn
  <2>10. CASE /\ ~d.stopped /\ ~d.kicked
              /\ EndTurn([x EXCEPT !.idle = 0, !.zero = 0], Returns("sleep"))
    <3>1. PICK y : y = [x EXCEPT !.idle = 0, !.zero = 0]
      OBVIOUS
    <3>2. DOMAIN y = DOMAIN x /\ y.stopped = x.stopped /\ y.kicked = x.kicked
      BY <2>4, <3>1 DEF Driver
    <3>3. EndTurn(y, Returns("sleep"))
      BY <2>10, <3>1
    <3>4. d'.stopped = y.stopped /\ d'.kicked = y.kicked
      BY <2>4, <3>1, <3>3 DEF EndTurn, Driver
    <3> QED
      BY <1>1, <2>2, <2>4, <2>5, <2>10, <3>2, <3>3, <3>4
  <2> QED
    BY <1>1, <2>6, <2>7, <2>8, <2>9, <2>10
<1> QED
  BY <1>2, <1>3, <1>4

\* How _tick() goes on after a turn.
LEMMA ContinueSafe ==
    ASSUME LuvInv, Inv', StartTurn \/ TurnStep, pc' = "idle", Continue,
           adapter # "notice", UNCHANGED <<timed, reliable, missed>>
    PROVE  LuvInv'
<1>1. /\ result'.state \in {"sleep", "again", "stalled", "closed", "error"}
      /\ result'.state = "sleep" => ~d'.stopped /\ ~d'.kicked /\ expired' = expired
  BY TurnResult DEF LuvInv
<1>2. /\ adapter \in {"open", "stopped"} /\ timer \in {"off", "soon", "deadline"}
      /\ timed \subseteq Clients /\ reliable \in BOOLEAN /\ missed \in BOOLEAN
  BY DEF LuvInv, SleepsSafely, LuvTypeOK
<1>3. /\ Armed \in {"off", "soon", "deadline"}
      /\ Armed = "off" => reliable /\ expired = {} /\ timed = {}
  BY <1>2 DEF Armed
<1>4. PICK ends \in BOOLEAN : ends <=> result'.state \in {"closed", "error"} \/ result'.fatal
  OBVIOUS
<1>5. CASE ends \/ adapter = "stopped"
  <2>1. adapter' = "stopped" /\ timer' = "off"
    BY <1>4, <1>5 DEF Continue
  <2> QED
    BY <1>2, <2>1 DEF LuvInv, SleepsSafely, LuvTypeOK, Inv
<1>6. CASE ~ends /\ adapter = "open"
  <2>1. CASE result'.state = "stalled"
    <3>1. adapter' = "notice" /\ timer' = timer
      BY <1>4, <1>6, <2>1 DEF Continue
    <3> QED
      BY <1>2, <3>1 DEF LuvInv, SleepsSafely, LuvTypeOK, Inv
  <2>2. CASE result'.state = "again"
    <3>1. adapter' = "open" /\ timer' = "soon"
      BY <1>4, <1>6, <2>2 DEF Continue
    <3> QED
      BY <1>2, <3>1 DEF LuvInv, SleepsSafely, LuvTypeOK, Inv
  <2>3. CASE result'.state = "sleep"
    <3>1. adapter' = "open" /\ timer' = Armed
      BY <1>4, <1>6, <2>3 DEF Continue
    <3> QED
      BY <1>1, <1>2, <1>3, <2>3, <3>1 DEF LuvInv, SleepsSafely, LuvTypeOK, Inv
  <2> QED
    BY <1>1, <1>4, <1>6, <2>1, <2>2, <2>3
<1> QED
  BY <1>2, <1>5, <1>6

\* Where the timer is armed, or the adapter closed, or a turn runs, the host is
\* not left to sleep.
LEMMA AwakeSafe ==
    ASSUME LuvInv, Inv', adapter' \in {"open", "notice", "stopped"},
           timer' \in {"off", "soon", "deadline"},
           timed' \subseteq Clients, reliable' \in BOOLEAN, missed' \in BOOLEAN,
           pc' # "idle" => adapter' # "notice",
           pc' # "idle" \/ adapter' # "open" \/ timer' # "off"
    PROVE  LuvInv'
BY DEF LuvInv, SleepsSafely, LuvTypeOK, Inv

\* A step of the driver alone, between turns or in one, that leaves the timer.
LEMMA LeftSafe ==
    ASSUME LuvInv, Inv', UNCHANGED <<pc, luv>>,
           pc = "idle" => /\ expired' = expired
                          /\ ~d.stopped => ~d'.stopped /\ (d'.kicked => d.kicked)
    PROVE  LuvInv'
BY DEF LuvInv, SleepsSafely, LuvTypeOK, Inv, luv

LEMMA LuvInitInv == LuvInit => LuvInv
BY InitInv DEF LuvInit, LuvInv, SleepsSafely, LuvTypeOK, Inv, Locals, Init

LEMMA TurnsSafe ==
    ASSUME LuvInv, TimerFires \/ PollFires \/ TurnGoesOn
    PROVE  LuvInv'
<1>1. /\ adapter \in {"open", "notice", "stopped"} /\ timer \in {"off", "soon", "deadline"}
      /\ timed \subseteq Clients /\ reliable \in BOOLEAN /\ missed \in BOOLEAN
      /\ Inv /\ (pc # "idle" => adapter # "notice")
  BY DEF LuvInv, SleepsSafely, LuvTypeOK
<1>2. Inv'
  BY <1>1, StartTurnInv, TurnStepInv DEF TimerFires, PollFires, StartsTurn, TurnGoesOn
<1>3. UNCHANGED <<timed, reliable, missed>>
  BY DEF TimerFires, PollFires, TurnGoesOn
<1>4. adapter # "notice" /\ (StartTurn \/ TurnStep)
  <2>1. TurnStep => pc # "idle"
    BY DEF TurnStep, Select, Call, NextClient, Resolve, ReceiveNil, ReceiveRaises,
           ReceiveStale, ReceiveUpdate, Called, Delivered, DeliveryFails
  <2> QED
    BY <1>1, <2>1 DEF TimerFires, PollFires, StartsTurn, TurnGoesOn
<1>5. CASE pc' = "idle"
  <2>1. Continue
    BY <1>5 DEF TimerFires, PollFires, StartsTurn, TurnGoesOn
  <2> QED
    BY <1>2, <1>3, <1>4, <1>5, <2>1, ContinueSafe
<1>6. CASE pc' # "idle"
  <2>1. adapter' = adapter /\ timer' \in {timer, "off"}
    BY <1>6 DEF TimerFires, PollFires, StartsTurn, TurnGoesOn
  <2> QED
    BY <1>1, <1>2, <1>3, <1>4, <1>6, <2>1, AwakeSafe
<1> QED
  BY <1>5, <1>6

LEMMA OperatesSafe ==
    ASSUME LuvInv, Operates
    PROVE  LuvInv'
<1>1. /\ adapter \in {"open", "notice", "stopped"} /\ timer \in {"off", "soon", "deadline"}
      /\ timed \subseteq Clients /\ reliable \in BOOLEAN /\ missed \in BOOLEAN
      /\ Inv /\ (pc # "idle" => adapter # "notice")
  BY DEF LuvInv, SleepsSafely, LuvTypeOK
<1>2. Inv'
  BY <1>1, AddInv, AddFailsInv, RemoveInv, StopInv, KickInv, ProgressInv DEF Operates
<1>3. UNCHANGED <<timed, reliable, missed>>
  BY DEF Operates
<1>4. pc' = pc /\ expired' = expired
  BY DEF Operates, Add, AddFails, RemoveClient, Stop, Kick, Progress, turn, world
<1>5. CASE Hooked \/ HookFails
  BY <1>1, <1>2, <1>3, <1>4, <1>5, AwakeSafe DEF Hooked, HookFails
<1>6. ASSUME NEW c \in Clients, RemoveClient(c), ~d'.stopped, UNCHANGED <<adapter, timer>>
      PROVE  LuvInv'
  <2>1. PICK y : y = Removed(d, c)
    OBVIOUS
  <2>2. Listing(y) /\ y.kicked = d.kicked
    BY <1>1, <1>6, <2>1, RemovedListing DEF Inv, RemoveClient, Registered
  <2>3. d'.kicked = y.kicked
    BY <1>6, <2>1, <2>2 DEF RemoveClient, Listing, Driver
  <2> QED
    BY <1>2, <1>3, <1>4, <1>6, <2>2, <2>3, LeftSafe DEF luv
<1>7. CASE Progress /\ UNCHANGED <<adapter, timer>>
  <2>1. d'.kicked = d.kicked /\ d'.stopped = d.stopped
    BY <1>1, <1>7 DEF Progress, Inv, TypeOK, Driver
  <2> QED
    BY <1>2, <1>3, <1>4, <1>7, <2>1, LeftSafe DEF luv
<1> QED
  BY <1>5, <1>6, <1>7 DEF Operates

LEMMA DriverStopsSafe ==
    ASSUME LuvInv, FinishDriver \/ AdapterStops
    PROVE  LuvInv'
<1>1. /\ timed \subseteq Clients /\ reliable \in BOOLEAN /\ missed \in BOOLEAN /\ Inv
  BY DEF LuvInv, SleepsSafely, LuvTypeOK
<1>2. Inv'
  BY <1>1, StopsInv DEF FinishDriver, AdapterStops
<1>3. adapter' = "stopped" /\ timer' \in {timer, "off"} /\ UNCHANGED <<timed, reliable, missed>>
  BY DEF FinishDriver, AdapterStops, Finishing, luv
<1>4. timer \in {"off", "soon", "deadline"}
  BY DEF LuvInv, SleepsSafely, LuvTypeOK
<1> QED
  BY <1>1, <1>2, <1>3, <1>4, AwakeSafe

\* The steps of the adapter that leave the driver alone.
LEMMA AdapterSafe ==
    ASSUME LuvInv, UNCHANGED vars,
           PollFails \/ NoticeGiven \/ TransportFails \/ \E c \in Clients : WaitsInTurn(c)
    PROVE  LuvInv'
<1>1. Inv'
  BY IdleInv DEF LuvInv
<1>2. /\ adapter \in {"open", "notice", "stopped"} /\ timer \in {"off", "soon", "deadline"}
      /\ timed \subseteq Clients /\ reliable \in BOOLEAN /\ missed \in BOOLEAN
      /\ (pc # "idle" => adapter # "notice") /\ pc' = pc
  BY DEF LuvInv, SleepsSafely, LuvTypeOK, vars, turn
<1>3. CASE PollFails \/ NoticeGiven
  BY <1>1, <1>2, <1>3, AwakeSafe DEF PollFails, NoticeGiven
<1>4. ASSUME NEW c \in Clients, WaitsInTurn(c)
      PROVE  LuvInv'
  BY <1>1, <1>2, <1>4, AwakeSafe DEF WaitsInTurn
<1>5. CASE TransportFails
  <2>1. missed' \in BOOLEAN /\ UNCHANGED <<d, pc, expired, adapter, timer, timed>>
    BY <1>5 DEF TransportFails, vars, turn, world
  <2>2. pc = "idle" /\ adapter = "open" /\ timer = "off" => missed'
    BY <1>5 DEF TransportFails
  <2> QED
    BY <1>1, <1>2, <1>5, <2>1, <2>2 DEF LuvInv, SleepsSafely, LuvTypeOK, TransportFails, Inv
<1> QED
  BY <1>3, <1>4, <1>5

LEMMA WaitsSafe ==
    ASSUME LuvInv, NEW c \in Clients, WaitsBetween(c)
    PROVE  LuvInv'
<1>1. /\ adapter \in {"open", "notice", "stopped"} /\ timer \in {"off", "soon", "deadline"}
      /\ timed \subseteq Clients /\ reliable \in BOOLEAN /\ missed \in BOOLEAN /\ Inv
  BY DEF LuvInv, SleepsSafely, LuvTypeOK
<1>2. Inv'
  BY <1>1, KickInv DEF WaitsBetween
<1>3. pc' = "idle"
  BY DEF WaitsBetween, Kick, turn
<1>4. timed' \subseteq Clients /\ UNCHANGED <<reliable, missed>> /\ Hooked
  BY <1>1 DEF WaitsBetween
<1> QED
  BY <1>1, <1>2, <1>3, <1>4, AwakeSafe DEF Hooked

\* A deadline that passes was waited for, with the timer armed.
LEMMA DeadlineSafe ==
    ASSUME LuvInv, NEW c \in Clients, DeadlinePasses(c)
    PROVE  LuvInv'
<1>1. Inv'
  <2>1. Outside
    BY DEF DeadlinePasses, Outside
  <2> QED
    BY <2>1, WorldInv DEF LuvInv
<1>2. UNCHANGED <<d, pc, adapter, timer, reliable, missed>>
  BY DEF DeadlinePasses, Expire, turn
<1>3. c \in timed /\ timed' \subseteq Clients
  BY DEF DeadlinePasses, LuvInv, SleepsSafely, LuvTypeOK
<1> QED
  BY <1>1, <1>2, <1>3 DEF LuvInv, SleepsSafely, LuvTypeOK, Inv

LEMMA ElsewhereSafe ==
    ASSUME LuvInv, Elsewhere
    PROVE  LuvInv'
<1>1. Inv'
  <2>1. Outside
    BY DEF Elsewhere, Outside
  <2> QED
    BY <2>1, WorldInv DEF LuvInv
<1>2. UNCHANGED <<d, pc, expired, luv>>
  BY DEF Elsewhere, Arrive, Close, Foreign, OwnerLost, turn
<1> QED
  BY <1>1, <1>2, LeftSafe

LEMMA LuvNextInv == LuvInv /\ [LuvNext]_luvVars => LuvInv'
<1> SUFFICES ASSUME LuvInv, [LuvNext]_luvVars
             PROVE  LuvInv'
  OBVIOUS
<1>1. CASE TimerFires \/ PollFires \/ TurnGoesOn
  BY <1>1, TurnsSafe
<1>2. CASE Operates
  BY <1>2, OperatesSafe
<1>3. CASE FinishDriver \/ AdapterStops
  BY <1>3, DriverStopsSafe
<1>4. CASE PollFails \/ NoticeGiven \/ TransportFails \/ \E c \in Clients : WaitsInTurn(c)
  BY <1>4, AdapterSafe DEF PollFails, NoticeGiven, TransportFails, WaitsInTurn
<1>5. CASE \E c \in Clients : WaitsBetween(c) \/ DeadlinePasses(c)
  BY <1>5, WaitsSafe, DeadlineSafe
<1>6. CASE Elsewhere
  BY <1>6, ElsewhereSafe
<1>7. CASE UNCHANGED luvVars
  <2>1. Inv' /\ UNCHANGED <<d, pc, expired, luv>>
    BY <1>7, IdleInv DEF LuvInv, luvVars, vars, turn, world
  <2> QED
    BY <2>1, LeftSafe
<1> QED
  BY <1>1, <1>2, <1>3, <1>4, <1>5, <1>6, <1>7 DEF LuvNext

\* A luv host that sleeps without a timeout misses nothing: neither a stop, a
\* kick nor a deadline is pending, and the descriptor is there to wake it.
THEOREM Sleep == LuvSpec => []SleepsSafely
<1>1. LuvInv => SleepsSafely
  BY DEF LuvInv
<1> QED
  BY <1>1, LuvInitInv, LuvNextInv, PTL DEF LuvSpec

\* The adapter's own stops leave the driver in order too: clients are served in
\* registration order and a stall is reported once under it.
THEOREM UnderLuv == LuvSpec => [](OncePerEpisode /\ InOrder)
<1>1. LuvInv => OncePerEpisode /\ InOrder
  BY StallAssumption DEF LuvInv, Inv, Episode, OncePerEpisode, NextIsDue
<1> QED
  BY <1>1, LuvInitInv, LuvNextInv, PTL DEF LuvSpec
=============================================================================
