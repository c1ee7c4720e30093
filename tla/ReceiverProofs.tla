--------------------------- MODULE ReceiverProofs ---------------------------
(***************************************************************************)
(* The receiver runtime, whatever the number of VMs, clients, generations  *)
(* and updates: one reader at a time, demand that is served and counted    *)
(* exactly, and no wakeup lost.                                            *)
(***************************************************************************)
EXTENDS Receiver, FiniteSetTheorems, SequenceTheorems, TLAPS

Alive(g) == worker[g].pc \notin {"none", "exited"}

\* One generation is alive at most, the last that started, and not once it was
\* joined; one thread joins it; and a receiver that stops has no owner left.
OneGeneration ==
  /\ \A g \in 1..MaxGen : Alive(g) => g = gen /\ joinable
  /\ state = "Running" => joinable /\ ~stop /\ ~joining
  /\ state = "Stopped" => ~joinable /\ ~joining
  /\ state = "Stopping" => joinable /\ owners = {}
  /\ \A o \in Owners : thread[o].pc = "join" => joining
  /\ \A o, p \in Owners : thread[o].pc = "join" /\ thread[p].pc = "join" => o = p

\* A thread within a call on a client is that of the VM which holds the client.
Busy == {"poll", "receive", "sleep", "release", "send", "forget"}

Held(o, c) == Live(c) /\ entry[c].owner = o /\ ~entry[c].orphan

CallsHold ==
  /\ \A o \in Owners : thread[o].pc \in Busy =>
       thread[o].client \in Clients /\ Held(o, thread[o].client)
  /\ \A o \in Owners : thread[o].token => thread[o].pc \in {"receive", "sleep", "release"}
  /\ \A o \in Owners : thread[o].pc = "send" => thread[o].call \in {"raw", "managed", "close"}
  /\ \A c \in Clients : Live(c) /\ ~entry[c].orphan => entry[c].owner \in owners

\* The drivers and watches of a client are its registered leases.
Driven(c) == \E o \in Owners : thread[o].token /\ thread[o].client = c

LeasesExact ==
  \A c \in Clients :
    /\ entry[c].active_drivers = IF Driven(c) THEN 1 ELSE 0
    /\ entry[c].watch_demands = IF watch[c].token THEN 1 ELSE 0
    /\ watch[c].token => watch[c].lease

\* The terminal update is TDLib's, unless the receiver failed; the drain runs
\* only then.
TerminalKnown ==
  /\ \A g \in 1..MaxGen : worker[g].pc = "cleanup" => Failed
  /\ \A c \in Clients : entry[c].terminal => td[c].ended \/ Failed
  /\ \A g \in 1..MaxGen : worker[g].pc \in {"publish", "commit"} =>
       /\ worker[g].item.client \in Clients
       /\ worker[g].item.kind = "terminal" => td[worker[g].item.client].ended

Inv ==
  /\ TypeOK /\ OneGeneration /\ CallsHold /\ LeasesExact
  /\ TerminalHasNoDemand /\ TerminalKnown
  /\ DemandServed /\ SleepersJustified

-----------------------------------------------------------------------------
(***************************************************************************)
(* What the parts of a step do to an entry.                                *)
(***************************************************************************)

\* The entry e of a client whose terminal update was observed becomes x.
Ended(e, x) ==
  /\ x \in Entry /\ x.owner = e.owner /\ ~Demanded(x)
  /\ x.active_drivers = 0 /\ x.watch_demands = 0
  /\ IF e.orphan THEN x.st = "erased" /\ ~x.terminal
     ELSE x.st = e.st /\ ~x.orphan /\ x.terminal

\* The entry e of a client that its VM gives up becomes x.
Left(e, x) ==
  /\ x \in Entry /\ x.owner = e.owner /\ (Demanded(x) => Demanded(e))
  /\ x.active_drivers = 0 /\ x.watch_demands = 0
  /\ x.st \in {e.st, "erased"} /\ (x.orphan \/ x.st = "erased")
  /\ ~x.terminal /\ (x.st = "erased" => ~Demanded(x))

\* The entry e becomes x, with no other demand than it had.
Lessened(e, x) ==
  /\ x \in Entry /\ x.st = e.st /\ x.owner = e.owner /\ x.orphan = e.orphan
  /\ x.terminal = e.terminal /\ (Demanded(x) => Demanded(e))

\* The entry e becomes x, with demand of a kind that no lease counts.
Asked(e, x) ==
  /\ x \in Entry /\ x.st = e.st /\ x.owner = e.owner /\ x.orphan = e.orphan
  /\ x.terminal = e.terminal
  /\ x.active_drivers = e.active_drivers /\ x.watch_demands = e.watch_demands

\* A new entry, and the mark an erased one leaves.
LEMMA FreshFields ==
  ASSUME NEW st \in {"unknown", "live", "erased"}, NEW o \in Owners \cup {None}
  PROVE  /\ Fresh(st, o) \in Entry /\ Fresh(st, o).st = st /\ Fresh(st, o).owner = o
         /\ ~Fresh(st, o).terminal /\ ~Fresh(st, o).orphan /\ ~Demanded(Fresh(st, o))
         /\ Fresh(st, o).active_drivers = 0 /\ Fresh(st, o).watch_demands = 0
  BY DEF Fresh, Entry, Demanded

\* cleanupTerminal() and the commit of a terminal update.
LEMMA EndedFields ==
  ASSUME NEW e \in Entry, NEW x, x = Settled([ClearDemand(e) EXCEPT !.terminal = TRUE])
  PROVE  Ended(e, x)
<1>1. PICK d : d = [ClearDemand(e) EXCEPT !.terminal = TRUE]
  OBVIOUS
<1>2. /\ d \in Entry /\ d.owner = e.owner /\ d.st = e.st /\ d.orphan = e.orphan
      /\ d.terminal /\ ~Demanded(d) /\ d.active_drivers = 0 /\ d.watch_demands = 0
  BY <1>1 DEF ClearDemand, ClearDriver, Entry, Demanded
<1>3. CASE e.orphan
  <2>1. x = Fresh("erased", e.owner)
    BY <1>1, <1>2, <1>3 DEF Settled
  <2>2. e.owner \in Owners \cup {None}
    BY DEF Entry
  <2> QED
    BY <1>3, <2>1, <2>2, FreshFields DEF Ended
<1>4. CASE ~e.orphan
  <2>1. x = d
    BY <1>1, <1>2, <1>4 DEF Settled
  <2> QED
    BY <1>2, <1>4, <2>1 DEF Ended
<1> QED
  BY <1>3, <1>4

\* forget() and detachOwner().
LEMMA LeftFields ==
  ASSUME NEW e \in Entry, e.st = "live"
  PROVE  /\ \A x : x = Settled([(IF e.terminal THEN ClearDemand(e) ELSE ClearDriver(e))
                                  EXCEPT !.orphan = TRUE]) => Left(e, x)
         /\ \A keep \in BOOLEAN : Left(e, Detached(e, keep))
<1>1. ASSUME NEW d \in Entry, d.owner = e.owner, d.st = e.st, d.orphan,
             d.terminal = e.terminal, Demanded(d) => Demanded(e),
             d.active_drivers = 0, d.watch_demands = 0
      PROVE  Left(e, Settled(d))
  <2>1. CASE d.terminal
    <3>1. Settled(d) = Fresh("erased", e.owner)
      BY <1>1, <2>1 DEF Settled
    <3> QED
      BY <3>1 DEF Left, Fresh, Entry, Demanded
  <2>2. CASE ~d.terminal
    <3>1. Settled(d) = d
      BY <2>2 DEF Settled
    <3> QED
      BY <1>1, <2>2, <3>1 DEF Left
  <2> QED
    BY <2>1, <2>2
<1>2. PICK d : d = [(IF e.terminal THEN ClearDemand(e) ELSE ClearDriver(e)) EXCEPT !.orphan = TRUE]
  OBVIOUS
<1>3. Left(e, Settled(d))
  <2>1. CASE e.terminal
    BY <1>1, <1>2, <2>1 DEF ClearDemand, ClearDriver, Entry, Demanded
  <2>2. CASE ~e.terminal
    BY <1>1, <1>2, <2>2 DEF ClearDemand, ClearDriver, Entry, Demanded
  <2> QED
    BY <2>1, <2>2
<1>4. ASSUME NEW keep \in BOOLEAN PROVE Left(e, Detached(e, keep))
  <2>1. PICK g : g = [e EXCEPT !.orphan = TRUE]
    OBVIOUS
  <2>2. PICK k : k = [ClearDriver(g) EXCEPT !.pending_requests = {}]
    OBVIOUS
  <2>3. Left(e, Settled(k))
    BY <1>1, <2>1, <2>2 DEF ClearDriver, Entry, Demanded
  <2>4. Left(e, Settled(ClearDemand(g)))
    BY <1>1, <2>1 DEF ClearDemand, ClearDriver, Entry, Demanded
  <2>5. Detached(e, keep) = IF keep THEN Settled(k) ELSE Settled(ClearDemand(g))
    BY <2>1, <2>2 DEF Detached
  <2> QED
    BY <2>3, <2>4, <2>5
<1> QED
  BY <1>2, <1>3, <1>4

\* The entry of a client whose VM takes or releases a driver lease, or a watch.
LEMMA LeaseFields ==
  ASSUME NEW e \in Entry, NEW n \in Nat
  PROVE  /\ \A x : x = [e EXCEPT !.active_drivers = n] =>
              /\ x \in Entry /\ x.st = e.st /\ x.owner = e.owner /\ x.orphan = e.orphan
              /\ x.terminal = e.terminal /\ x.watch_demands = e.watch_demands
              /\ x.active_drivers = n /\ (n = 0 /\ Demanded(x) => Demanded(e))
         /\ \A x : x = [e EXCEPT !.watch_demands = n] =>
              /\ x \in Entry /\ x.st = e.st /\ x.owner = e.owner /\ x.orphan = e.orphan
              /\ x.terminal = e.terminal /\ x.active_drivers = e.active_drivers
              /\ x.watch_demands = n /\ (n = 0 /\ Demanded(x) => Demanded(e))
<1>1. ASSUME NEW x, x = [e EXCEPT !.active_drivers = n]
      PROVE  /\ x \in Entry /\ x.st = e.st /\ x.owner = e.owner /\ x.orphan = e.orphan
             /\ x.terminal = e.terminal /\ x.watch_demands = e.watch_demands
             /\ x.active_drivers = n /\ (n = 0 /\ Demanded(x) => Demanded(e))
  <2>1. x \in Entry
    BY <1>1 DEF Entry
  <2>2. /\ x.st = e.st /\ x.owner = e.owner /\ x.orphan = e.orphan
        /\ x.terminal = e.terminal /\ x.watch_demands = e.watch_demands
        /\ x.active_drivers = n
    BY <1>1 DEF Entry
  <2>3. n = 0 /\ Demanded(x) => Demanded(e)
    BY <1>1 DEF Entry, Demanded
  <2> QED
    BY <2>1, <2>2, <2>3
<1>2. ASSUME NEW x, x = [e EXCEPT !.watch_demands = n]
      PROVE  /\ x \in Entry /\ x.st = e.st /\ x.owner = e.owner /\ x.orphan = e.orphan
             /\ x.terminal = e.terminal /\ x.active_drivers = e.active_drivers
             /\ x.watch_demands = n /\ (n = 0 /\ Demanded(x) => Demanded(e))
  <2>1. x \in Entry
    BY <1>2 DEF Entry
  <2>2. /\ x.st = e.st /\ x.owner = e.owner /\ x.orphan = e.orphan
        /\ x.terminal = e.terminal /\ x.active_drivers = e.active_drivers
        /\ x.watch_demands = n
    BY <1>2 DEF Entry
  <2>3. n = 0 /\ Demanded(x) => Demanded(e)
    BY <1>2 DEF Entry, Demanded
  <2> QED
    BY <2>1, <2>2, <2>3
<1> QED
  BY <1>1, <1>2

\* The entry of a client whose one-shot is asked for, claimed or completed.
LEMMA ShotFields ==
  ASSUME NEW e \in Entry
  PROVE  /\ \A x : x = [e EXCEPT !.one_shot_pending = TRUE] => Asked(e, x)
         /\ \A x : e.one_shot_pending
                   /\ x = [e EXCEPT !.one_shot_pending = FALSE, !.one_shot_in_flight = TRUE]
              => Asked(e, x) /\ Demanded(e)
         /\ \A x : x = [e EXCEPT !.one_shot_in_flight = FALSE]
              => Asked(e, x) /\ (Demanded(x) => Demanded(e))
<1>1. ASSUME NEW x, x = [e EXCEPT !.one_shot_pending = TRUE] PROVE Asked(e, x)
  <2>1. x \in Entry
    BY <1>1 DEF Entry
  <2> QED
    BY <1>1, <2>1 DEF Entry, Asked
<1>2. ASSUME NEW x, e.one_shot_pending,
             x = [e EXCEPT !.one_shot_pending = FALSE, !.one_shot_in_flight = TRUE]
      PROVE  Asked(e, x) /\ Demanded(e)
  <2>1. x \in Entry
    BY <1>2 DEF Entry
  <2>2. Asked(e, x)
    BY <1>2, <2>1 DEF Entry, Asked
  <2> QED
    BY <1>2, <2>2 DEF Demanded
<1>3. ASSUME NEW x, x = [e EXCEPT !.one_shot_in_flight = FALSE]
      PROVE  Asked(e, x) /\ (Demanded(x) => Demanded(e))
  <2>1. x \in Entry
    BY <1>3 DEF Entry
  <2>2. Asked(e, x)
    BY <1>3, <2>1 DEF Entry, Asked
  <2>3. Demanded(x) => Demanded(e)
    BY <1>3 DEF Entry, Demanded
  <2> QED
    BY <2>2, <2>3
<1> QED
  BY <1>1, <1>2, <1>3

\* The entry of a client to which a request is admitted, and that of one whose
\* request was answered or not sent after all.
LEMMA RequestFields ==
  ASSUME NEW e \in Entry, NEW p \in SUBSET {"managed", "close"}, NEW n \in Nat
  PROVE  \A x : x = [e EXCEPT !.pending_requests = p, !.lifecycle_demands = n] =>
           /\ Asked(e, x)
           /\ p \subseteq e.pending_requests /\ n <= e.lifecycle_demands /\ Demanded(x)
                => Demanded(e)
<1> SUFFICES ASSUME NEW x, x = [e EXCEPT !.pending_requests = p, !.lifecycle_demands = n]
             PROVE  /\ Asked(e, x)
                    /\ p \subseteq e.pending_requests /\ n <= e.lifecycle_demands /\ Demanded(x)
                         => Demanded(e)
  OBVIOUS
<1>1. x \in Entry
  BY DEF Entry
<1>2. Asked(e, x)
  BY <1>1 DEF Entry, Asked
<1>3. /\ x.active_drivers = e.active_drivers /\ x.watch_demands = e.watch_demands
      /\ x.one_shot_pending = e.one_shot_pending /\ x.pending_requests = p
      /\ x.one_shot_in_flight = e.one_shot_in_flight /\ x.lifecycle_demands = n
  BY DEF Entry
<1>4. p \subseteq e.pending_requests /\ n <= e.lifecycle_demands /\ Demanded(x) => Demanded(e)
  <2>1. e.lifecycle_demands \in Nat
    BY DEF Entry
  <2>2. n <= e.lifecycle_demands /\ n # 0 => e.lifecycle_demands # 0
    BY <2>1
  <2> QED
    BY <1>3, <2>2 DEF Demanded
<1> QED
  BY <1>2, <1>4

\* The entry of a client to which a request is admitted, and that of one whose
\* request was not sent after all.
LEMMA SendFields ==
  ASSUME NEW e \in Entry, NEW kind
  PROVE  /\ kind \in {"raw", "managed", "close"} =>
              /\ Asked(e, Admitted(e, kind))
              /\ kind = "raw" /\ Demanded(Admitted(e, kind)) => Demanded(e)
         /\ Asked(e, Unsent(e, kind))
         /\ Demanded(Unsent(e, kind)) => Demanded(e)
<1>0. e.pending_requests \in SUBSET {"managed", "close"} /\ e.lifecycle_demands \in Nat
  BY DEF Entry
<1>1. ASSUME kind \in {"raw", "managed", "close"}
      PROVE  /\ Asked(e, Admitted(e, kind))
             /\ kind = "raw" /\ Demanded(Admitted(e, kind)) => Demanded(e)
  <2>1. PICK p, n : /\ p = IF kind = "raw" THEN e.pending_requests
                           ELSE e.pending_requests \cup {kind}
                    /\ n = IF kind = "close" THEN e.lifecycle_demands + 1
                           ELSE e.lifecycle_demands
    OBVIOUS
  <2>2. Admitted(e, kind) = [e EXCEPT !.pending_requests = p, !.lifecycle_demands = n]
    BY <2>1 DEF Admitted
  <2>3. p \in SUBSET {"managed", "close"} /\ n \in Nat
    BY <1>0, <1>1, <2>1
  <2>4. kind = "raw" => p \subseteq e.pending_requests /\ n <= e.lifecycle_demands
    BY <1>0, <2>1
  <2> QED
    BY <2>2, <2>3, <2>4, RequestFields
<1>2. Asked(e, Unsent(e, kind)) /\ (Demanded(Unsent(e, kind)) => Demanded(e))
  <2>1. PICK p, n : /\ p = e.pending_requests \ {kind}
                    /\ n = IF kind = "close" THEN Dec(e.lifecycle_demands)
                           ELSE e.lifecycle_demands
    OBVIOUS
  <2>2. Unsent(e, kind) = [e EXCEPT !.pending_requests = p, !.lifecycle_demands = n]
    BY <2>1 DEF Unsent
  <2>3. /\ p \in SUBSET {"managed", "close"} /\ n \in Nat
        /\ p \subseteq e.pending_requests /\ n <= e.lifecycle_demands
    BY <1>0, <2>1 DEF Dec
  <2> QED
    BY <2>2, <2>3, RequestFields
<1> QED
  BY <1>1, <1>2

-----------------------------------------------------------------------------
(***************************************************************************)
(* Generations of the worker.                                              *)
(***************************************************************************)

\* What startLocked() leaves: one generation, which runs.
Begun ==
  /\ ~Failed /\ state' = "Running" /\ ~stop' /\ ~joining /\ joinable'
  /\ stop' \in BOOLEAN /\ joinable' \in BOOLEAN /\ gen' \in 0..MaxGen
  /\ worker' \in [1..MaxGen -> Generation]
  /\ \A g \in 1..MaxGen : worker'[g].pc \notin {"none", "exited"} => g = gen'
  /\ \A g \in 1..MaxGen : worker'[g].pc \in {"publish", "commit", "cleanup"}
                             => worker'[g] = worker[g]

LEMMA Started == ASSUME TypeOK, OneGeneration, StartLocked PROVE Begun
<1>1. CASE state = "Running"
  BY <1>1 DEF StartLocked, life, TypeOK, OneGeneration, Alive, Failed, Begun
<1>2. CASE state # "Running"
  <2>1. /\ ~Failed /\ ~joinable /\ ~joining /\ gen < MaxGen /\ gen' = gen + 1 /\ joinable'
        /\ worker' = [worker EXCEPT ![gen + 1].pc = "loop"]
        /\ state' = "Running" /\ stop' = FALSE /\ joinable' = TRUE
    BY <1>2 DEF StartLocked
  <2>2. gen + 1 \in 1..MaxGen
    BY <2>1, MaxGenNat DEF TypeOK
  <2>3. \A g \in 1..MaxGen : worker[g].pc \in {"none", "exited"}
    BY <2>1 DEF OneGeneration, Alive
  <2>4. /\ worker' \in [1..MaxGen -> Generation]
        /\ worker'[gen + 1].pc = "loop"
        /\ \A g \in 1..MaxGen : g # gen + 1 => worker'[g] = worker[g]
    BY <2>1, <2>2 DEF TypeOK, Generation, WorkerPc
  <2> QED
    <3>1. \A g \in 1..MaxGen : worker'[g].pc \notin {"none", "exited"} => g = gen'
      BY <2>1, <2>3, <2>4
    <3>2. \A g \in 1..MaxGen : worker'[g].pc \in {"publish", "commit", "cleanup"}
                                   => worker'[g] = worker[g]
      BY <2>4
    <3>3. gen' \in 0..MaxGen
      BY <2>1, <2>2, MaxGenNat
    <3>4. stop' \in BOOLEAN /\ joinable' \in BOOLEAN
      BY <2>1
    <3> QED
      BY <2>1, <2>4, <3>1, <3>2, <3>3, <3>4 DEF Begun
<1> QED
  BY <1>1, <1>2

-----------------------------------------------------------------------------
(***************************************************************************)
(* Leases.                                                                 *)
(***************************************************************************)

\* The leases and what counts them are as before.
SameLeases ==
  /\ \A c \in Clients : /\ entry'[c].active_drivers = entry[c].active_drivers
                        /\ entry'[c].watch_demands = entry[c].watch_demands
                        /\ watch'[c] = watch[c]
  /\ \A o \in Owners : /\ thread'[o].token <=> thread[o].token
                       /\ thread[o].token => thread'[o].client = thread[o].client

LEMMA LeasesStay == ASSUME Inv, SameLeases PROVE LeasesExact'
<1>1. ASSUME NEW c \in Clients PROVE Driven(c)' <=> Driven(c)
  BY DEF SameLeases, Driven
<1> QED
  BY <1>1 DEF SameLeases, Inv, LeasesExact

\* The drivers and the watch of some clients are dropped together.
LEMMA LeasesDropped ==
  ASSUME Inv, NEW cs \in SUBSET Clients,
         \A c \in Clients \ cs : /\ entry'[c].active_drivers = entry[c].active_drivers
                                 /\ entry'[c].watch_demands = entry[c].watch_demands
                                 /\ watch'[c] = watch[c],
         \A c \in cs : /\ entry'[c].active_drivers = 0 /\ entry'[c].watch_demands = 0
                       /\ ~watch'[c].token,
         \A o \in Owners : thread'[o].token => thread[o].token /\ thread'[o].client \notin cs,
         \A o \in Owners : thread[o].token =>
           thread[o].client \in cs \/ thread'[o].token,
         \A o \in Owners : thread[o].token => thread'[o].client = thread[o].client
  PROVE  LeasesExact'
<1>1. ASSUME NEW c \in cs PROVE ~Driven(c)'
  BY DEF Driven
<1>2. ASSUME NEW c \in Clients \ cs PROVE Driven(c)' <=> Driven(c)
  BY DEF Driven
<1> QED
  BY <1>1, <1>2 DEF Inv, LeasesExact

-----------------------------------------------------------------------------
(***************************************************************************)
(* Steps that touch one thread, client or generation.                      *)
(***************************************************************************)
OnlyThread(o) == \A p \in Owners : p # o => thread'[p] = thread[p]

OnlyEntry(c) == \A d \in Clients : d # c => entry'[d] = entry[d]

OnlyBox(c) == \A d \in Clients : d # c => box'[d] = box[d]

OnlyWorker(g) == \A h \in 1..MaxGen : h # g => worker'[h] = worker[h]

OnlyTd(c) == \A d \in Clients : d # c => td'[d] = td[d]

\* An entry that becomes x, and no other.
LEMMA EntryBecomes ==
  ASSUME TypeOK, NEW c \in Clients, NEW x \in Entry, entry' = [entry EXCEPT ![c] = x]
  PROVE  entry' \in [Clients -> Entry] /\ entry'[c] = x /\ OnlyEntry(c)
  BY DEF TypeOK, OnlyEntry

\* A thread that is back between two calls, or begins one on a client.
LEMMA ReadyFields ==
  ASSUME NEW pc \in OwnerPc
  PROVE  /\ Ready(pc) \in Thread /\ Ready(pc).pc = pc /\ ~Ready(pc).token
         /\ Ready(pc).client = None
  BY DEF Ready, Thread, OwnerPc

LEMMA ThreadBecomes ==
  ASSUME TypeOK, NEW o \in Owners, NEW t \in Thread, thread' = [thread EXCEPT ![o] = t]
  PROVE  thread' \in [Owners -> Thread] /\ thread'[o] = t /\ OnlyThread(o)
  BY DEF TypeOK, OnlyThread

\* A thread that only moves on within its call.
LEMMA ThreadMoves ==
  ASSUME TypeOK, NEW o \in Owners, NEW pc \in OwnerPc,
         thread' = [thread EXCEPT ![o].pc = pc]
  PROVE  /\ thread' \in [Owners -> Thread] /\ OnlyThread(o) /\ thread'[o].pc = pc
         /\ thread'[o].token = thread[o].token /\ thread'[o].client = thread[o].client
         /\ thread'[o].call = thread[o].call
  BY DEF TypeOK, OnlyThread, Thread

\* The thread of a VM that sleeps on a mailbox of cs is woken, one that holds a
\* driver of a client of ds loses it, and nobody else is affected.
LEMMA WokenFields ==
  ASSUME TypeOK, NEW cs, NEW ds,
         thread' = [o \in Owners |-> DropLease(Woken(thread[o], cs), ds)]
  PROVE  /\ thread' \in [Owners -> Thread]
         /\ \A o \in Owners :
              /\ thread'[o].pc = IF thread[o].pc = "sleep" /\ thread[o].client \in cs
                                 THEN "receive" ELSE thread[o].pc
              /\ thread'[o].client = thread[o].client /\ thread'[o].call = thread[o].call
              /\ thread'[o].token <=> thread[o].token /\ thread[o].client \notin ds
<1>1. ASSUME NEW o \in Owners, NEW t \in Thread, NEW w, w = Woken(t, cs)
      PROVE  /\ w \in Thread
             /\ w.pc = IF t.pc = "sleep" /\ t.client \in cs THEN "receive" ELSE t.pc
             /\ w.client = t.client /\ w.call = t.call /\ w.token = t.token
  <2>1. CASE t.pc = "sleep" /\ t.client \in cs
    <3>1. w = [t EXCEPT !.pc = "receive"]
      BY <1>1, <2>1 DEF Woken
    <3>2. w \in Thread
      BY <3>1 DEF Thread, OwnerPc
    <3> QED
      BY <2>1, <3>1, <3>2 DEF Thread
  <2>2. CASE ~(t.pc = "sleep" /\ t.client \in cs)
    BY <1>1, <2>2 DEF Woken
  <2> QED
    BY <2>1, <2>2
<1>2. ASSUME NEW t \in Thread, NEW d, d = DropLease(t, ds)
      PROVE  /\ d \in Thread /\ d.pc = t.pc /\ d.client = t.client /\ d.call = t.call
             /\ d.token <=> t.token /\ t.client \notin ds
  <2>1. CASE t.client \in ds
    <3>1. d = [t EXCEPT !.token = FALSE]
      BY <1>2, <2>1 DEF DropLease
    <3>2. d \in Thread
      BY <3>1 DEF Thread
    <3>3. ~d.token
      BY <3>1 DEF Thread
    <3> QED
      BY <2>1, <3>1, <3>2, <3>3 DEF Thread
  <2>2. CASE t.client \notin ds
    BY <1>2, <2>2 DEF DropLease
  <2> QED
    BY <2>1, <2>2
<1>3. ASSUME NEW o \in Owners
      PROVE  /\ thread'[o] \in Thread
             /\ thread'[o].pc = IF thread[o].pc = "sleep" /\ thread[o].client \in cs
                                THEN "receive" ELSE thread[o].pc
             /\ thread'[o].client = thread[o].client /\ thread'[o].call = thread[o].call
             /\ thread'[o].token <=> thread[o].token /\ thread[o].client \notin ds
  <2>1. PICK w : w = Woken(thread[o], cs)
    OBVIOUS
  <2>2. thread'[o] = DropLease(w, ds) /\ thread[o] \in Thread
    BY <2>1 DEF TypeOK
  <2>3. /\ w \in Thread
        /\ w.pc = IF thread[o].pc = "sleep" /\ thread[o].client \in cs
                  THEN "receive" ELSE thread[o].pc
        /\ w.client = thread[o].client /\ w.call = thread[o].call
        /\ w.token = thread[o].token
    BY <1>1, <2>1, <2>2
  <2>4. /\ thread'[o] \in Thread /\ thread'[o].pc = w.pc /\ thread'[o].client = w.client
        /\ thread'[o].call = w.call /\ (thread'[o].token <=> w.token /\ w.client \notin ds)
    BY <1>2, <2>2, <2>3
  <2> QED
    BY <2>3, <2>4
<1>4. thread' \in [Owners -> Thread]
  <2>1. \A o \in Owners : thread'[o] \in Thread
    BY <1>3
  <2> QED
    BY <2>1
<1> QED
  BY <1>3, <1>4

\* A mailbox, and the others as they were.
LEMMA BoxBecomes ==
  ASSUME TypeOK, NEW c \in Clients, NEW b \in Box, box' = [box EXCEPT ![c] = b]
  PROVE  box' \in [Clients -> Box] /\ box'[c] = b /\ OnlyBox(c)
  BY DEF TypeOK, OnlyBox


\* TDLib is known to have ended a client.
LEMMA TdEnds ==
  ASSUME TypeOK, NEW c \in Clients, td' = [td EXCEPT ![c].ended = TRUE]
  PROVE  /\ td' \in [Clients -> Tdlib] /\ td'[c].ended
         /\ \A d \in Clients : td[d].ended => td'[d].ended
<1>1. td \in [Clients -> Tdlib] /\ td[c] \in Tdlib
  BY DEF TypeOK
<1>2. PICK t : t = [td[c] EXCEPT !.ended = TRUE]
  OBVIOUS
<1>3. t \in Tdlib /\ t.ended
  BY <1>1, <1>2 DEF Tdlib
<1>4. td' = [td EXCEPT ![c] = t]
  BY <1>1, <1>2
<1> QED
  BY <1>1, <1>3, <1>4

\* TDLib's part of a client becomes t.
LEMMA TdBecomes ==
  ASSUME TypeOK, NEW c \in Clients, NEW t \in Tdlib, td' = [td EXCEPT ![c] = t]
  PROVE  /\ td' \in [Clients -> Tdlib] /\ td'[c] = t
         /\ \A d \in Clients : d # c => td'[d] = td[d]
  BY DEF TypeOK

\* The queue of a mailbox changes.
LEMMA QueueFields ==
  ASSUME NEW b \in Box, NEW q \in Seq(Kinds), NEW x, x = [b EXCEPT !.queue = q]
  PROVE  x \in Box /\ x.failed = b.failed /\ x.terminal = b.terminal
  BY DEF Box

\* An item is published in a mailbox; a mailbox ends, fails or is abandoned.
LEMMA BoxFields ==
  ASSUME NEW b \in Box
  PROVE  /\ \A kind \in Kinds : \A x : x = Publish(b, kind) => x \in Box /\ x.failed = b.failed
         /\ \A t \in BOOLEAN : \A x : x = [b EXCEPT !.terminal = t]
                                  => x \in Box /\ x.failed = b.failed
         /\ \A x : x = [b EXCEPT !.failed = TRUE] => x \in Box /\ x.failed
         /\ \A x : x = Abandon(b) => x \in Box /\ x.failed = b.failed
<1>1. ASSUME NEW kind \in Kinds, NEW x, x = Publish(b, kind)
      PROVE  x \in Box /\ x.failed = b.failed
  <2>1. CASE b.orphan
    BY <1>1, <2>1 DEF Publish
  <2>2. CASE ~b.orphan
    <3>1. PICK q : q = Append(b.queue, kind)
      OBVIOUS
    <3>2. q \in Seq(Kinds)
      BY <3>1 DEF Box
    <3>3. x = [b EXCEPT !.queue = q]
      BY <1>1, <2>2, <3>1 DEF Publish
    <3> QED
      BY <3>2, <3>3, QueueFields
  <2> QED
    BY <2>1, <2>2
<1>2. \A t \in BOOLEAN : \A x : x = [b EXCEPT !.terminal = t] => x \in Box /\ x.failed = b.failed
  BY DEF Box
<1>3. \A x : x = [b EXCEPT !.failed = TRUE] => x \in Box /\ x.failed
  BY DEF Box
<1>4. \A x : x = Abandon(b) => x \in Box /\ x.failed = b.failed
  <2>1. <<>> \in Seq(Kinds)
    BY EmptySeq, Zenon
  <2> SUFFICES ASSUME NEW x, x = Abandon(b) PROVE x \in Box /\ x.failed = b.failed
    OBVIOUS
  <2>2. x.failed = b.failed
    BY DEF Abandon, Box
  <2>3. x \in Box
    BY <2>1 DEF Abandon, Box
  <2> QED
    BY <2>2, <2>3
<1> QED
  BY <1>1, <1>2, <1>3, <1>4

\* The watches of some clients lose their tokens.
LEMMA WatchFields ==
  ASSUME TypeOK, NEW cs, DropWatch(cs)
  PROVE  /\ watch' \in [Clients -> Watch]
         /\ \A c \in Clients : c \notin cs => watch'[c] = watch[c]
         /\ \A c \in Clients : c \in cs => ~watch'[c].token
         /\ \A c \in Clients : watch'[c].lease = watch[c].lease
<1>1. ASSUME NEW c \in Clients
      PROVE  /\ watch'[c] \in Watch /\ (c \notin cs => watch'[c] = watch[c])
             /\ (c \in cs => ~watch'[c].token) /\ watch'[c].lease = watch[c].lease
  <2>1. CASE c \in cs
    <3>1. watch'[c] = [watch[c] EXCEPT !.token = FALSE]
      BY <2>1 DEF DropWatch
    <3>0. watch[c] \in Watch
      BY DEF TypeOK
    <3>2. watch'[c] \in Watch /\ watch'[c].lease = watch[c].lease
      BY <3>0, <3>1 DEF Watch
    <3>3. ~watch'[c].token
      BY <3>1 DEF TypeOK, Watch
    <3> QED
      BY <2>1, <3>2, <3>3
  <2>2. CASE c \notin cs
    BY <2>2 DEF DropWatch, TypeOK
  <2> QED
    BY <2>1, <2>2
<1>2. watch' = [c \in Clients |-> watch'[c]]
  BY DEF DropWatch
<1> QED
  BY <1>1, <1>2

\* Nothing stops, is joined, attaches or detaches, and at most a generation starts.
LEMMA GenerationStays ==
  ASSUME Inv, UNCHANGED <<owners, joining>>,
         \A o \in Owners : thread'[o].pc = "join" => thread[o].pc = "join",
         \/ Begun
         \/ UNCHANGED life /\ \A g \in 1..MaxGen : Alive(g)' => Alive(g)
  PROVE  OneGeneration'
<1>1. CASE Begun
  <2>1. \A g \in 1..MaxGen : Alive(g)' => g = gen' /\ joinable'
    BY <1>1 DEF Begun, Alive
  <2>2. \A o \in Owners : thread'[o].pc # "join"
    BY <1>1 DEF Begun, Inv, OneGeneration
  <2> QED
    BY <1>1, <2>1, <2>2 DEF Begun, OneGeneration
<1>2. CASE UNCHANGED life /\ \A g \in 1..MaxGen : Alive(g)' => Alive(g)
  BY <1>2 DEF Inv, OneGeneration, life
<1> QED
  BY <1>1, <1>2

-----------------------------------------------------------------------------
(***************************************************************************)
(* The calls of the VMs.                                                   *)
(***************************************************************************)

\* A VM attaches, and creates clients.
LEMMA AttachInv ==
  ASSUME Inv, \E o \in Owners : AttachOwner(o) \/ \E c \in Clients : CreateClient(o, c)
  PROVE  Inv'
<1>1. ASSUME NEW o \in Owners, AttachOwner(o) PROVE Inv'
  <2>1. /\ thread' \in [Owners -> Thread] /\ OnlyThread(o)
        /\ thread'[o].pc \in {"reap", "join", "idle"} /\ ~thread'[o].token
    <3>1. PICK pc \in {"reap", "join", "idle"} :
            \/ thread' = [thread EXCEPT ![o].pc = pc, ![o].call = "attach"] /\ (pc = "reap" \/ pc = "join")
            \/ thread' = [thread EXCEPT ![o] = Ready(pc)]
      BY <1>1 DEF AttachOwner, ReapWaits, ReapJoins
    <3>2. ~thread[o].token /\ pc \in OwnerPc
      BY <1>1 DEF AttachOwner, Inv, CallsHold, OwnerPc
    <3>3. CASE thread' = [thread EXCEPT ![o] = Ready(pc)]
      BY <3>1, <3>2, <3>3, ReadyFields, ThreadBecomes DEF Inv
    <3>4. CASE thread' = [thread EXCEPT ![o].pc = pc, ![o].call = "attach"]
      BY <3>1, <3>2, <3>4 DEF Inv, TypeOK, Thread, OnlyThread
    <3> QED
      BY <3>1, <3>3, <3>4
  <2>2. /\ UNCHANGED <<entry, box, life, worker, watch, td>>
        /\ owners' \in {owners, owners \cup {o}} /\ ~thread[o].token
    BY <1>1 DEF AttachOwner, Inv, CallsHold
  <2>3. \/ thread'[o].pc = "reap" /\ joining /\ joining' /\ owners' = owners /\ parked' = parked \cup {o}
        \/ /\ thread'[o].pc = "join" /\ ~joining /\ joining' /\ joinable
           /\ owners' = owners /\ parked' = parked /\ state \in {"Stopping", "Failed"}
        \/ /\ thread'[o].pc = "idle" /\ ~joining /\ ~joining' /\ state # "Stopping"
           /\ owners' = owners \cup {o} /\ parked' = parked
    BY <1>1, ReadyFields
    DEF AttachOwner, ReapWaits, ReapJoins, ReapPasses, Inv, TypeOK, OneGeneration,
        OwnerPc, Thread
  <2>4. joining' \in BOOLEAN /\ joinable' \in BOOLEAN
    BY <1>1 DEF AttachOwner, ReapWaits, ReapJoins, Inv, TypeOK, life
  <2>5. TypeOK'
    <3>1. parked' \subseteq Owners \cup {"worker"}
      BY <2>1, <2>2, <2>3, <2>4 DEF Begun, Inv, TypeOK, Notify
    <3>2. stop' \in BOOLEAN
      BY <2>1, <2>2, <2>3, <2>4 DEF Begun, Inv, TypeOK, life
    <3>3. joining' \in BOOLEAN
      BY <2>1, <2>2, <2>3, <2>4 DEF Begun, Inv, TypeOK, life
    <3>4. joinable' \in BOOLEAN
      BY <2>1, <2>2, <2>3, <2>4 DEF Begun, Inv, TypeOK, life
    <3> QED
      BY <3>1, <3>3, <2>1, <2>2 DEF Inv, TypeOK, life
  <2>6. OneGeneration'
    BY <2>1, <2>2, <2>3 DEF Inv, OneGeneration, Alive, life, OnlyThread
  <2>7. CallsHold'
    BY <2>1, <2>2 DEF Inv, CallsHold, Busy, Held, Live, OnlyThread
  <2>8. LeasesExact'
    <3>1. SameLeases
      BY <2>1, <2>2 DEF SameLeases, OnlyThread
    <3> QED
      BY <3>1, LeasesStay
  <2>9. TerminalHasNoDemand'
    BY <2>2 DEF Inv, TerminalHasNoDemand
  <2>10. TerminalKnown'
    BY <2>2 DEF Inv, TerminalKnown, Failed, life
  <2>11. DemandServed'
    BY <2>2 DEF Inv, DemandServed, Live, Failed, life
  <2>12. SleepersJustified'
    BY <2>1, <2>2, <2>3, WorkerAssumption
    DEF Inv, SleepersJustified, Demand, Live, life, OnlyThread
  <2> QED
    BY <2>5, <2>6, <2>7, <2>8, <2>9, <2>10, <2>11, <2>12 DEF Inv
<1>2. ASSUME NEW o \in Owners, NEW c \in Clients, CreateClient(o, c) PROVE Inv'
  <2>1. PICK x : x = Fresh("live", o) /\ entry' = [entry EXCEPT ![c] = x]
    BY <1>2 DEF CreateClient
  <2>2. /\ x \in Entry /\ x.st = "live" /\ x.owner = o /\ ~x.terminal /\ ~x.orphan
        /\ ~Demanded(x) /\ x.active_drivers = 0 /\ x.watch_demands = 0
    BY <2>1, FreshFields
  <2>3. /\ entry' \in [Clients -> Entry] /\ entry'[c] = x /\ OnlyEntry(c)
    BY <2>1, <2>2, EntryBecomes DEF Inv
  <2>4. /\ ~Failed /\ entry[c].st = "unknown" /\ o \in owners /\ ~Demanded(entry[c])
        /\ UNCHANGED <<box, owners, life, joining, worker, parked, thread, watch, td>>
    BY <1>2 DEF CreateClient, Inv, TerminalHasNoDemand
  <2>5. entry[c].active_drivers = 0 /\ entry[c].watch_demands = 0
    BY <2>4 DEF Demanded
  <2>6. TypeOK'
    <3>1. parked' \subseteq Owners \cup {"worker"}
      BY <2>1, <2>2, <2>3, <2>4, <2>5 DEF Begun, Inv, TypeOK, Notify
    <3>2. stop' \in BOOLEAN
      BY <2>1, <2>2, <2>3, <2>4, <2>5 DEF Begun, Inv, TypeOK, life
    <3>3. joining' \in BOOLEAN
      BY <2>1, <2>2, <2>3, <2>4, <2>5 DEF Begun, Inv, TypeOK, life
    <3>4. joinable' \in BOOLEAN
      BY <2>1, <2>2, <2>3, <2>4, <2>5 DEF Begun, Inv, TypeOK, life
    <3> QED
      BY <2>1, <2>2, <2>4 DEF Inv, TypeOK, life
  <2>7. OneGeneration'
    BY <2>4 DEF Inv, OneGeneration, Alive, life
  <2>8. CallsHold'
    BY <2>1, <2>2, <2>4 DEF Inv, CallsHold, Held, Live
  <2>9. LeasesExact'
    <3>1. SameLeases
      BY <2>1, <2>2, <2>4, <2>5 DEF SameLeases
    <3> QED
      BY <3>1, LeasesStay
  <2>10. TerminalHasNoDemand'
    BY <2>1, <2>2 DEF Inv, TerminalHasNoDemand
  <2>11. TerminalKnown'
    BY <2>1, <2>2, <2>4 DEF Inv, TerminalKnown
  <2>12. DemandServed'
    BY <2>1, <2>2, <2>4 DEF Inv, DemandServed, Live, Failed, life
  <2>13. SleepersJustified'
    BY <2>1, <2>2, <2>4 DEF Inv, SleepersJustified, Demand, Live, life
  <2> QED
    BY <2>6, <2>7, <2>8, <2>9, <2>10, <2>11, <2>12, <2>13 DEF Inv
<1> QED
  BY <1>1, <1>2

\* A coordinator goes on in reapLocked().
LEMMA ReapInv ==
  ASSUME Inv, \E o \in Owners : ReapResume(o) \/ ReapJoined(o)
  PROVE  Inv'
<1>1. ASSUME NEW o \in Owners, ReapResume(o) PROVE Inv'
  <2>1. /\ thread' \in [Owners -> Thread] /\ OnlyThread(o)
        /\ thread'[o].pc \in {"reap", "join", "idle", "new", "gone"} /\ ~thread'[o].token
    <3>1. PICK pc \in {"reap", "join", "idle", "new", "gone"} :
            \/ thread' = [thread EXCEPT ![o].pc = pc, ![o].call = thread[o].call] /\ (pc = "reap" \/ pc = "join")
            \/ thread' = [thread EXCEPT ![o] = Ready(pc)]
      BY <1>1 DEF ReapResume, ReapWaits, ReapJoins, Return
    <3>2. ~thread[o].token /\ pc \in OwnerPc
      BY <1>1 DEF ReapResume, Inv, CallsHold, OwnerPc
    <3>3. CASE thread' = [thread EXCEPT ![o] = Ready(pc)]
      BY <3>1, <3>2, <3>3, ReadyFields, ThreadBecomes DEF Inv
    <3>4. CASE thread' = [thread EXCEPT ![o].pc = pc, ![o].call = thread[o].call]
      BY <3>1, <3>2, <3>4 DEF Inv, TypeOK, Thread, OnlyThread
    <3> QED
      BY <3>1, <3>3, <3>4
  <2>2. /\ UNCHANGED <<entry, box, life, worker, watch, td>>
        /\ owners' \in {owners, owners \cup {o}} /\ ~thread[o].token
    BY <1>1 DEF ReapResume, Return, Inv, CallsHold
  <2>3. \/ thread'[o].pc = "reap" /\ joining /\ joining' /\ owners' = owners /\ parked' = parked \cup {o}
        \/ /\ thread'[o].pc = "join" /\ ~joining /\ joining' /\ joinable
           /\ owners' = owners /\ parked' = parked /\ state \in {"Stopping", "Failed"}
        \/ /\ thread'[o].pc \in {"idle", "new", "gone"} /\ ~joining /\ ~joining' /\ state # "Stopping"
           /\ parked' = parked /\ (thread'[o].pc # "idle" => owners' = owners)
    BY <1>1, ReadyFields
    DEF ReapResume, ReapWaits, ReapJoins, ReapPasses, Return, Inv, TypeOK,
        OneGeneration, OwnerPc, Thread
  <2>4. joining' \in BOOLEAN /\ joinable' \in BOOLEAN
    BY <1>1 DEF ReapResume, ReapWaits, ReapJoins, Inv, TypeOK, life
  <2>5. TypeOK'
    <3>1. parked' \subseteq Owners \cup {"worker"}
      BY <2>1, <2>2, <2>3, <2>4 DEF Begun, Inv, TypeOK, Notify
    <3>2. stop' \in BOOLEAN
      BY <2>1, <2>2, <2>3, <2>4 DEF Begun, Inv, TypeOK, life
    <3>3. joining' \in BOOLEAN
      BY <2>1, <2>2, <2>3, <2>4 DEF Begun, Inv, TypeOK, life
    <3>4. joinable' \in BOOLEAN
      BY <2>1, <2>2, <2>3, <2>4 DEF Begun, Inv, TypeOK, life
    <3> QED
      BY <3>1, <3>3, <2>1, <2>2 DEF Inv, TypeOK, life
  <2>6. OneGeneration'
    BY <2>1, <2>2, <2>3 DEF Inv, OneGeneration, Alive, life, OnlyThread
  <2>7. CallsHold'
    BY <2>1, <2>2 DEF Inv, CallsHold, Busy, Held, Live, OnlyThread
  <2>8. LeasesExact'
    <3>1. SameLeases
      BY <2>1, <2>2 DEF SameLeases, OnlyThread
    <3> QED
      BY <3>1, LeasesStay
  <2>9. TerminalHasNoDemand'
    BY <2>2 DEF Inv, TerminalHasNoDemand
  <2>10. TerminalKnown'
    BY <2>2 DEF Inv, TerminalKnown, Failed, life
  <2>11. DemandServed'
    BY <2>2 DEF Inv, DemandServed, Live, Failed, life
  <2>12. SleepersJustified'
    BY <2>1, <2>2, <2>3, WorkerAssumption
    DEF Inv, SleepersJustified, Demand, Live, life, OnlyThread
  <2> QED
    BY <2>5, <2>6, <2>7, <2>8, <2>9, <2>10, <2>11, <2>12 DEF Inv
<1>2. ASSUME NEW o \in Owners, ReapJoined(o) PROVE Inv'
  <2>1. /\ thread' \in [Owners -> Thread] /\ OnlyThread(o)
        /\ thread'[o].pc \in {"idle", "new", "gone"} /\ ~thread'[o].token
    BY <1>2, ReadyFields DEF ReapJoined, Return, Inv, CallsHold, TypeOK, Thread, OwnerPc,
      OnlyThread
  <2>2. /\ UNCHANGED <<entry, box, stop, gen, worker, watch, td>> /\ parked' = {}
        /\ owners' \in {owners, owners \cup {o}} /\ ~thread[o].token /\ thread[o].pc = "join"
        /\ worker[gen].pc = "exited" /\ ~joining' /\ ~joinable'
        /\ state' = IF Failed THEN "Failed" ELSE "Stopped"
    BY <1>2 DEF ReapJoined, Return, Notify, Inv, CallsHold
  <2>3. joining' \in BOOLEAN /\ joinable' \in BOOLEAN /\ stop' \in BOOLEAN
    BY <1>2 DEF ReapJoined, Inv, TypeOK
  <2>4. TypeOK'
    <3>1. parked' \subseteq Owners \cup {"worker"}
      BY <2>1, <2>2, <2>3 DEF Begun, Inv, TypeOK, Notify
    <3>2. stop' \in BOOLEAN
      BY <2>1, <2>2, <2>3 DEF Begun, Inv, TypeOK, life
    <3>3. joining' \in BOOLEAN
      BY <2>1, <2>2, <2>3 DEF Begun, Inv, TypeOK, life
    <3>4. joinable' \in BOOLEAN
      BY <2>1, <2>2, <2>3 DEF Begun, Inv, TypeOK, life
    <3> QED
      BY <3>1, <3>2, <3>3, <3>4, <2>1, <2>2, <2>3 DEF Begun, Inv, TypeOK, life, Notify, Asked
  <2>5. OneGeneration'
    BY <2>1, <2>2 DEF Inv, OneGeneration, Alive, OnlyThread
  <2>6. CallsHold'
    BY <2>1, <2>2 DEF Inv, CallsHold, Busy, Held, Live, OnlyThread
  <2>7. LeasesExact'
    <3>1. SameLeases
      BY <2>1, <2>2 DEF SameLeases, OnlyThread
    <3> QED
      BY <3>1, LeasesStay
  <2>8. TerminalHasNoDemand'
    BY <2>2 DEF Inv, TerminalHasNoDemand
  <2>9. TerminalKnown'
    BY <2>2 DEF Inv, TerminalKnown, Failed
  <2>10. DemandServed'
    BY <2>2 DEF Inv, DemandServed, OneGeneration, Live, Failed
  <2>11. SleepersJustified'
    BY <2>1, <2>2 DEF Inv, SleepersJustified, OnlyThread
  <2> QED
    BY <2>4, <2>5, <2>6, <2>7, <2>8, <2>9, <2>10, <2>11 DEF Inv
<1> QED
  BY <1>1, <1>2

\* Demand that startLocked() serves.
LEMMA AskInv ==
  ASSUME Inv, \E o \in Owners : \/ RequestOneShot(o)
           \/ \E c \in Clients : \/ AcquireDriver(o, c) \/ AcquireWatch(o, c)
                                  \/ \E kind \in Sends : AdmitSend(o, c, kind)
  PROVE  Inv'
<1>1. ASSUME NEW o \in Owners, NEW c \in Clients, NEW kind \in Sends, AdmitSend(o, c, kind)
      PROVE  Inv'
  <2>1. /\ Live(c) /\ entry[c].owner = o /\ ~entry[c].orphan /\ thread[o].pc = "idle"
        /\ ~thread[o].token
    BY <1>1 DEF AdmitSend, Holds, Idle, Inv, CallsHold
  <2>2. ~entry[c].terminal /\ ~Failed
    BY <1>1, <2>1 DEF AdmitSend, Inv, TerminalKnown
  <2>3. /\ UNCHANGED <<box, owners, joining, watch>> /\ parked' = {}
        /\ (kind = "raw" /\ UNCHANGED <<life, worker>>) \/ Begun
    BY <1>1, Started DEF AdmitSend, Notify, Inv
  <2>4. PICK x \in Entry : /\ entry' = [entry EXCEPT ![c] = x] /\ Asked(entry[c], x)
                           /\ kind = "raw" /\ Demanded(x) => Demanded(entry[c])
    <3>1. entry[c] \in Entry
      BY DEF Inv, TypeOK
    <3>2. entry' = [entry EXCEPT ![c] = Admitted(entry[c], kind)]
      BY <1>1 DEF AdmitSend
    <3> QED
      BY <3>1, <3>2, SendFields, SendsAssumption DEF Asked
  <2>5. /\ entry' \in [Clients -> Entry] /\ entry'[c] = x /\ OnlyEntry(c)
    BY <2>4, EntryBecomes DEF Inv, Asked
  <2>6. /\ thread' \in [Owners -> Thread] /\ OnlyThread(o)
        /\ thread'[o].pc = "send" /\ ~thread'[o].token /\ thread'[o].client = c
        /\ thread'[o].call \in {"raw", "managed", "close"}
    <3>1. PICK t : t = [Ready("send") EXCEPT !.client = c, !.call = kind]
                  /\ thread' = [thread EXCEPT ![o] = t]
      BY <1>1 DEF AdmitSend
    <3>2. t \in Thread
      BY <3>1, SendsAssumption DEF Ready, Thread, OwnerPc
    <3>3. t.pc = "send" /\ ~t.token /\ t.client = c /\ t.call \in {"raw", "managed", "close"}
      BY <3>1, SendsAssumption DEF Ready
    <3> QED
      BY <3>1, <3>2, <3>3, ThreadBecomes DEF Inv
  <2>7. /\ td' \in [Clients -> Tdlib]
        /\ \A d \in Clients : td'[d].ended = td[d].ended
    <3>1. PICK t : t = [td[c] EXCEPT !.used = @ \cup {kind}] /\ td' = [td EXCEPT ![c] = t]
      BY <1>1 DEF AdmitSend, Inv, TypeOK
    <3>0. td[c] \in Tdlib /\ kind \in {"raw", "managed", "close"}
      BY SendsAssumption DEF Inv, TypeOK
    <3>2. t \in Tdlib
      BY <3>0, <3>1 DEF Tdlib
    <3>3. t.ended = td[c].ended
      BY <3>0, <3>1 DEF Tdlib
    <3> QED
      BY <3>1, <3>2, <3>3, TdBecomes DEF Inv
  <2>8. TypeOK'
    <3>1. parked' \subseteq Owners \cup {"worker"}
      BY <2>1, <2>2, <2>3, <2>4, <2>5, <2>6, <2>7 DEF Begun, Inv, TypeOK, Notify
    <3>2. stop' \in BOOLEAN
      BY <2>1, <2>2, <2>3, <2>4, <2>5, <2>6, <2>7 DEF Begun, Inv, TypeOK, life
    <3>3. joining' \in BOOLEAN
      BY <2>1, <2>2, <2>3, <2>4, <2>5, <2>6, <2>7 DEF Begun, Inv, TypeOK, life
    <3>4. joinable' \in BOOLEAN
      BY <2>1, <2>2, <2>3, <2>4, <2>5, <2>6, <2>7 DEF Begun, Inv, TypeOK, life
    <3> QED
      BY <2>3, <2>4, <2>6, <2>7 DEF Begun, Inv, TypeOK, life
  <2>9. OneGeneration'
    BY <2>3, <2>6, GenerationStays DEF Alive, OnlyThread
  <2>10. CallsHold'
    BY <2>1, <2>3, <2>4, <2>6 DEF Asked, Inv, CallsHold, Held, Live, OnlyThread
  <2>11. LeasesExact'
    <3>1. SameLeases
      BY <2>1, <2>3, <2>4, <2>6 DEF Asked, SameLeases, OnlyThread
    <3> QED
      BY <3>1, LeasesStay
  <2>12. TerminalHasNoDemand'
    BY <2>1, <2>2, <2>4 DEF Asked, Inv, TerminalHasNoDemand, Live
  <2>13. TerminalKnown'
    BY <2>2, <2>3, <2>4, <2>7 DEF Asked, Begun, Inv, TerminalKnown
  <2>14. DemandServed'
    BY <2>1, <2>3, <2>4 DEF Begun, Inv, DemandServed, Live, Failed, life
  <2>15. SleepersJustified'
    BY <2>3, <2>6 DEF Inv, SleepersJustified, OnlyThread
  <2> QED
    BY <2>8, <2>9, <2>10, <2>11, <2>12, <2>13, <2>14, <2>15 DEF Inv
<1>2. ASSUME NEW o \in Owners, NEW c \in Clients, AcquireWatch(o, c) PROVE Inv'
  <2>1. /\ Live(c) /\ entry[c].owner = o /\ ~entry[c].orphan /\ thread[o].pc = "idle"
        /\ ~thread[o].token
    BY <1>2 DEF AcquireWatch, Holds, Idle, Inv, CallsHold
  <2>2. ~entry[c].terminal /\ ~watch[c].token /\ UNCHANGED <<box, owners, joining, thread, td>> /\ parked' = {}
    BY <1>2 DEF AcquireWatch, Inv, LeasesExact, Notify
  <2>3. Begun
    BY <1>2, Started DEF AcquireWatch, Inv
  <2>4. PICK x : /\ x = [entry[c] EXCEPT !.watch_demands = @ + 1]
                 /\ entry' = [entry EXCEPT ![c] = x]
    BY <1>2 DEF AcquireWatch, Inv, TypeOK
  <2>5. /\ x \in Entry /\ x.st = entry[c].st /\ x.owner = o /\ ~x.orphan /\ ~x.terminal
        /\ x.watch_demands = entry[c].watch_demands + 1
        /\ x.active_drivers = entry[c].active_drivers
    <3>1. entry[c] \in Entry /\ entry[c].watch_demands + 1 \in Nat
      BY DEF Inv, TypeOK, Entry
    <3> QED
      BY <2>1, <2>2, <2>4, <3>1, LeaseFields
  <2>6. /\ entry' \in [Clients -> Entry] /\ entry'[c] = x /\ OnlyEntry(c)
    BY <2>4, <2>5, EntryBecomes DEF Inv
  <2>7. PICK w : w = [lease |-> TRUE, token |-> TRUE] /\ watch' = [watch EXCEPT ![c] = w]
    BY <1>2 DEF AcquireWatch
  <2>8. /\ w \in Watch /\ w.lease /\ w.token /\ watch' \in [Clients -> Watch]
        /\ watch'[c] = w /\ \A d \in Clients : d # c => watch'[d] = watch[d]
    BY <2>7 DEF Inv, TypeOK, Watch
  <2>9. TypeOK'
    <3>1. parked' \subseteq Owners \cup {"worker"}
      BY <2>1, <2>2, <2>3, <2>4, <2>5, <2>6, <2>7, <2>8 DEF Begun, Inv, TypeOK, Notify
    <3>2. stop' \in BOOLEAN
      BY <2>1, <2>2, <2>3, <2>4, <2>5, <2>6, <2>7, <2>8 DEF Begun, Inv, TypeOK, life
    <3>3. joining' \in BOOLEAN
      BY <2>1, <2>2, <2>3, <2>4, <2>5, <2>6, <2>7, <2>8 DEF Begun, Inv, TypeOK, life
    <3>4. joinable' \in BOOLEAN
      BY <2>1, <2>2, <2>3, <2>4, <2>5, <2>6, <2>7, <2>8 DEF Begun, Inv, TypeOK, life
    <3> QED
      BY <2>2, <2>3, <2>4, <2>5, <2>8 DEF Begun, Inv, TypeOK
  <2>10. OneGeneration'
    BY <2>2, <2>3, GenerationStays
  <2>11. CallsHold'
    BY <2>2, <2>4 DEF Inv, CallsHold, Held, Live
  <2>12. LeasesExact'
    <3>1. \A d \in Clients : Driven(d)' <=> Driven(d)
      BY <2>2 DEF Driven
    <3>2. entry[c].watch_demands = 0
      BY <2>2 DEF Inv, LeasesExact
    <3> QED
      BY <2>2, <2>5, <2>6, <2>8, <3>1, <3>2 DEF Inv, LeasesExact, OnlyEntry
  <2>13. TerminalHasNoDemand'
    BY <2>1, <2>2, <2>4 DEF Inv, TerminalHasNoDemand, Live
  <2>14. TerminalKnown'
    BY <2>2, <2>3, <2>4 DEF Begun, Inv, TerminalKnown
  <2>15. DemandServed'
    BY <2>3 DEF Begun, DemandServed, Failed
  <2>16. SleepersJustified'
    BY <2>2 DEF Inv, SleepersJustified
  <2> QED
    BY <2>9, <2>10, <2>11, <2>12, <2>13, <2>14, <2>15, <2>16 DEF Inv
<1>3. ASSUME NEW o \in Owners, NEW c \in Clients, AcquireDriver(o, c) PROVE Inv'
  <2>1. /\ Live(c) /\ entry[c].owner = o /\ ~entry[c].orphan /\ thread[o].pc = "idle"
        /\ ~thread[o].token
    BY <1>3 DEF AcquireDriver, Holds, Idle, Inv, CallsHold
  <2>2. UNCHANGED <<box, owners, joining, watch, td>>
    BY <1>3 DEF AcquireDriver
  <2>3. PICK t : /\ t = [Ready("receive") EXCEPT !.client = c, !.token = ~entry[c].terminal]
                 /\ thread' = [thread EXCEPT ![o] = t]
    BY <1>3 DEF AcquireDriver
  <2>4. /\ t \in Thread /\ t.pc = "receive" /\ t.client = c /\ (t.token <=> ~entry[c].terminal)
    BY <2>3 DEF Ready, Thread, OwnerPc
  <2>5. thread' \in [Owners -> Thread] /\ thread'[o] = t /\ OnlyThread(o)
    BY <2>3, <2>4, ThreadBecomes DEF Inv
  <2>6. \/ entry[c].terminal /\ UNCHANGED <<entry, life, worker, parked>>
        \/ ~entry[c].terminal /\ Begun /\ parked' = {} /\ entry' = [entry EXCEPT ![c].active_drivers = @ + 1]
    <3>1. CASE entry[c].terminal
      BY <1>3, <3>1, Zenon DEF AcquireDriver
    <3>2. CASE ~entry[c].terminal
      <4>1. StartLocked /\ parked' = {} /\ entry' = [entry EXCEPT ![c].active_drivers = @ + 1]
        BY <1>3, <3>2 DEF AcquireDriver, Notify
      <4> QED
        BY <3>2, <4>1, Started DEF Inv
    <3> QED
      BY <3>1, <3>2
  <2>7. PICK x \in Entry :
          /\ entry' = [entry EXCEPT ![c] = x]
          /\ x.st = entry[c].st /\ x.owner = o /\ ~x.orphan /\ x.terminal = entry[c].terminal
          /\ x.watch_demands = entry[c].watch_demands /\ (entry[c].terminal => x = entry[c])
          /\ x.active_drivers = entry[c].active_drivers + (IF entry[c].terminal THEN 0 ELSE 1)
    <3>1. /\ entry[c] \in Entry /\ entry[c].active_drivers + 1 \in Nat
          /\ entry[c].active_drivers \in Nat
      BY DEF Inv, TypeOK, Entry
    <3>2. CASE entry[c].terminal
      <4>1. entry' = [entry EXCEPT ![c] = entry[c]]
        BY <2>6, <3>2 DEF Inv, TypeOK
      <4>2. entry[c].active_drivers + (IF entry[c].terminal THEN 0 ELSE 1) = entry[c].active_drivers
        BY <3>1, <3>2
      <4> QED
        BY <2>1, <3>1, <3>2, <4>1, <4>2
    <3>3. CASE ~entry[c].terminal
      <4>1. PICK x : /\ x = [entry[c] EXCEPT !.active_drivers = @ + 1]
                     /\ entry' = [entry EXCEPT ![c] = x]
        BY <2>6, <3>3 DEF Inv, TypeOK
      <4>2. /\ x \in Entry /\ x.st = entry[c].st /\ x.owner = entry[c].owner
            /\ x.orphan = entry[c].orphan /\ x.terminal = entry[c].terminal
            /\ x.watch_demands = entry[c].watch_demands
            /\ x.active_drivers = entry[c].active_drivers + 1
        BY <3>1, <4>1, LeaseFields
      <4>3. entry[c].active_drivers + (IF entry[c].terminal THEN 0 ELSE 1) = entry[c].active_drivers + 1
        BY <3>3
      <4> QED
        BY <2>1, <3>3, <4>1, <4>2, <4>3
    <3> QED
      BY <3>2, <3>3
  <2>8. /\ entry' \in [Clients -> Entry] /\ entry'[c] = x /\ OnlyEntry(c)
    BY <2>7, EntryBecomes DEF Inv
  <2>9. TypeOK'
    <3>1. parked' \subseteq Owners \cup {"worker"}
      BY <2>1, <2>2, <2>3, <2>4, <2>5, <2>6, <2>7, <2>8 DEF Begun, Inv, TypeOK, Notify
    <3>2. stop' \in BOOLEAN
      BY <2>1, <2>2, <2>3, <2>4, <2>5, <2>6, <2>7, <2>8 DEF Begun, Inv, TypeOK, life
    <3>3. joining' \in BOOLEAN
      BY <2>1, <2>2, <2>3, <2>4, <2>5, <2>6, <2>7, <2>8 DEF Begun, Inv, TypeOK, life
    <3>4. joinable' \in BOOLEAN
      BY <2>1, <2>2, <2>3, <2>4, <2>5, <2>6, <2>7, <2>8 DEF Begun, Inv, TypeOK, life
    <3> QED
      BY <2>2, <2>3, <2>4, <2>6, <2>7 DEF Begun, Inv, TypeOK, life
  <2>10. OneGeneration'
    BY <2>2, <2>3, <2>4, <2>6, GenerationStays DEF Alive
  <2>11. CallsHold'
    BY <2>1, <2>2, <2>3, <2>4, <2>7 DEF Inv, CallsHold, Held, Live
  <2>12. LeasesExact'
    <3>1. \A d \in Clients : d # c => (Driven(d)' <=> Driven(d))
      BY <2>1, <2>4, <2>5 DEF Driven, OnlyThread
    <3>2. Driven(c)' <=> ~entry[c].terminal
      <4>1. \A p \in Owners : p # o => ~(thread'[p].token /\ thread'[p].client = c)
        BY <2>1, <2>5 DEF OnlyThread, Inv, CallsHold, Held, Busy
      <4> QED
        BY <4>1, <2>4, <2>5 DEF Driven
    <3>3. ~Driven(c)
      BY <2>1 DEF Driven, Inv, CallsHold, Held, Busy
    <3> QED
      BY <2>2, <2>7, <2>8, <3>1, <3>2, <3>3 DEF Inv, LeasesExact, OnlyEntry
  <2>13. TerminalHasNoDemand'
    BY <2>1, <2>7 DEF Inv, TerminalHasNoDemand, Live
  <2>14. TerminalKnown'
    BY <2>2, <2>6, <2>7 DEF Begun, Inv, TerminalKnown, Failed, life
  <2>15. DemandServed'
    BY <2>2, <2>6 DEF Begun, Inv, DemandServed, Live, Failed, life
  <2>16. SleepersJustified'
    BY <2>2, <2>3, <2>4, <2>6 DEF Inv, SleepersJustified, Demand, Live, life
  <2> QED
    BY <2>9, <2>10, <2>11, <2>12, <2>13, <2>14, <2>15, <2>16 DEF Inv
<1>4. ASSUME NEW o \in Owners, RequestOneShot(o) PROVE Inv'
  <2>1. /\ thread' \in [Owners -> Thread] /\ OnlyThread(o)
        /\ thread'[o].pc = "idle" /\ ~thread'[o].token /\ ~thread[o].token
    BY <1>4, ReadyFields, ThreadBecomes DEF RequestOneShot, Inv, CallsHold, OwnerPc
  <2>2. PICK c \in Clients : c = thread[o].client
    BY <1>4 DEF RequestOneShot, Inv, CallsHold, Busy
  <2>3. Held(o, c) /\ thread[o].pc = "poll" /\ UNCHANGED <<box, owners, joining, watch, td>>
    BY <1>4, <2>2 DEF RequestOneShot, Inv, CallsHold, Busy
  <2>4. PICK x \in Entry :
          /\ entry' = [entry EXCEPT ![c] = x] /\ Asked(entry[c], x)
          /\ \/ x = entry[c] /\ UNCHANGED <<life, worker, parked>>
             \/ ~entry[c].terminal /\ Begun /\ parked' = {}
    <3>1. CASE entry[c].terminal \/ Failed
      BY <1>4, <2>2, <3>1 DEF RequestOneShot, Inv, TypeOK, Asked
    <3>2. CASE ~(entry[c].terminal \/ Failed)
      <4>1. PICK x : /\ x = [entry[c] EXCEPT !.one_shot_pending = TRUE]
                     /\ entry' = [entry EXCEPT ![c] = x]
        BY <1>4, <2>2, <3>2 DEF RequestOneShot, Inv, TypeOK
      <4>2. x \in Entry /\ Asked(entry[c], x)
        <5>1. entry[c] \in Entry
          BY DEF Inv, TypeOK
        <5>2. Asked(entry[c], x)
          BY <4>1, <5>1, ShotFields
        <5> QED
          BY <5>2 DEF Asked
      <4> QED
        BY <1>4, <2>2, <3>2, <4>1, <4>2, Started DEF RequestOneShot, Inv, Notify
    <3> QED
      BY <3>1, <3>2
  <2>5. /\ entry' \in [Clients -> Entry] /\ entry'[c] = x /\ OnlyEntry(c)
    BY <2>4, EntryBecomes DEF Inv
  <2>6. TypeOK'
    <3>1. parked' \subseteq Owners \cup {"worker"}
      BY <2>1, <2>2, <2>3, <2>4, <2>5 DEF Begun, Inv, TypeOK, Notify
    <3>2. stop' \in BOOLEAN
      BY <2>1, <2>2, <2>3, <2>4, <2>5 DEF Begun, Inv, TypeOK, life
    <3>3. joining' \in BOOLEAN
      BY <2>1, <2>2, <2>3, <2>4, <2>5 DEF Begun, Inv, TypeOK, life
    <3>4. joinable' \in BOOLEAN
      BY <2>1, <2>2, <2>3, <2>4, <2>5 DEF Begun, Inv, TypeOK, life
    <3> QED
      BY <2>1, <2>3, <2>4 DEF Begun, Inv, TypeOK, life
  <2>7. OneGeneration'
    BY <2>1, <2>3, <2>4, GenerationStays DEF Alive, OnlyThread
  <2>8. CallsHold'
    BY <2>1, <2>3, <2>4 DEF Asked, Inv, CallsHold, Busy, Held, Live, OnlyThread
  <2>9. LeasesExact'
    <3>1. SameLeases
      BY <2>1, <2>3, <2>4 DEF Asked, SameLeases, OnlyThread
    <3> QED
      BY <3>1, LeasesStay
  <2>10. TerminalHasNoDemand'
    BY <2>3, <2>4 DEF Asked, Inv, TerminalHasNoDemand, Held, Live
  <2>11. TerminalKnown'
    BY <2>3, <2>4 DEF Asked, Begun, Inv, TerminalKnown, Failed, life
  <2>12. DemandServed'
    BY <2>3, <2>4 DEF Begun, Inv, DemandServed, Live, Failed, life
  <2>13. SleepersJustified'
    BY <2>1, <2>3, <2>4 DEF Inv, SleepersJustified, Demand, Live, life, OnlyThread
  <2> QED
    BY <2>6, <2>7, <2>8, <2>9, <2>10, <2>11, <2>12, <2>13 DEF Inv
<1> QED
  BY <1>1, <1>2, <1>3, <1>4

\* The other steps of a call.
LEMMA CallInv ==
  ASSUME Inv, \E o \in Owners : \/ TdSend(o) \/ PopUntil(o) \/ PopTimeout(o) \/ ReleaseDriver(o)
                             \/ \E sent \in BOOLEAN : EndSend(o, sent)
                             \/ \E c \in Clients : TryPop(o, c) \/ ReleaseWatch(o, c)
  PROVE  Inv'
<1>1. ASSUME NEW o \in Owners, TdSend(o) PROVE Inv'
  <2>1. UNCHANGED <<entry, box, owners, life, joining, worker, parked, watch>>
    BY <1>1 DEF TdSend
  <2>2. /\ thread[o].client \in Clients /\ thread[o].call \in {"raw", "managed", "close"}
        /\ thread[o].pc = "send"
    BY <1>1 DEF TdSend, Inv, CallsHold, Busy
  <2>3. /\ thread' \in [Owners -> Thread] /\ OnlyThread(o) /\ thread'[o].pc = thread[o].pc
        /\ thread'[o].token = thread[o].token /\ thread'[o].client = thread[o].client
        /\ thread'[o].call = thread[o].call
    <3>1. thread' = [thread EXCEPT ![o].sent = TRUE]
      BY <1>1 DEF TdSend
    <3>2. thread' \in [Owners -> Thread]
      <4>1. thread \in [Owners -> Thread] /\ thread[o] \in Thread
        BY DEF Inv, TypeOK
      <4>2. PICK t : t = [thread[o] EXCEPT !.sent = TRUE]
        OBVIOUS
      <4>3. t \in Thread
        BY <4>1, <4>2 DEF Thread
      <4>4. thread' = [thread EXCEPT ![o] = t]
        BY <3>1, <4>1, <4>2
      <4> QED
        BY <4>1, <4>3, <4>4
    <3>3. OnlyThread(o)
      BY <3>1 DEF Inv, TypeOK, OnlyThread
    <3>4. /\ thread'[o].pc = thread[o].pc /\ thread'[o].token = thread[o].token
          /\ thread'[o].client = thread[o].client /\ thread'[o].call = thread[o].call
      BY <3>1 DEF Inv, TypeOK, Thread
    <3> QED
      BY <3>2, <3>3, <3>4
  <2>4. /\ td' \in [Clients -> Tdlib]
        /\ \A d \in Clients : td'[d].ended = td[d].ended
    <3>1. PICK c \in Clients : c = thread[o].client
      BY <2>2
    <3>2. PICK t : /\ t = [td[c] EXCEPT
                           !.materialized = TRUE,
                           !.open = IF td[c].ended THEN td[c].open
                                    ELSE td[c].open \cup {thread[o].call}]
                   /\ td' = [td EXCEPT ![c] = t]
      BY <1>1, <3>1 DEF TdSend
    <3>3. td[c] \in Tdlib
      BY DEF Inv, TypeOK
    <3>4. t.ended = td[c].ended
      BY <3>2, <3>3 DEF Tdlib
    <3>5. t \in Tdlib
      <4>1. PICK n : n = IF td[c].ended THEN td[c].open ELSE td[c].open \cup {thread[o].call}
        OBVIOUS
      <4>2. n \in SUBSET {"raw", "managed", "close"}
        BY <2>2, <3>3, <4>1 DEF Tdlib
      <4>3. t = [td[c] EXCEPT !.materialized = TRUE, !.open = n]
        BY <3>2, <4>1
      <4> QED
        BY <3>3, <4>2, <4>3 DEF Tdlib
    <3> QED
      BY <3>2, <3>4, <3>5 DEF Inv, TypeOK
  <2>5. TypeOK'
    <3>1. parked' \subseteq Owners \cup {"worker"}
      BY <2>1, <2>2, <2>3, <2>4 DEF Begun, Inv, TypeOK, Notify
    <3>2. stop' \in BOOLEAN
      BY <2>1, <2>2, <2>3, <2>4 DEF Begun, Inv, TypeOK, life
    <3>3. joining' \in BOOLEAN
      BY <2>1, <2>2, <2>3, <2>4 DEF Begun, Inv, TypeOK, life
    <3>4. joinable' \in BOOLEAN
      BY <2>1, <2>2, <2>3, <2>4 DEF Begun, Inv, TypeOK, life
    <3> QED
      BY <2>1, <2>3, <2>4 DEF Inv, TypeOK, life
  <2>6. OneGeneration'
    BY <2>1, <2>3, GenerationStays DEF Alive, OnlyThread
  <2>7. CallsHold'
    BY <2>1, <2>3 DEF Inv, CallsHold, Held, Live, OnlyThread
  <2>8. LeasesExact'
    <3>1. SameLeases
      BY <2>1, <2>3 DEF SameLeases, OnlyThread
    <3> QED
      BY <3>1, LeasesStay
  <2>9. TerminalHasNoDemand'
    BY <2>1 DEF Inv, TerminalHasNoDemand
  <2>10. TerminalKnown'
    BY <2>1, <2>4 DEF Inv, TerminalKnown, Failed, life
  <2>11. DemandServed'
    BY <2>1 DEF Inv, DemandServed, Live, Failed, life
  <2>12. SleepersJustified'
    BY <2>1, <2>3 DEF Inv, SleepersJustified, Demand, Live, life, OnlyThread
  <2> QED
    BY <2>5, <2>6, <2>7, <2>8, <2>9, <2>10, <2>11, <2>12 DEF Inv
<1>2. ASSUME NEW o \in Owners, NEW sent \in BOOLEAN, EndSend(o, sent) PROVE Inv'
  <2>1. PICK c \in Clients : /\ c = thread[o].client /\ thread[o].pc = "send"
                            /\ Live(c) /\ entry[c].owner = o /\ ~entry[c].orphan
    BY <1>2 DEF EndSend, Inv, CallsHold, Busy, Held
  <2>2. /\ thread' \in [Owners -> Thread] /\ OnlyThread(o)
        /\ thread'[o].pc = "idle" /\ ~thread'[o].token /\ thread'[o].client = None
    BY <1>2, ReadyFields, ThreadBecomes DEF EndSend, Inv, CallsHold, OwnerPc
  <2>3. UNCHANGED <<box, owners, life, joining, worker, watch, td>> /\ parked' \in {parked, {}}
    BY <1>2 DEF EndSend
  <2>4. PICK x \in Entry : /\ entry' = [entry EXCEPT ![c] = x] /\ Asked(entry[c], x)
                           /\ Demanded(x) => Demanded(entry[c])
    <3>1. entry[c] \in Entry /\ entry = [entry EXCEPT ![c] = entry[c]]
      BY DEF Inv, TypeOK
    <3>2. \/ entry' = entry \/ entry' = [entry EXCEPT ![c] = Unsent(entry[c], thread[o].call)]
      BY <1>2, <2>1 DEF EndSend
    <3>3. Asked(entry[c], entry[c])
      BY <3>1 DEF Asked
    <3> QED
      BY <3>1, <3>2, <3>3, SendFields DEF Asked
  <2>5. /\ entry' \in [Clients -> Entry] /\ entry'[c] = x /\ OnlyEntry(c)
    BY <2>4, EntryBecomes DEF Inv
  <2>6. ~thread[o].token
    BY <2>1 DEF Inv, CallsHold
  <2>7. TypeOK'
    <3>1. parked' \subseteq Owners \cup {"worker"}
      BY <2>1, <2>2, <2>3, <2>4, <2>5, <2>6 DEF Begun, Inv, TypeOK, Notify
    <3>2. stop' \in BOOLEAN
      BY <2>1, <2>2, <2>3, <2>4, <2>5, <2>6 DEF Begun, Inv, TypeOK, life
    <3>3. joining' \in BOOLEAN
      BY <2>1, <2>2, <2>3, <2>4, <2>5, <2>6 DEF Begun, Inv, TypeOK, life
    <3>4. joinable' \in BOOLEAN
      BY <2>1, <2>2, <2>3, <2>4, <2>5, <2>6 DEF Begun, Inv, TypeOK, life
    <3> QED
      BY <2>2, <2>3, <2>4 DEF Inv, TypeOK, life
  <2>8. OneGeneration'
    BY <2>2, <2>3, GenerationStays DEF Alive, OnlyThread
  <2>9. CallsHold'
    BY <2>2, <2>3, <2>4 DEF Asked, Inv, CallsHold, Busy, Held, Live, OnlyThread
  <2>10. LeasesExact'
    <3>1. SameLeases
      BY <2>2, <2>3, <2>4, <2>6 DEF Asked, SameLeases, OnlyThread
    <3> QED
      BY <3>1, LeasesStay
  <2>11. TerminalHasNoDemand'
    BY <2>4 DEF Asked, Inv, TerminalHasNoDemand
  <2>12. TerminalKnown'
    BY <2>3, <2>4 DEF Asked, Inv, TerminalKnown, Failed, life
  <2>13. DemandServed'
    BY <2>1, <2>3, <2>4 DEF Inv, DemandServed, Live, Failed, life
  <2>14. SleepersJustified'
    BY <2>1, <2>2, <2>3, <2>4
    DEF Inv, SleepersJustified, Demand, Live, life, OnlyThread
  <2> QED
    BY <2>7, <2>8, <2>9, <2>10, <2>11, <2>12, <2>13, <2>14 DEF Inv
<1>3. ASSUME NEW o \in Owners, NEW c \in Clients, TryPop(o, c) PROVE Inv'
  <2>1. /\ Live(c) /\ entry[c].owner = o /\ ~entry[c].orphan /\ thread[o].pc = "idle"
        /\ ~thread[o].token
    BY <1>3 DEF TryPop, Holds, Idle, Inv, CallsHold
  <2>2. \A p \in Owners : p # o /\ thread[p].pc \in Busy => thread[p].client \in Clients \ {c}
    BY <2>1 DEF Inv, CallsHold, Held
  <2>3. UNCHANGED <<entry, owners, life, joining, worker, parked, watch, td>>
    BY <1>3 DEF TryPop
  <2>4. PICK b \in Box : box' = [box EXCEPT ![c] = b] /\ b.failed = box[c].failed
    <3>0. box[c] \in Box
      BY DEF Inv, TypeOK
    <3>1. CASE box' = box
      BY <3>0, <3>1 DEF Inv, TypeOK
    <3>2. CASE box' # box
      <4>1. box[c].queue # <<>> /\ box' = [box EXCEPT ![c].queue = Tail(@)]
        BY <1>3, <3>2 DEF TryPop
      <4>2. Tail(box[c].queue) \in Seq(Kinds)
        BY <3>0, <4>1 DEF Box
      <4>3. PICK b : b = [box[c] EXCEPT !.queue = Tail(@)] /\ box' = [box EXCEPT ![c] = b]
        BY <4>1
      <4>4. b \in Box /\ b.failed = box[c].failed
        <5>1. PICK q \in Seq(Kinds) : b = [box[c] EXCEPT !.queue = q]
          BY <4>2, <4>3
        <5> QED
          BY <3>0, <5>1, QueueFields
      <4> QED
        BY <4>3, <4>4
    <3> QED
      BY <3>1, <3>2
  <2>5. box' \in [Clients -> Box] /\ box'[c] = b /\ OnlyBox(c)
    BY <2>4, BoxBecomes DEF Inv
  <2>6. /\ thread' \in [Owners -> Thread] /\ OnlyThread(o) /\ ~thread'[o].token
        /\ \/ thread'[o].pc = "idle"
           \/ thread'[o].pc = "poll" /\ thread'[o].client = c
    <3>1. CASE thread' = thread
      BY <2>1, <3>1 DEF OnlyThread, Inv, TypeOK
    <3>2. CASE thread' # thread
      <4>1. PICK t : /\ t = [Ready("poll") EXCEPT !.client = c]
                     /\ thread' = [thread EXCEPT ![o] = t]
        BY <1>3, <3>2 DEF TryPop
      <4>2. t \in Thread /\ t.pc = "poll" /\ t.client = c
        BY <4>1 DEF Ready, Thread, OwnerPc
      <4>3. ~t.token
        BY <4>1 DEF Ready
      <4> QED
        BY <4>1, <4>2, <4>3, ThreadBecomes DEF Inv
    <3> QED
      BY <3>1, <3>2
  <2>7. TypeOK'
    <3>1. parked' \subseteq Owners \cup {"worker"}
      BY <2>1, <2>2, <2>3, <2>4, <2>5, <2>6 DEF Begun, Inv, TypeOK, Notify
    <3>2. stop' \in BOOLEAN
      BY <2>1, <2>2, <2>3, <2>4, <2>5, <2>6 DEF Begun, Inv, TypeOK, life
    <3>3. joining' \in BOOLEAN
      BY <2>1, <2>2, <2>3, <2>4, <2>5, <2>6 DEF Begun, Inv, TypeOK, life
    <3>4. joinable' \in BOOLEAN
      BY <2>1, <2>2, <2>3, <2>4, <2>5, <2>6 DEF Begun, Inv, TypeOK, life
    <3> QED
      BY <2>3, <2>4, <2>6 DEF Inv, TypeOK, life
  <2>8. OneGeneration'
    BY <2>3, <2>6, GenerationStays DEF Alive, OnlyThread
  <2>9. CallsHold'
    BY <2>1, <2>3, <2>6 DEF Inv, CallsHold, Busy, Held, Live, OnlyThread
  <2>10. LeasesExact'
    <3>1. SameLeases
      BY <2>1, <2>3, <2>6 DEF SameLeases, OnlyThread
    <3> QED
      BY <3>1, LeasesStay
  <2>11. TerminalHasNoDemand'
    BY <2>3 DEF Inv, TerminalHasNoDemand
  <2>12. TerminalKnown'
    BY <2>3 DEF Inv, TerminalKnown, Failed, life
  <2>13. DemandServed'
    BY <2>3, <2>4 DEF Inv, DemandServed, Live, Failed, life
  <2>14. SleepersJustified'
    BY <2>2, <2>3, <2>4, <2>6
    DEF Inv, SleepersJustified, Demand, Live, life, Busy, OnlyThread
  <2> QED
    BY <2>7, <2>8, <2>9, <2>10, <2>11, <2>12, <2>13, <2>14 DEF Inv
<1>4. ASSUME NEW o \in Owners, PopUntil(o) PROVE Inv'
  <2>1. PICK c \in Clients : /\ c = thread[o].client /\ thread[o].pc = "receive"
                            /\ Live(c) /\ entry[c].owner = o /\ ~entry[c].orphan
    BY <1>4 DEF PopUntil, Inv, CallsHold, Busy, Held
  <2>2. \A p \in Owners : p # o /\ thread[p].pc \in Busy => thread[p].client \in Clients \ {c}
    BY <2>1 DEF Inv, CallsHold, Held
  <2>3. UNCHANGED <<entry, owners, life, joining, worker, parked, watch, td>>
    BY <1>4 DEF PopUntil
  <2>4. PICK b \in Box : /\ box' = [box EXCEPT ![c] = b] /\ b.failed = box[c].failed
                         /\ ~Readable(box[c]) => ~Readable(b)
    <3>0. box[c] \in Box
      BY DEF Inv, TypeOK
    <3>1. CASE box[c].queue = <<>>
      <4>1. PICK b : /\ b = [box[c] EXCEPT !.queue = IF @ = <<>> THEN @ ELSE Tail(@)]
                     /\ box' = [box EXCEPT ![c] = b]
        BY <1>4, <2>1 DEF PopUntil
      <4>2. b = box[c]
        BY <3>0, <3>1, <4>1 DEF Box
      <4> QED
        BY <3>0, <4>1, <4>2
    <3>2. CASE box[c].queue # <<>>
      <4>1. PICK b : /\ b = [box[c] EXCEPT !.queue = IF @ = <<>> THEN @ ELSE Tail(@)]
                     /\ box' = [box EXCEPT ![c] = b]
        BY <1>4, <2>1 DEF PopUntil
      <4>2. Tail(box[c].queue) \in Seq(Kinds)
        BY <3>0, <3>2 DEF Box
      <4>3. b = [box[c] EXCEPT !.queue = Tail(@)]
        BY <3>2, <4>1
      <4>4. Readable(box[c])
        BY <3>2 DEF Readable
      <4>5. b \in Box /\ b.failed = box[c].failed
        <5>1. PICK q \in Seq(Kinds) : b = [box[c] EXCEPT !.queue = q]
          BY <4>2, <4>3
        <5> QED
          BY <3>0, <5>1, QueueFields
      <4> QED
        BY <4>1, <4>4, <4>5
    <3> QED
      BY <3>1, <3>2
  <2>5. box' \in [Clients -> Box] /\ box'[c] = b /\ OnlyBox(c)
    BY <2>4, BoxBecomes DEF Inv
  <2>6. PICK pc \in {"release", "sleep"} : /\ thread' = [thread EXCEPT ![o].pc = pc]
                                           /\ pc = "sleep" => ~Readable(box[c])
    BY <1>4, <2>1 DEF PopUntil
  <2>7. /\ thread' \in [Owners -> Thread] /\ OnlyThread(o) /\ thread'[o].pc = pc
        /\ thread'[o].token = thread[o].token /\ thread'[o].client = thread[o].client
        /\ thread'[o].call = thread[o].call
    BY <2>6, ThreadMoves DEF Inv, OwnerPc
  <2>8. TypeOK'
    <3>1. parked' \subseteq Owners \cup {"worker"}
      BY <2>1, <2>2, <2>3, <2>4, <2>5, <2>6, <2>7 DEF Begun, Inv, TypeOK, Notify
    <3>2. stop' \in BOOLEAN
      BY <2>1, <2>2, <2>3, <2>4, <2>5, <2>6, <2>7 DEF Begun, Inv, TypeOK, life
    <3>3. joining' \in BOOLEAN
      BY <2>1, <2>2, <2>3, <2>4, <2>5, <2>6, <2>7 DEF Begun, Inv, TypeOK, life
    <3>4. joinable' \in BOOLEAN
      BY <2>1, <2>2, <2>3, <2>4, <2>5, <2>6, <2>7 DEF Begun, Inv, TypeOK, life
    <3> QED
      BY <2>3, <2>4, <2>7 DEF Inv, TypeOK, life
  <2>9. OneGeneration'
    BY <2>3, <2>6, GenerationStays DEF Alive
  <2>10. CallsHold'
    BY <2>1, <2>3, <2>6 DEF Inv, CallsHold, Held, Live
  <2>11. LeasesExact'
    <3>1. SameLeases
      BY <2>3, <2>6 DEF SameLeases
    <3> QED
      BY <3>1, LeasesStay
  <2>12. TerminalHasNoDemand'
    BY <2>3 DEF Inv, TerminalHasNoDemand
  <2>13. TerminalKnown'
    BY <2>3 DEF Inv, TerminalKnown, Failed, life
  <2>14. DemandServed'
    BY <2>3, <2>4 DEF Inv, DemandServed, Live, Failed, life
  <2>15. SleepersJustified'
    BY <2>1, <2>3, <2>4, <2>6 DEF Inv, SleepersJustified, Demand, Live, life
  <2> QED
    BY <2>8, <2>9, <2>10, <2>11, <2>12, <2>13, <2>14, <2>15 DEF Inv
<1>5. ASSUME NEW o \in Owners, PopTimeout(o) PROVE Inv'
  <2>1. /\ UNCHANGED <<entry, box, owners, life, joining, worker, parked, watch, td>>
        /\ thread[o].pc = "sleep"
    BY <1>5 DEF PopTimeout
  <2>2. /\ thread' \in [Owners -> Thread] /\ OnlyThread(o) /\ thread'[o].pc = "release"
        /\ thread'[o].token = thread[o].token /\ thread'[o].client = thread[o].client
        /\ thread'[o].call = thread[o].call
    BY <1>5, ThreadMoves DEF PopTimeout, Inv, OwnerPc
  <2>3. TypeOK'
    <3>1. parked' \subseteq Owners \cup {"worker"}
      BY <2>1, <2>2 DEF Begun, Inv, TypeOK, Notify
    <3>2. stop' \in BOOLEAN
      BY <2>1, <2>2 DEF Begun, Inv, TypeOK, life
    <3>3. joining' \in BOOLEAN
      BY <2>1, <2>2 DEF Begun, Inv, TypeOK, life
    <3>4. joinable' \in BOOLEAN
      BY <2>1, <2>2 DEF Begun, Inv, TypeOK, life
    <3> QED
      BY <3>1, <3>2, <3>3, <3>4, <2>1, <2>2 DEF Begun, Inv, TypeOK, life, Notify, Asked
  <2>4. OneGeneration'
    BY <2>1, <2>2, GenerationStays DEF Alive, OnlyThread, OnlyWorker, Inv, OneGeneration
  <2>5. CallsHold'
    BY <2>1, <2>2 DEF Inv, CallsHold, Busy, Held, Live, OnlyThread
  <2>6. LeasesExact'
    <3>1. SameLeases
      BY <2>1, <2>2 DEF SameLeases, OnlyThread
    <3> QED
      BY <3>1, LeasesStay
  <2>7. TerminalHasNoDemand'
    BY <2>1 DEF Inv, TerminalHasNoDemand
  <2>8. TerminalKnown'
    BY <2>1 DEF Inv, TerminalKnown, Failed, life
  <2>9. DemandServed'
    BY <2>1 DEF Inv, DemandServed, Live, Failed, life
  <2>10. SleepersJustified'
    BY <2>1, <2>2 DEF Inv, SleepersJustified, Demand, Live, life, OnlyThread
  <2> QED
    BY <2>3, <2>4, <2>5, <2>6, <2>7, <2>8, <2>9, <2>10 DEF Inv
<1>6. ASSUME NEW o \in Owners, ReleaseDriver(o) PROVE Inv'
  <2>1. PICK c \in Clients : /\ c = thread[o].client /\ thread[o].pc = "release"
                            /\ Live(c) /\ entry[c].owner = o /\ ~entry[c].orphan
    BY <1>6 DEF ReleaseDriver, Inv, CallsHold, Busy, Held
  <2>2. \A p \in Owners : p # o /\ thread[p].pc \in Busy => thread[p].client \in Clients \ {c}
    BY <2>1 DEF Inv, CallsHold, Held
  <2>3. /\ thread' \in [Owners -> Thread] /\ OnlyThread(o)
        /\ thread'[o].pc = "idle" /\ ~thread'[o].token /\ thread'[o].client = None
    BY <1>6, ReadyFields, ThreadBecomes DEF ReleaseDriver, Inv, CallsHold, OwnerPc
  <2>4. UNCHANGED <<box, owners, life, joining, worker, watch, td>> /\ parked' \in {parked, {}}
    BY <1>6 DEF ReleaseDriver, Notify
  <2>5. /\ thread[o].token => entry[c].active_drivers = 1
        /\ ~thread[o].token => ~Driven(c)
    BY <2>1, <2>2 DEF Inv, LeasesExact, CallsHold, Driven, Busy
  <2>6. PICK x \in Entry :
          /\ entry' = [entry EXCEPT ![c] = x]
          /\ x.st = entry[c].st /\ x.owner = o /\ ~x.orphan /\ x.terminal = entry[c].terminal
          /\ x.watch_demands = entry[c].watch_demands /\ (Demanded(x) => Demanded(entry[c]))
          /\ x.active_drivers = 0
    <3>0. entry[c] \in Entry
      BY DEF Inv, TypeOK
    <3>1. CASE thread[o].token
      <4>1. PICK x : /\ x = [entry[c] EXCEPT !.active_drivers = Dec(@)]
                     /\ entry' = [entry EXCEPT ![c] = x]
        BY <1>6, <2>1, <3>1 DEF ReleaseDriver
      <4>2. x = [entry[c] EXCEPT !.active_drivers = 0]
        BY <2>5, <3>1, <4>1 DEF Dec
      <4>3. /\ x \in Entry /\ x.st = entry[c].st /\ x.owner = entry[c].owner
            /\ x.orphan = entry[c].orphan /\ x.terminal = entry[c].terminal
            /\ x.watch_demands = entry[c].watch_demands /\ x.active_drivers = 0
            /\ Demanded(x) => Demanded(entry[c])
        BY <3>0, <4>2, LeaseFields
      <4> QED
        BY <2>1, <4>1, <4>3
    <3>2. CASE ~thread[o].token
      <4>1. entry' = [entry EXCEPT ![c] = entry[c]]
        BY <1>6, <3>2 DEF ReleaseDriver, Inv, TypeOK
      <4>2. entry[c].active_drivers = 0
        BY <2>5, <3>2 DEF Inv, LeasesExact
      <4> QED
        BY <2>1, <3>0, <4>1, <4>2
    <3> QED
      BY <3>1, <3>2
  <2>7. /\ entry' \in [Clients -> Entry] /\ entry'[c] = x /\ OnlyEntry(c)
    BY <2>6, EntryBecomes DEF Inv
  <2>8. TypeOK'
    <3>1. parked' \subseteq Owners \cup {"worker"}
      BY <2>1, <2>2, <2>3, <2>4, <2>5, <2>6, <2>7 DEF Begun, Inv, TypeOK, Notify
    <3>2. stop' \in BOOLEAN
      BY <2>1, <2>2, <2>3, <2>4, <2>5, <2>6, <2>7 DEF Begun, Inv, TypeOK, life
    <3>3. joining' \in BOOLEAN
      BY <2>1, <2>2, <2>3, <2>4, <2>5, <2>6, <2>7 DEF Begun, Inv, TypeOK, life
    <3>4. joinable' \in BOOLEAN
      BY <2>1, <2>2, <2>3, <2>4, <2>5, <2>6, <2>7 DEF Begun, Inv, TypeOK, life
    <3> QED
      BY <2>3, <2>4, <2>6 DEF Inv, TypeOK, life
  <2>9. OneGeneration'
    BY <2>3, <2>4, GenerationStays DEF Alive, OnlyThread
  <2>10. CallsHold'
    BY <2>1, <2>3, <2>4, <2>6 DEF Inv, CallsHold, Busy, Held, Live, OnlyThread
  <2>11. LeasesExact'
    <3>1. \A d \in Clients : d # c => (Driven(d)' <=> Driven(d))
      BY <2>1, <2>3 DEF Driven, OnlyThread
    <3>2. ~Driven(c)'
      <4>1. \A p \in Owners : p # o => ~(thread'[p].token /\ thread'[p].client = c)
        BY <2>2, <2>3 DEF OnlyThread, Inv, CallsHold, Busy
      <4> QED
        BY <4>1, <2>3 DEF Driven
    <3> QED
      BY <2>4, <2>6, <2>7, <3>1, <3>2 DEF Inv, LeasesExact, OnlyEntry
  <2>12. TerminalHasNoDemand'
    BY <2>6 DEF Inv, TerminalHasNoDemand
  <2>13. TerminalKnown'
    BY <2>4, <2>6 DEF Inv, TerminalKnown, Failed, life
  <2>14. DemandServed'
    BY <2>1, <2>4, <2>6 DEF Inv, DemandServed, Live, Failed, life
  <2>15. SleepersJustified'
    BY <2>3, <2>4, <2>6 DEF Inv, SleepersJustified, Demand, Live, life, OnlyThread
  <2> QED
    BY <2>8, <2>9, <2>10, <2>11, <2>12, <2>13, <2>14, <2>15 DEF Inv
<1>7. ASSUME NEW o \in Owners, NEW c \in Clients, ReleaseWatch(o, c) PROVE Inv'
  <2>1. UNCHANGED <<box, owners, life, joining, worker, thread, td>> /\ parked' \in {parked, {}}
    BY <1>7 DEF ReleaseWatch, Notify
  <2>2. PICK x \in Entry :
          /\ entry' = [entry EXCEPT ![c] = x]
          /\ x.st = entry[c].st /\ x.owner = entry[c].owner /\ x.orphan = entry[c].orphan
          /\ x.terminal = entry[c].terminal /\ (Demanded(x) => Demanded(entry[c]))
          /\ x.active_drivers = entry[c].active_drivers /\ x.watch_demands = 0
    <3>0. entry[c] \in Entry
      BY DEF Inv, TypeOK
    <3>1. CASE watch[c].token
      <4>1. PICK x : /\ x = [entry[c] EXCEPT !.watch_demands = Dec(@)]
                     /\ entry' = [entry EXCEPT ![c] = x]
        BY <1>7, <3>1 DEF ReleaseWatch
      <4>2. entry[c].watch_demands = 1
        BY <3>1 DEF Inv, LeasesExact
      <4>3. x = [entry[c] EXCEPT !.watch_demands = 0]
        BY <4>1, <4>2 DEF Dec
      <4>4. /\ x \in Entry /\ x.st = entry[c].st /\ x.owner = entry[c].owner
            /\ x.orphan = entry[c].orphan /\ x.terminal = entry[c].terminal
            /\ x.active_drivers = entry[c].active_drivers /\ x.watch_demands = 0
            /\ Demanded(x) => Demanded(entry[c])
        BY <3>0, <4>3, LeaseFields
      <4> QED
        BY <4>1, <4>4
    <3>2. CASE ~watch[c].token
      <4>1. entry' = [entry EXCEPT ![c] = entry[c]]
        BY <1>7, <3>2 DEF ReleaseWatch, Inv, TypeOK
      <4>2. entry[c].watch_demands = 0
        BY <3>2 DEF Inv, LeasesExact
      <4> QED
        BY <3>0, <4>1, <4>2
    <3> QED
      BY <3>1, <3>2
  <2>3. /\ entry' \in [Clients -> Entry] /\ entry'[c] = x /\ OnlyEntry(c)
    BY <2>2, EntryBecomes DEF Inv
  <2>4. /\ watch' \in [Clients -> Watch] /\ ~watch'[c].token
        /\ \A d \in Clients : d # c => watch'[d] = watch[d]
    <3>1. PICK w : w = [lease |-> FALSE, token |-> FALSE] /\ watch' = [watch EXCEPT ![c] = w]
      BY <1>7 DEF ReleaseWatch
    <3>2. w \in Watch
      BY <3>1 DEF Watch
    <3>3. ~w.token
      BY <3>1
    <3> QED
      BY <3>1, <3>2, <3>3 DEF Inv, TypeOK
  <2>5. TypeOK'
    <3>1. parked' \subseteq Owners \cup {"worker"}
      BY <2>1, <2>2, <2>3, <2>4 DEF Begun, Inv, TypeOK, Notify
    <3>2. stop' \in BOOLEAN
      BY <2>1, <2>2, <2>3, <2>4 DEF Begun, Inv, TypeOK, life
    <3>3. joining' \in BOOLEAN
      BY <2>1, <2>2, <2>3, <2>4 DEF Begun, Inv, TypeOK, life
    <3>4. joinable' \in BOOLEAN
      BY <2>1, <2>2, <2>3, <2>4 DEF Begun, Inv, TypeOK, life
    <3> QED
      BY <2>1, <2>2, <2>4 DEF Inv, TypeOK, life
  <2>6. OneGeneration'
    BY <2>1, GenerationStays DEF Alive
  <2>7. CallsHold'
    BY <2>1, <2>2 DEF Inv, CallsHold, Held, Live
  <2>8. LeasesExact'
    <3>1. \A d \in Clients : Driven(d)' <=> Driven(d)
      BY <2>1 DEF Driven
    <3> QED
      BY <2>1, <2>2, <2>3, <2>4, <3>1 DEF Inv, LeasesExact, OnlyEntry
  <2>9. TerminalHasNoDemand'
    BY <2>2 DEF Inv, TerminalHasNoDemand
  <2>10. TerminalKnown'
    BY <2>1, <2>2 DEF Inv, TerminalKnown, Failed, life
  <2>11. DemandServed'
    BY <2>1, <2>2 DEF Inv, DemandServed, Live, Failed, life
  <2>12. SleepersJustified'
    BY <2>1, <2>2 DEF Inv, SleepersJustified, Demand, Live, life
  <2> QED
    BY <2>5, <2>6, <2>7, <2>8, <2>9, <2>10, <2>11, <2>12 DEF Inv
<1> QED
  BY <1>1, <1>2, <1>3, <1>4, <1>5, <1>6, <1>7

-----------------------------------------------------------------------------
(***************************************************************************)
(* The end of a client.                                                    *)
(***************************************************************************)

\* forget(), the rest of the call being done.
LEMMA ForgottenInv ==
  ASSUME Inv, NEW o \in Owners, NEW c \in Clients, Held(o, c), Forgotten(c),
         ~thread[o].token, thread[o].pc \in {"idle", "forget"},
         thread' \in [Owners -> Thread], OnlyThread(o), thread'[o].pc = "idle",
         ~thread'[o].token
  PROVE  Inv'
<1>1. /\ Held(o, c) /\ thread[o].pc \in {"idle", "forget"} /\ ~thread[o].token
      /\ thread' \in [Owners -> Thread] /\ OnlyThread(o) /\ thread'[o].pc = "idle"
      /\ ~thread'[o].token
  OBVIOUS
<1>2. \A p \in Owners : p # o /\ thread[p].pc \in Busy => thread[p].client \in Clients \ {c}
  BY <1>1 DEF Inv, CallsHold, Held
<1>3. UNCHANGED <<owners, life, joining, worker, td>> /\ parked' = {}
  BY DEF Forgotten, Notify
<1>4. PICK x \in Entry : entry' = [entry EXCEPT ![c] = x] /\ Left(entry[c], x)
  <2>1. entry[c] \in Entry /\ entry[c].st = "live"
    BY <1>1 DEF Inv, TypeOK, Held, Live
  <2>2. PICK x : /\ x = Settled([(IF entry[c].terminal THEN ClearDemand(entry[c])
                                 ELSE ClearDriver(entry[c])) EXCEPT !.orphan = TRUE])
                 /\ entry' = [entry EXCEPT ![c] = x]
    BY DEF Forgotten
  <2>3. Left(entry[c], x)
    BY <2>1, <2>2, LeftFields
  <2> QED
    BY <2>2, <2>3 DEF Left
<1>5. /\ entry' \in [Clients -> Entry] /\ entry'[c] = x /\ OnlyEntry(c)
  BY <1>4, EntryBecomes DEF Inv
<1>6. PICK b \in Box : box' = [box EXCEPT ![c] = b] /\ b.failed = box[c].failed
  <2>1. box[c] \in Box
    BY DEF Inv, TypeOK
  <2>2. PICK b : b = Abandon(box[c]) /\ box' = [box EXCEPT ![c] = b]
    BY DEF Forgotten
  <2> QED
    BY <2>1, <2>2, BoxFields
<1>7. box' \in [Clients -> Box] /\ box'[c] = b /\ OnlyBox(c)
  BY <1>6, BoxBecomes DEF Inv
<1>8. /\ watch' \in [Clients -> Watch] /\ ~watch'[c].token
      /\ \A d \in Clients : d # c => watch'[d] = watch[d]
  <2>1. DropWatch({c})
    BY DEF Forgotten
  <2> QED
    BY <2>1, WatchFields DEF Inv
<1>9. TypeOK'
  <2>1. parked' \subseteq Owners \cup {"worker"}
    BY <1>1, <1>2, <1>3, <1>4, <1>5, <1>6, <1>7, <1>8 DEF Begun, Inv, TypeOK, Notify
  <2>2. stop' \in BOOLEAN
    BY <1>1, <1>2, <1>3, <1>4, <1>5, <1>6, <1>7, <1>8 DEF Begun, Inv, TypeOK, life
  <2>3. joining' \in BOOLEAN
    BY <1>1, <1>2, <1>3, <1>4, <1>5, <1>6, <1>7, <1>8 DEF Begun, Inv, TypeOK, life
  <2>4. joinable' \in BOOLEAN
    BY <1>1, <1>2, <1>3, <1>4, <1>5, <1>6, <1>7, <1>8 DEF Begun, Inv, TypeOK, life
  <2> QED
    BY <1>3, <1>4, <1>6, <1>8 DEF Inv, TypeOK, life
<1>10. OneGeneration'
  BY <1>3, GenerationStays DEF Alive, OnlyThread
<1>11. CallsHold'
  BY <1>3, <1>4 DEF Left, Inv, CallsHold, Busy, Held, Live, OnlyThread
<1>12. LeasesExact'
  <2>1. \A d \in Clients \ {c} : /\ entry'[d].active_drivers = entry[d].active_drivers
                                /\ entry'[d].watch_demands = entry[d].watch_demands
                                /\ watch'[d] = watch[d]
    BY <1>1, <1>2, <1>3, <1>4, <1>5, <1>6, <1>7, <1>8 DEF OnlyEntry
  <2>2. \A d \in {c} : /\ entry'[d].active_drivers = 0 /\ entry'[d].watch_demands = 0
                     /\ ~watch'[d].token
    BY <1>1, <1>2, <1>3, <1>4, <1>5, <1>6, <1>7, <1>8 DEF Left, Ended
  <2>3. \A p \in Owners : thread[p].token => thread[p].client \in Clients \ {c}
    BY <1>1, <1>2, <1>3, <1>4, <1>5, <1>6, <1>7, <1>8 DEF Inv, CallsHold, Busy
  <2>4. /\ \A p \in Owners : thread'[p].token => thread[p].token /\ thread'[p].client \notin {c}
        /\ \A p \in Owners : thread[p].token => thread[p].client \in {c} \/ thread'[p].token
        /\ \A p \in Owners : thread[p].token => thread'[p].client = thread[p].client
    BY <1>1, <1>2, <1>3, <1>4, <1>5, <1>6, <1>7, <1>8, <2>3 DEF OnlyThread
  <2>5. {c} \in SUBSET Clients
    OBVIOUS
  <2> QED
    BY <2>1, <2>2, <2>4, <2>5, LeasesDropped, ZenonT(40)
<1>13. TerminalHasNoDemand'
  BY <1>4 DEF Left, Inv, TerminalHasNoDemand
<1>14. TerminalKnown'
  BY <1>3, <1>4 DEF Left, Inv, TerminalKnown, Failed, life
<1>15. DemandServed'
  BY <1>3, <1>4, <1>6 DEF Left, Inv, DemandServed, Live, Failed, life
<1>16. SleepersJustified'
  BY <1>2, <1>3, <1>6 DEF Inv, SleepersJustified, Busy, OnlyThread
<1> QED
  BY <1>9, <1>10, <1>11, <1>12, <1>13, <1>14, <1>15, <1>16 DEF Inv

\* A VM forgets a client.
LEMMA ForgetInv ==
  ASSUME Inv, \E o \in Owners : ForgetReserved(o) \/ \E c \in Clients : Forget(o, c)
  PROVE  Inv'
<1>1. ASSUME NEW o \in Owners, NEW c \in Clients, Forget(o, c) PROVE Inv'
  <2>1. Held(o, c) /\ thread[o].pc = "idle" /\ Forgotten(c) /\ thread' = thread
    BY <1>1 DEF Forget, Holds, Held, Idle
  <2>2. ~thread[o].token /\ thread' \in [Owners -> Thread] /\ OnlyThread(o)
    BY <2>1 DEF Inv, CallsHold, TypeOK, OnlyThread
  <2> QED
    BY <2>1, <2>2, ForgottenInv
<1>2. ASSUME NEW o \in Owners, ForgetReserved(o) PROVE Inv'
  <2>1. PICK c \in Clients : c = thread[o].client /\ Held(o, c)
    BY <1>2 DEF ForgetReserved, Inv, CallsHold, Busy
  <2>2. thread[o].pc = "forget" /\ Forgotten(c) /\ thread' = [thread EXCEPT ![o] = Ready("idle")]
    BY <1>2, <2>1 DEF ForgetReserved
  <2>3. ~thread[o].token
    BY <2>2 DEF Inv, CallsHold
  <2>4. /\ thread' \in [Owners -> Thread] /\ OnlyThread(o) /\ thread'[o].pc = "idle"
        /\ ~thread'[o].token
    BY <2>2, ReadyFields, ThreadBecomes DEF Inv, OwnerPc
  <2> QED
    BY <2>1, <2>2, <2>3, <2>4, ForgottenInv
<1> QED
  BY <1>1, <1>2

\* A VM retires a client TDLib never heard of.
LEMMA RetireInv ==
  ASSUME Inv, \E o \in Owners, c \in Clients : RetireReserved(o, c)
  PROVE  Inv'
<1>1. ASSUME NEW o \in Owners, NEW c \in Clients, RetireReserved(o, c) PROVE Inv'
  <2>1. /\ Live(c) /\ entry[c].owner = o /\ ~entry[c].orphan /\ thread[o].pc = "idle"
        /\ ~thread[o].token /\ ~entry[c].terminal
    BY <1>1 DEF RetireReserved, Holds, Idle, Inv, CallsHold
  <2>2. \A p \in Owners : p # o /\ thread[p].pc \in Busy => thread[p].client \in Clients \ {c}
    BY <2>1 DEF Inv, CallsHold, Held
  <2>3. UNCHANGED <<owners, life, joining, worker>> /\ parked' = {}
    BY <1>1 DEF RetireReserved, Terminated, Notify
  <2>4. PICK x \in Entry : entry' = [entry EXCEPT ![c] = x] /\ Ended(entry[c], x)
    <3>1. entry[c] \in Entry
      BY DEF Inv, TypeOK
    <3>2. PICK x : /\ x = Settled([ClearDemand(entry[c]) EXCEPT !.terminal = TRUE])
                   /\ entry' = [entry EXCEPT ![c] = x]
      BY <1>1 DEF RetireReserved, Terminated
    <3>3. Ended(entry[c], x)
      BY <3>1, <3>2, EndedFields
    <3> QED
      BY <3>2, <3>3 DEF Ended
  <2>5. /\ entry' \in [Clients -> Entry] /\ entry'[c] = x /\ OnlyEntry(c)
    BY <2>4, EntryBecomes DEF Inv
  <2>6. PICK b \in Box : box' = [box EXCEPT ![c] = b] /\ b.failed = box[c].failed
    <3>1. box[c] \in Box
      BY DEF Inv, TypeOK
    <3>2. PICK b : b = [box[c] EXCEPT !.terminal = TRUE] /\ box' = [box EXCEPT ![c] = b]
      BY <1>1 DEF RetireReserved, Terminated
    <3>3. b \in Box /\ b.failed = box[c].failed
      BY <3>1, <3>2 DEF Box
    <3> QED
      BY <3>2, <3>3
  <2>7. box' \in [Clients -> Box] /\ box'[c] = b /\ OnlyBox(c)
    BY <2>6, BoxBecomes DEF Inv
  <2>8. /\ watch' \in [Clients -> Watch] /\ ~watch'[c].token
        /\ \A d \in Clients : d # c => watch'[d] = watch[d]
    <3>1. DropWatch({c})
      BY <1>1 DEF RetireReserved, Terminated
    <3> QED
      BY <3>1, WatchFields DEF Inv
  <2>9. /\ thread' \in [Owners -> Thread] /\ OnlyThread(o) /\ thread'[o].pc = "forget"
        /\ ~thread'[o].token /\ thread'[o].client = c
    <3>1. PICK t : /\ t = [thread[o] EXCEPT !.pc = "forget", !.client = c]
                   /\ thread' = [thread EXCEPT ![o] = t]
      BY <1>1 DEF RetireReserved
    <3>0. thread[o] \in Thread
      BY DEF Inv, TypeOK
    <3>2. t \in Thread
      BY <3>0, <3>1 DEF Thread, OwnerPc
    <3>3. t.pc = "forget" /\ t.client = c /\ t.token = thread[o].token
      BY <3>0, <3>1 DEF Thread
    <3> QED
      BY <2>1, <3>1, <3>2, <3>3, ThreadBecomes DEF Inv
  <2>10. /\ td' \in [Clients -> Tdlib] /\ td'[c].ended
         /\ \A d \in Clients : td[d].ended => td'[d].ended
    <3>1. td' = [td EXCEPT ![c].ended = TRUE]
      BY <1>1 DEF RetireReserved
    <3> QED
      BY <3>1, TdEnds DEF Inv
  <2>11. TypeOK'
    <3>1. parked' \subseteq Owners \cup {"worker"}
      BY <2>3
    <3>2. stop' \in BOOLEAN
      BY <2>3 DEF Inv, TypeOK, life
    <3>3. joining' \in BOOLEAN
      BY <2>3 DEF Inv, TypeOK
    <3>4. joinable' \in BOOLEAN
      BY <2>3 DEF Inv, TypeOK, life
    <3> QED
      BY <2>3, <2>4, <2>6, <2>8, <2>9, <2>10 DEF Inv, TypeOK, life
  <2>12. OneGeneration'
    BY <2>3, <2>9, GenerationStays DEF Alive, OnlyThread
  <2>13. CallsHold'
    BY <2>1, <2>3, <2>4, <2>9 DEF Ended, Inv, CallsHold, Held, Live, OnlyThread
  <2>14. LeasesExact'
    <3>1. \A d \in Clients \ {c} : /\ entry'[d].active_drivers = entry[d].active_drivers
                                  /\ entry'[d].watch_demands = entry[d].watch_demands
                                  /\ watch'[d] = watch[d]
      BY <2>1, <2>2, <2>3, <2>4, <2>5, <2>6, <2>7, <2>8, <2>9, <2>10 DEF OnlyEntry
    <3>2. \A d \in {c} : /\ entry'[d].active_drivers = 0 /\ entry'[d].watch_demands = 0
                       /\ ~watch'[d].token
      BY <2>1, <2>2, <2>3, <2>4, <2>5, <2>6, <2>7, <2>8, <2>9, <2>10 DEF Left, Ended
    <3>3. \A p \in Owners : thread[p].token => thread[p].client \in Clients \ {c}
      BY <2>1, <2>2, <2>3, <2>4, <2>5, <2>6, <2>7, <2>8, <2>9, <2>10 DEF Inv, CallsHold, Busy
    <3>4. /\ \A p \in Owners : thread'[p].token => thread[p].token /\ thread'[p].client \notin {c}
          /\ \A p \in Owners : thread[p].token => thread[p].client \in {c} \/ thread'[p].token
          /\ \A p \in Owners : thread[p].token => thread'[p].client = thread[p].client
      BY <2>1, <2>2, <2>3, <2>4, <2>5, <2>6, <2>7, <2>8, <2>9, <2>10, <3>3 DEF OnlyThread
    <3>5. {c} \in SUBSET Clients
      OBVIOUS
    <3> QED
      BY <3>1, <3>2, <3>4, <3>5, LeasesDropped, ZenonT(40)
  <2>15. TerminalHasNoDemand'
    BY <2>4 DEF Ended, Inv, TerminalHasNoDemand
  <2>16. TerminalKnown'
    BY <2>3, <2>4, <2>10 DEF Inv, TerminalKnown, Failed, life
  <2>17. DemandServed'
    BY <2>3, <2>4, <2>6 DEF Ended, Inv, DemandServed, Live, Failed, life
  <2>18. SleepersJustified'
    BY <2>2, <2>3, <2>6, <2>9 DEF Inv, SleepersJustified, Busy, OnlyThread
  <2> QED
    BY <2>11, <2>12, <2>13, <2>14, <2>15, <2>16, <2>17, <2>18 DEF Inv
<1> QED
  BY <1>1

\* What detachOwner() makes of the entries, the mailboxes and the watches of the
\* clients that the VM holds, and of the watches of all if it is the last VM.
LEMMA DetachFields ==
  ASSUME Inv, NEW o \in Owners, DetachOwner(o), NEW mine, NEW last \in BOOLEAN,
         mine = {c \in Clients : Live(c) /\ entry[c].owner = o /\ ~entry[c].orphan},
         last <=> LastOwner(o)
  PROVE  /\ entry' \in [Clients -> Entry] /\ box' \in [Clients -> Box]
         /\ \A c \in mine : Left(entry[c], entry'[c])
         /\ \A c \in Clients \ mine : Lessened(entry[c], entry'[c])
         /\ \A c \in Clients \ mine : entry'[c].active_drivers = entry[c].active_drivers
         /\ \A c \in Clients \ mine : ~last => entry'[c] = entry[c]
         /\ \A c \in Clients \ mine : box'[c] = box[c]
         /\ \A c \in Clients : last => entry'[c].watch_demands = 0
         /\ \A c \in Clients : box'[c].failed = box[c].failed
         /\ watch' \in [Clients -> Watch]
         /\ \A c \in Clients : last \/ c \in mine => ~watch'[c].token
         /\ \A c \in Clients : ~last /\ c \notin mine => watch'[c] = watch[c]
<1>0. entry \in [Clients -> Entry] /\ box \in [Clients -> Box]
  BY DEF Inv, TypeOK
<1>1. PICK d : d = [c \in Clients |-> IF c \in mine THEN Detached(entry[c], ~last /\ ~Failed)
                                     ELSE entry[c]]
  OBVIOUS
<1>2. /\ entry' = [c \in Clients |-> IF last THEN [d[c] EXCEPT !.watch_demands = 0] ELSE d[c]]
      /\ box' = [c \in Clients |-> IF c \in mine THEN Abandon(box[c]) ELSE box[c]]
      /\ DropWatch(IF last THEN Clients ELSE mine)
  BY <1>1 DEF DetachOwner
<1>3. \A c \in Clients : /\ d[c] \in Entry
                         /\ c \in mine => Left(entry[c], d[c])
                         /\ c \notin mine => d[c] = entry[c]
  <2>1. ASSUME NEW c \in Clients, c \in mine PROVE Left(entry[c], d[c])
    <3>1. entry[c] \in Entry /\ entry[c].st = "live"
      BY <1>0, <2>1 DEF Live
    <3>2. PICK keep \in BOOLEAN : keep = (~last /\ ~Failed)
      OBVIOUS
    <3>3. d[c] = Detached(entry[c], keep)
      BY <1>1, <2>1, <3>2
    <3> QED
      BY <3>1, <3>3, LeftFields
  <2>2. ASSUME NEW c \in Clients, c \notin mine PROVE d[c] = entry[c]
    BY <1>1, <2>2
  <2> QED
    BY <1>0, <2>1, <2>2 DEF Left
<1>4. ASSUME NEW c \in Clients
      PROVE  /\ entry'[c] \in Entry
             /\ c \in mine => Left(entry[c], entry'[c])
             /\ c \notin mine => Lessened(entry[c], entry'[c])
             /\ c \notin mine => entry'[c].active_drivers = entry[c].active_drivers
             /\ c \notin mine /\ ~last => entry'[c] = entry[c]
             /\ last => entry'[c].watch_demands = 0
  <2>0. entry[c] \in Entry /\ d[c] \in Entry
    BY <1>0, <1>3
  <2>1. CASE last
    <3>1. PICK x : x = [d[c] EXCEPT !.watch_demands = 0] /\ entry'[c] = x
      BY <1>2, <2>1
    <3>2. /\ x \in Entry /\ x.st = d[c].st /\ x.owner = d[c].owner /\ x.orphan = d[c].orphan
          /\ x.terminal = d[c].terminal /\ x.active_drivers = d[c].active_drivers
          /\ x.watch_demands = 0 /\ (Demanded(x) => Demanded(d[c]))
      BY <2>0, <3>1, LeaseFields
    <3>3. c \in mine => Left(entry[c], x)
      BY <1>3, <3>2 DEF Left
    <3>4. c \notin mine => Lessened(entry[c], x) /\ x.active_drivers = entry[c].active_drivers
      BY <1>3, <3>2 DEF Lessened
    <3> QED
      BY <2>1, <3>1, <3>2, <3>3, <3>4
  <2>2. CASE ~last
    <3>1. entry'[c] = d[c]
      BY <1>2, <2>2
    <3> QED
      BY <1>3, <2>0, <2>2, <3>1 DEF Lessened
  <2> QED
    BY <2>1, <2>2
<1>5. ASSUME NEW c \in Clients
      PROVE  /\ box'[c] \in Box /\ box'[c].failed = box[c].failed
             /\ c \notin mine => box'[c] = box[c]
  <2>1. CASE c \in mine
    <3>1. box'[c] = Abandon(box[c]) /\ box[c] \in Box
      BY <1>0, <1>2, <2>1
    <3> QED
      BY <2>1, <3>1, BoxFields
  <2>2. CASE c \notin mine
    BY <1>0, <1>2, <2>2
  <2> QED
    BY <2>1, <2>2
<1>6. entry' \in [Clients -> Entry] /\ box' \in [Clients -> Box]
  <2>1. entry' = [c \in Clients |-> entry'[c]] /\ box' = [c \in Clients |-> box'[c]]
    BY <1>2
  <2> QED
    BY <1>4, <1>5, <2>1
<1>7. /\ watch' \in [Clients -> Watch]
      /\ \A c \in Clients : last \/ c \in mine => ~watch'[c].token
      /\ \A c \in Clients : ~last /\ c \notin mine => watch'[c] = watch[c]
  <2>1. PICK cs : cs = (IF last THEN Clients ELSE mine) /\ DropWatch(cs)
    BY <1>2
  <2>2. /\ watch' \in [Clients -> Watch]
        /\ \A c \in Clients : c \notin cs => watch'[c] = watch[c]
        /\ \A c \in Clients : c \in cs => ~watch'[c].token
    BY <2>1, WatchFields DEF Inv
  <2> QED
    BY <2>1, <2>2
<1> QED
  <2>1. mine \subseteq Clients
    OBVIOUS
  <2>2. /\ \A c \in mine : Left(entry[c], entry'[c])
        /\ \A c \in Clients \ mine : Lessened(entry[c], entry'[c])
        /\ \A c \in Clients \ mine : entry'[c].active_drivers = entry[c].active_drivers
        /\ \A c \in Clients \ mine : ~last => entry'[c] = entry[c]
        /\ \A c \in Clients : last => entry'[c].watch_demands = 0
    BY <1>4, <2>1
  <2>3. /\ \A c \in Clients \ mine : box'[c] = box[c]
        /\ \A c \in Clients : box'[c].failed = box[c].failed
    BY <1>5
  <2> QED
    BY <1>6, <1>7, <2>2, <2>3

\* A VM detaches.
LEMMA DetachInv ==
  ASSUME Inv, \E o \in Owners : DetachOwner(o)
  PROVE  Inv'
<1>1. ASSUME NEW o \in Owners, DetachOwner(o) PROVE Inv'
  <2>1. PICK mine, last, s :
          /\ mine = {c \in Clients : Live(c) /\ entry[c].owner = o /\ ~entry[c].orphan}
          /\ last \in BOOLEAN /\ (last <=> owners = {o})
          /\ s = IF last /\ state = "Running" THEN "Stopping" ELSE state
    BY DEF LastOwner
  <2>2. /\ o \in owners /\ thread[o].pc = "idle" /\ ~thread[o].token /\ owners' = owners \ {o}
        /\ (stop' <=> stop \/ last) /\ stop' \in BOOLEAN /\ state' = s
        /\ UNCHANGED <<gen, joinable, worker, td>>
    <3>1. stop' = (stop \/ last) /\ state' = s
      BY <1>1, <2>1 DEF DetachOwner, LastOwner
    <3>2. stop' \in BOOLEAN
      BY <2>1, <3>1 DEF Inv, TypeOK
    <3> QED
      BY <1>1, <3>1, <3>2 DEF DetachOwner, Idle, Inv, CallsHold
  <2>0. DetachOwner(o) /\ last \in BOOLEAN /\ (last <=> LastOwner(o))
    BY <1>1, <2>1 DEF LastOwner
  <2>3. /\ entry' \in [Clients -> Entry] /\ box' \in [Clients -> Box]
        /\ watch' \in [Clients -> Watch] /\ mine \subseteq Clients
    BY <2>0, <2>1, DetachFields
  <2>4. /\ \A c \in mine : Left(entry[c], entry'[c])
        /\ \A c \in Clients \ mine : Lessened(entry[c], entry'[c])
        /\ \A c \in Clients \ mine : entry'[c].active_drivers = entry[c].active_drivers
        /\ \A c \in Clients \ mine : ~last => entry'[c] = entry[c]
        /\ \A c \in Clients \ mine : box'[c] = box[c]
        /\ \A c \in Clients : last => entry'[c].watch_demands = 0
        /\ \A c \in Clients : box'[c].failed = box[c].failed
        /\ \A c \in Clients : last \/ c \in mine => ~watch'[c].token
        /\ \A c \in Clients : ~last /\ c \notin mine => watch'[c] = watch[c]
    BY <2>0, <2>1, DetachFields, ZenonT(40)
  <2>5. /\ thread' \in [Owners -> Thread] /\ OnlyThread(o) /\ ~thread'[o].token
        /\ thread'[o].pc \in {"reap", "join", "gone"}
    <3>1. PICK pc \in {"reap", "join", "gone"} :
            \/ thread' = [thread EXCEPT ![o].pc = pc, ![o].call = "detach"] /\ (pc = "reap" \/ pc = "join")
            \/ thread' = [thread EXCEPT ![o] = Ready(pc)]
      BY <1>1 DEF DetachOwner, ReapWaits, ReapJoins
    <3>2. ~thread[o].token /\ pc \in OwnerPc
      BY <1>1 DEF DetachOwner, Idle, Inv, CallsHold, OwnerPc
    <3>3. CASE thread' = [thread EXCEPT ![o] = Ready(pc)]
      BY <3>1, <3>2, <3>3, ReadyFields, ThreadBecomes DEF Inv
    <3>4. CASE thread' = [thread EXCEPT ![o].pc = pc, ![o].call = "detach"]
      BY <3>1, <3>2, <3>4 DEF Inv, TypeOK, Thread, OnlyThread
    <3> QED
      BY <3>1, <3>3, <3>4
  <2>6. PICK rest \in {parked, {}} :
          /\ rest = IF last \/ mine # {} THEN {} ELSE parked
          /\ \/ thread'[o].pc = "reap" /\ joining /\ joining' /\ parked' = rest \cup {o}
             \/ /\ thread'[o].pc = "join" /\ ~joining /\ joining' /\ joinable /\ parked' = rest
                /\ s \in {"Stopping", "Failed"}
             \/ /\ thread'[o].pc = "gone" /\ ~joining /\ ~joining' /\ parked' = rest
    <3>1. PICK rest \in {parked, {}} : rest = IF last \/ mine # {} THEN {} ELSE parked
      OBVIOUS
    <3>2. \/ ReapWaits(o, "detach", rest)
          \/ ReapJoins(o, s, "detach", rest)
          \/ /\ ReapPasses(s) /\ parked' = rest
             /\ thread' = [thread EXCEPT ![o] = Ready("gone")]
             /\ UNCHANGED joining
      BY <1>1, <2>1, <3>1 DEF DetachOwner, LastOwner
    <3>3. \A pc, call : thread' = [thread EXCEPT ![o].pc = pc, ![o].call = call] => thread'[o].pc = pc
      BY DEF Inv, TypeOK, Thread
    <3>4. thread' = [thread EXCEPT ![o] = Ready("gone")] => thread'[o].pc = "gone"
      BY DEF Ready, Inv, TypeOK
    <3>5. CASE ReapWaits(o, "detach", rest)
      BY <3>1, <3>3, <3>5 DEF ReapWaits
    <3>6. CASE ReapJoins(o, s, "detach", rest)
      BY <3>1, <3>3, <3>6 DEF ReapJoins
    <3>7. CASE /\ ReapPasses(s) /\ parked' = rest
               /\ thread' = [thread EXCEPT ![o] = Ready("gone")]
               /\ UNCHANGED joining
      BY <3>1, <3>4, <3>7 DEF ReapPasses
    <3> QED
      BY <3>2, <3>5, <3>6, <3>7
  <2>7. joining' \in BOOLEAN
    BY <1>1 DEF DetachOwner, ReapWaits, ReapJoins, Inv, TypeOK
  <2>8. \A p \in Owners : thread[p].pc \in Busy => thread[p].client \in Clients \ mine
    BY <2>1, <2>2 DEF Inv, CallsHold, Held, Busy
  <2>9. TypeOK'
    <3>1. parked' \subseteq Owners \cup {"worker"}
      BY <2>1, <2>2, <2>3, <2>4, <2>5, <2>6, <2>7, <2>8 DEF Begun, Inv, TypeOK, Notify
    <3>2. stop' \in BOOLEAN
      BY <2>1, <2>2, <2>3, <2>4, <2>5, <2>6, <2>7, <2>8 DEF Begun, Inv, TypeOK, life
    <3>3. joining' \in BOOLEAN
      BY <2>1, <2>2, <2>3, <2>4, <2>5, <2>6, <2>7, <2>8 DEF Begun, Inv, TypeOK, life
    <3>4. joinable' \in BOOLEAN
      BY <2>1, <2>2, <2>3, <2>4, <2>5, <2>6, <2>7, <2>8 DEF Begun, Inv, TypeOK, life
    <3> QED
      BY <3>1, <3>3, <2>1, <2>2, <2>3, <2>5 DEF Inv, TypeOK
  <2>10. OneGeneration'
    <3>1. \A g \in 1..MaxGen : Alive(g)' => g = gen' /\ joinable'
      BY <2>2 DEF Inv, OneGeneration, Alive
    <3>2. state' = "Running" => joinable' /\ ~stop' /\ ~joining'
      BY <2>1, <2>2, <2>6 DEF Inv, OneGeneration
    <3>3. state' = "Stopped" => ~joinable' /\ ~joining'
      BY <2>1, <2>2, <2>6 DEF Inv, OneGeneration
    <3>4. state' = "Stopping" => joinable' /\ owners' = {}
      BY <2>1, <2>2 DEF Inv, OneGeneration
    <3>5. \A p \in Owners : thread'[p].pc = "join" => joining'
      BY <2>5, <2>6 DEF Inv, OneGeneration, OnlyThread
    <3>6. \A p, q \in Owners : thread'[p].pc = "join" /\ thread'[q].pc = "join" => p = q
      BY <2>5, <2>6 DEF Inv, OneGeneration, OnlyThread
    <3> QED
      BY <3>1, <3>2, <3>3, <3>4, <3>5, <3>6 DEF OneGeneration
  <2>11. CallsHold'
    BY <2>1, <2>2, <2>4, <2>5
    DEF Left, Lessened, Inv, CallsHold, Busy, Held, Live, OnlyThread
  <2>12. LeasesExact'
    <3>1. \A c \in Clients : Driven(c)' <=> Driven(c)
      BY <2>2, <2>5 DEF Driven, OnlyThread
    <3>2. \A c \in mine : ~Driven(c)
      BY <2>8 DEF Driven, Inv, CallsHold, Busy
    <3>3. \A c \in Clients \ mine : ~last => watch'[c] = watch[c] /\ entry'[c] = entry[c]
      BY <2>4
    <3>4. ASSUME NEW c \in Clients
          PROVE  /\ entry'[c].active_drivers = IF Driven(c)' THEN 1 ELSE 0
                 /\ entry'[c].watch_demands = IF watch'[c].token THEN 1 ELSE 0
                 /\ watch'[c].token => watch'[c].lease
      <4>1. CASE c \in mine
        BY <2>4, <3>1, <3>2, <4>1 DEF Left
      <4>2. CASE c \notin mine /\ last
        BY <2>4, <3>1, <4>2 DEF Inv, LeasesExact
      <4>3. CASE c \notin mine /\ ~last
        BY <2>4, <3>1, <3>3, <4>3 DEF Inv, LeasesExact
      <4> QED
        BY <4>1, <4>2, <4>3, <2>1
    <3> QED
      BY <3>4 DEF LeasesExact
  <2>13. TerminalHasNoDemand'
    BY <2>4 DEF Left, Lessened, Inv, TerminalHasNoDemand
  <2>14. TerminalKnown'
    BY <2>1, <2>2, <2>4 DEF Left, Lessened, Inv, TerminalKnown, Failed
  <2>15. DemandServed'
    BY <2>1, <2>2, <2>4 DEF Left, Lessened, Inv, DemandServed, CallsHold, Live, Failed
  <2>16. SleepersJustified'
    BY <2>2, <2>4, <2>5, <2>6, <2>8, WorkerAssumption
    DEF Inv, SleepersJustified, Demand, Live, Busy, OnlyThread
  <2> QED
    BY <2>9, <2>10, <2>11, <2>12, <2>13, <2>14, <2>15, <2>16 DEF Inv
<1> QED
  BY <1>1

-----------------------------------------------------------------------------
(***************************************************************************)
(* The worker.                                                             *)
(***************************************************************************)

\* The worker moves on and keeps the item it received.
LEMMA WorkerMoves ==
  ASSUME TypeOK, NEW g \in 1..MaxGen, NEW pc \in WorkerPc, WorkerGoto(g, pc)
  PROVE  /\ worker' \in [1..MaxGen -> Generation] /\ OnlyWorker(g)
         /\ worker'[g].pc = pc /\ worker'[g].item = worker[g].item
<1>1. worker' = [worker EXCEPT ![g].pc = pc]
  BY DEF WorkerGoto
<1>2. worker' \in [1..MaxGen -> Generation]
  BY <1>1 DEF TypeOK, Generation
<1>3. OnlyWorker(g)
  BY <1>1 DEF TypeOK, OnlyWorker
<1> QED
  BY <1>1, <1>2, <1>3 DEF TypeOK, Generation

\* completeOneShotLocked() clears the claim and what the worker received.
LEMMA CompletedFields ==
  ASSUME TypeOK, NEW g \in 1..MaxGen, Completed(g)
  PROVE  /\ worker' \in [1..MaxGen -> Generation] /\ OnlyWorker(g) /\ worker'[g].pc = "loop"
         /\ entry' \in [Clients -> Entry]
         /\ \A c \in Clients : Asked(entry[c], entry'[c])
         /\ \A c \in Clients : Demanded(entry'[c]) => Demanded(entry[c])
<1>1. PICK w : /\ w = [pc |-> "loop", shot |-> None, item |-> NoItem]
               /\ worker' = [worker EXCEPT ![g] = w]
  BY DEF Completed
<1>2. w \in Generation
  BY <1>1 DEF Generation, WorkerPc, NoItem, Item, Kinds
<1>3. w.pc = "loop"
  BY <1>1
<1>4. worker' \in [1..MaxGen -> Generation] /\ OnlyWorker(g) /\ worker'[g].pc = "loop"
  BY <1>1, <1>2, <1>3 DEF TypeOK, OnlyWorker
<1>5. \A c \in Clients : entry[c] \in Entry
  BY DEF TypeOK
<1>6. CASE entry' = entry
  BY <1>4, <1>5, <1>6 DEF Asked, TypeOK
<1>7. CASE entry' # entry
  <2>1. PICK c \in Clients : entry' = [entry EXCEPT ![c].one_shot_in_flight = FALSE]
    BY <1>7 DEF Completed, TypeOK, Generation
  <2>2. PICK x : /\ x = [entry[c] EXCEPT !.one_shot_in_flight = FALSE]
                 /\ entry' = [entry EXCEPT ![c] = x]
    BY <2>1
  <2>3. Asked(entry[c], x) /\ (Demanded(x) => Demanded(entry[c]))
    BY <1>5, <2>2, ShotFields
  <2>4. entry' \in [Clients -> Entry] /\ entry'[c] = x /\ OnlyEntry(c)
    BY <2>2, <2>3, EntryBecomes DEF Asked
  <2> QED
    BY <1>4, <1>5, <2>3, <2>4 DEF Asked, OnlyEntry
<1> QED
  BY <1>6, <1>7

\* The loop of the worker.
LEMMA LoopInv ==
  ASSUME Inv, \E g \in 1..MaxGen : \/ WorkerStops(g) \/ WorkerParks(g) \/ WorkerClaims(g) \/ ReceiveStep(g)
                               \/ PublishLookup(g) \/ PublishDone(g) \/ WorkerThrows(g) \/ CleanupDone(g)
  PROVE  Inv'
<1>1. ASSUME NEW g \in 1..MaxGen, WorkerStops(g) PROVE Inv'
  <2>1. /\ UNCHANGED <<entry, box, owners, life, joining, thread, watch, td>> /\ parked' = {}
        /\ worker[g].pc = "loop"
    BY <1>1 DEF WorkerStops, Notify
  <2>2. /\ worker' \in [1..MaxGen -> Generation] /\ OnlyWorker(g) /\ worker'[g].pc = "exited"
        /\ worker'[g].item = worker[g].item
    BY <1>1, WorkerMoves DEF WorkerStops, Inv, WorkerPc
  <2>3. TypeOK'
    <3>1. parked' \subseteq Owners \cup {"worker"}
      BY <2>1, <2>2 DEF Begun, Inv, TypeOK, Notify
    <3>2. stop' \in BOOLEAN
      BY <2>1, <2>2 DEF Begun, Inv, TypeOK, life
    <3>3. joining' \in BOOLEAN
      BY <2>1, <2>2 DEF Begun, Inv, TypeOK, life
    <3>4. joinable' \in BOOLEAN
      BY <2>1, <2>2 DEF Begun, Inv, TypeOK, life
    <3> QED
      BY <3>1, <3>2, <3>3, <3>4, <2>1, <2>2 DEF Begun, Inv, TypeOK, life, Notify, Asked
  <2>4. OneGeneration'
    BY <2>1, <2>2, GenerationStays DEF Alive, OnlyThread, OnlyWorker, Inv, OneGeneration
  <2>5. CallsHold'
    BY <2>1 DEF Inv, CallsHold, Held, Live
  <2>6. LeasesExact'
    <3>1. SameLeases
      BY <2>1 DEF SameLeases
    <3> QED
      BY <3>1, LeasesStay
  <2>7. TerminalHasNoDemand'
    BY <2>1 DEF Inv, TerminalHasNoDemand
  <2>8. TerminalKnown'
    BY <2>1, <2>2 DEF Inv, TerminalKnown, Failed, life, OnlyWorker
  <2>9. DemandServed'
    BY <2>1 DEF Inv, DemandServed, Live, Failed, life
  <2>10. SleepersJustified'
    BY <2>1 DEF Inv, SleepersJustified
  <2> QED
    BY <2>3, <2>4, <2>5, <2>6, <2>7, <2>8, <2>9, <2>10 DEF Inv
<1>2. ASSUME NEW g \in 1..MaxGen, WorkerParks(g) PROVE Inv'
  <2>1. /\ UNCHANGED <<entry, box, owners, life, joining, worker, thread, watch, td>>
        /\ parked' = parked \cup {"worker"} /\ ~stop /\ ~Demand
    BY <1>2 DEF WorkerParks
  <2>2. TypeOK'
    <3>1. parked' \subseteq Owners \cup {"worker"}
      BY <2>1 DEF Begun, Inv, TypeOK, Notify
    <3>2. stop' \in BOOLEAN
      BY <2>1 DEF Begun, Inv, TypeOK, life
    <3>3. joining' \in BOOLEAN
      BY <2>1 DEF Begun, Inv, TypeOK, life
    <3>4. joinable' \in BOOLEAN
      BY <2>1 DEF Begun, Inv, TypeOK, life
    <3> QED
      BY <3>1, <3>2, <3>3, <3>4, <2>1 DEF Begun, Inv, TypeOK, life, Notify, Asked
  <2>3. OneGeneration'
    BY <2>1, GenerationStays DEF Alive, OnlyThread, OnlyWorker, Inv, OneGeneration
  <2>4. CallsHold'
    BY <2>1 DEF Inv, CallsHold, Held, Live
  <2>5. LeasesExact'
    <3>1. SameLeases
      BY <2>1 DEF SameLeases
    <3> QED
      BY <3>1, LeasesStay
  <2>6. TerminalHasNoDemand'
    BY <2>1 DEF Inv, TerminalHasNoDemand
  <2>7. TerminalKnown'
    BY <2>1 DEF Inv, TerminalKnown, Failed, life
  <2>8. DemandServed'
    BY <2>1 DEF Inv, DemandServed, Live, Failed, life
  <2>9. SleepersJustified'
    BY <2>1, WorkerAssumption DEF Inv, SleepersJustified, Demand, Live, life
  <2> QED
    BY <2>2, <2>3, <2>4, <2>5, <2>6, <2>7, <2>8, <2>9 DEF Inv
<1>3. ASSUME NEW g \in 1..MaxGen, WorkerClaims(g) PROVE Inv'
  <2>1. /\ UNCHANGED <<box, owners, life, joining, parked, thread, watch, td>>
        /\ worker[g].pc = "loop" /\ "worker" \notin parked
    BY <1>3 DEF WorkerClaims
  <2>2. PICK shot \in Clients \cup {None} :
          /\ worker' = [worker EXCEPT ![g] = [worker[g] EXCEPT !.pc = "receiving", !.shot = shot]]
          /\ \/ entry' = entry
             \/ /\ shot \in Clients /\ entry[shot].one_shot_pending
                /\ entry' = [entry EXCEPT ![shot] = [entry[shot] EXCEPT !.one_shot_pending = FALSE,
                                                                        !.one_shot_in_flight = TRUE]]
    BY <1>3, NoneAssumption DEF WorkerClaims, FirstPolled, Polled
  <2>3. /\ worker' \in [1..MaxGen -> Generation] /\ OnlyWorker(g) /\ worker'[g].pc = "receiving"
    <3>1. PICK w : /\ w = [worker[g] EXCEPT !.pc = "receiving", !.shot = shot]
                   /\ worker' = [worker EXCEPT ![g] = w]
      BY <2>2
    <3>2. worker[g] \in Generation
      BY DEF Inv, TypeOK
    <3>3. w \in Generation /\ w.pc = "receiving"
      BY <3>1, <3>2 DEF Generation, WorkerPc
    <3> QED
      BY <3>1, <3>3 DEF Inv, TypeOK, OnlyWorker
  <2>4. /\ entry' \in [Clients -> Entry]
        /\ \A c \in Clients : Asked(entry[c], entry'[c]) /\ (Demanded(entry'[c]) => Demanded(entry[c]))
    <3>1. \A c \in Clients : entry[c] \in Entry
      BY DEF Inv, TypeOK
    <3>2. CASE entry' = entry
      BY <3>1, <3>2 DEF Inv, TypeOK, Asked
    <3>3. CASE entry' # entry
      <4>1. PICK x : /\ x = [entry[shot] EXCEPT !.one_shot_pending = FALSE, !.one_shot_in_flight = TRUE]
                     /\ entry' = [entry EXCEPT ![shot] = x]
        BY <2>2, <3>3
      <4>2. shot \in Clients /\ entry[shot].one_shot_pending
        BY <2>2, <3>3
      <4>3. Asked(entry[shot], x) /\ Demanded(entry[shot])
        BY <3>1, <4>1, <4>2, ShotFields
      <4>4. entry' \in [Clients -> Entry] /\ entry'[shot] = x /\ OnlyEntry(shot)
        BY <4>1, <4>2, <4>3, EntryBecomes DEF Inv, Asked
      <4> QED
        BY <3>1, <4>3, <4>4 DEF Asked, OnlyEntry
    <3> QED
      BY <3>2, <3>3
  <2>5. TypeOK'
    <3>1. parked' \subseteq Owners \cup {"worker"}
      BY <2>1, <2>3, <2>4 DEF Begun, Inv, TypeOK, Notify
    <3>2. stop' \in BOOLEAN
      BY <2>1, <2>3, <2>4 DEF Begun, Inv, TypeOK, life
    <3>3. joining' \in BOOLEAN
      BY <2>1, <2>3, <2>4 DEF Begun, Inv, TypeOK, life
    <3>4. joinable' \in BOOLEAN
      BY <2>1, <2>3, <2>4 DEF Begun, Inv, TypeOK, life
    <3> QED
      BY <3>1, <3>2, <3>3, <3>4, <2>1, <2>3, <2>4 DEF Begun, Inv, TypeOK, life, Notify, Asked
  <2>6. OneGeneration'
    BY <2>1, <2>3, <2>4, GenerationStays DEF Alive, OnlyThread, OnlyWorker, Inv, OneGeneration
  <2>7. CallsHold'
    BY <2>1, <2>4 DEF Asked, Inv, CallsHold, Held, Live
  <2>8. LeasesExact'
    <3>1. SameLeases
      BY <2>1, <2>4 DEF Asked, SameLeases
    <3> QED
      BY <3>1, LeasesStay
  <2>9. TerminalHasNoDemand'
    BY <2>4 DEF Asked, Inv, TerminalHasNoDemand
  <2>10. TerminalKnown'
    BY <2>1, <2>3, <2>4 DEF Asked, Inv, TerminalKnown, Failed, life, OnlyWorker
  <2>11. DemandServed'
    BY <2>1, <2>4 DEF Inv, DemandServed, Asked, Live, Failed, life
  <2>12. SleepersJustified'
    BY <2>1 DEF Inv, SleepersJustified
  <2> QED
    BY <2>5, <2>6, <2>7, <2>8, <2>9, <2>10, <2>11, <2>12 DEF Inv
<1>4. ASSUME NEW g \in 1..MaxGen, ReceiveEmpty(g) PROVE Inv'
  <2>1. /\ worker[g].pc = "receiving" /\ Completed(g) /\ parked' = {}
        /\ UNCHANGED <<box, owners, life, joining, thread, watch, td>>
    BY <1>4 DEF ReceiveEmpty, Completed, Notify
  <2>2. /\ worker' \in [1..MaxGen -> Generation] /\ OnlyWorker(g) /\ worker'[g].pc = "loop"
        /\ entry' \in [Clients -> Entry]
        /\ \A c \in Clients : Asked(entry[c], entry'[c]) /\ (Demanded(entry'[c]) => Demanded(entry[c]))
    BY <2>1, CompletedFields DEF Inv
  <2>3. TypeOK'
    <3>1. parked' \subseteq Owners \cup {"worker"}
      BY <2>1, <2>2 DEF Begun, Inv, TypeOK, Notify
    <3>2. stop' \in BOOLEAN
      BY <2>1, <2>2 DEF Begun, Inv, TypeOK, life
    <3>3. joining' \in BOOLEAN
      BY <2>1, <2>2 DEF Begun, Inv, TypeOK, life
    <3>4. joinable' \in BOOLEAN
      BY <2>1, <2>2 DEF Begun, Inv, TypeOK, life
    <3> QED
      BY <3>1, <3>2, <3>3, <3>4, <2>1, <2>2 DEF Begun, Inv, TypeOK, life, Notify, Asked
  <2>4. OneGeneration'
    BY <2>1, <2>2, GenerationStays DEF Alive, OnlyThread, OnlyWorker, Inv, OneGeneration
  <2>5. CallsHold'
    BY <2>1, <2>2 DEF Asked, Inv, CallsHold, Held, Live
  <2>6. LeasesExact'
    <3>1. SameLeases
      BY <2>1, <2>2 DEF Asked, SameLeases
    <3> QED
      BY <3>1, LeasesStay
  <2>7. TerminalHasNoDemand'
    BY <2>2 DEF Asked, Inv, TerminalHasNoDemand
  <2>8. TerminalKnown'
    BY <2>1, <2>2 DEF Asked, Inv, TerminalKnown, Failed, life, OnlyWorker
  <2>9. DemandServed'
    BY <2>1, <2>2 DEF Inv, DemandServed, Asked, Live, Failed, life
  <2>10. SleepersJustified'
    BY <2>1 DEF Inv, SleepersJustified
  <2> QED
    BY <2>3, <2>4, <2>5, <2>6, <2>7, <2>8, <2>9, <2>10 DEF Inv
<1>5. ASSUME NEW g \in 1..MaxGen, NEW c \in Clients,
             NEW kind \in Kinds, NEW request \in Sends \cup {"none"}, ReceiveItem(g, c, kind, request) PROVE Inv'
  <2>1. /\ UNCHANGED <<entry, box, owners, life, joining, parked, thread, watch>>
        /\ worker[g].pc = "receiving"
    BY <1>5 DEF ReceiveItem
  <2>2. /\ worker' \in [1..MaxGen -> Generation] /\ OnlyWorker(g) /\ worker'[g].pc = "publish"
        /\ worker'[g].item.client = c /\ worker'[g].item.kind = kind
    <3>1. PICK i : i = [client |-> c, kind |-> kind, request |-> request]
      OBVIOUS
    <3>2. i \in Item /\ i.client = c /\ i.kind = kind
      BY <3>1, SendsAssumption DEF Item
    <3>3. PICK w : /\ w = [worker[g] EXCEPT !.pc = "publish", !.item = i]
                   /\ worker' = [worker EXCEPT ![g] = w]
      BY <1>5, <3>1 DEF ReceiveItem
    <3>4. worker[g] \in Generation
      BY DEF Inv, TypeOK
    <3>5. w \in Generation
      BY <3>2, <3>3, <3>4 DEF Generation, WorkerPc
    <3>6. w.pc = "publish" /\ w.item = i
      BY <3>3, <3>4 DEF Generation
    <3> QED
      BY <3>2, <3>3, <3>5, <3>6 DEF Inv, TypeOK, OnlyWorker
  <2>3. /\ td' \in [Clients -> Tdlib] /\ (kind = "terminal" => td'[c].ended)
        /\ \A d \in Clients : td[d].ended => td'[d].ended
    <3>0. \A d \in Clients : td[d] \in Tdlib
      BY DEF Inv, TypeOK
    <3>1. CASE kind = "update"
      <4>1. PICK t : /\ t = [td[c] EXCEPT !.updates = @ - 1] /\ td' = [td EXCEPT ![c] = t]
                     /\ td[c].updates > 0
        BY <1>5, <3>1 DEF ReceiveItem
      <4>2. td[c].updates - 1 \in 0..MaxUpdates
        BY <3>0, <4>1, MaxUpdatesNat DEF Tdlib
      <4>3. t \in Tdlib
        BY <3>0, <4>1, <4>2 DEF Tdlib
      <4>4. t.ended = td[c].ended
        BY <3>0, <4>1 DEF Tdlib
      <4> QED
        BY <3>1, <4>1, <4>3, <4>4 DEF Inv, TypeOK
    <3>2. CASE kind = "response"
      <4>1. PICK t : t = [td[c] EXCEPT !.open = @ \ {request}] /\ td' = [td EXCEPT ![c] = t]
        BY <1>5, <3>2 DEF ReceiveItem
      <4>2. t \in Tdlib
        BY <3>0, <4>1 DEF Tdlib
      <4>3. t.ended = td[c].ended
        BY <3>0, <4>1 DEF Tdlib
      <4> QED
        BY <3>2, <4>1, <4>2, <4>3 DEF Inv, TypeOK
    <3>3. CASE kind = "terminal"
      <4>1. td' = [td EXCEPT ![c].ended = TRUE]
        BY <1>5, <3>3 DEF ReceiveItem
      <4> QED
        BY <4>1, TdEnds DEF Inv
    <3> QED
      BY <3>1, <3>2, <3>3 DEF Kinds
  <2>4. TypeOK'
    <3>1. parked' \subseteq Owners \cup {"worker"}
      BY <2>1, <2>2, <2>3 DEF Begun, Inv, TypeOK, Notify
    <3>2. stop' \in BOOLEAN
      BY <2>1, <2>2, <2>3 DEF Begun, Inv, TypeOK, life
    <3>3. joining' \in BOOLEAN
      BY <2>1, <2>2, <2>3 DEF Begun, Inv, TypeOK, life
    <3>4. joinable' \in BOOLEAN
      BY <2>1, <2>2, <2>3 DEF Begun, Inv, TypeOK, life
    <3> QED
      BY <3>1, <3>2, <3>3, <3>4, <2>1, <2>2, <2>3 DEF Begun, Inv, TypeOK, life, Notify, Asked
  <2>5. OneGeneration'
    BY <2>1, <2>2, <2>3, GenerationStays DEF Alive, OnlyThread, OnlyWorker, Inv, OneGeneration
  <2>6. CallsHold'
    BY <2>1 DEF Inv, CallsHold, Held, Live
  <2>7. LeasesExact'
    <3>1. SameLeases
      BY <2>1 DEF SameLeases
    <3> QED
      BY <3>1, LeasesStay
  <2>8. TerminalHasNoDemand'
    BY <2>1 DEF Inv, TerminalHasNoDemand
  <2>9. TerminalKnown'
    BY <2>1, <2>2, <2>3 DEF Inv, TerminalKnown, Failed, life, OnlyWorker
  <2>10. DemandServed'
    BY <2>1 DEF Inv, DemandServed, Live, Failed, life
  <2>11. SleepersJustified'
    BY <2>1 DEF Inv, SleepersJustified, Demand, Live, life
  <2> QED
    BY <2>4, <2>5, <2>6, <2>7, <2>8, <2>9, <2>10, <2>11 DEF Inv
<1>6. ASSUME NEW g \in 1..MaxGen, PublishLookup(g) PROVE Inv'
  <2>1. /\ UNCHANGED <<entry, box, owners, life, joining, parked, thread, watch, td>>
        /\ worker[g].pc = "publish"
    BY <1>6 DEF PublishLookup
  <2>2. PICK pc \in {"commit", "published"} : WorkerGoto(g, pc)
    BY <1>6 DEF PublishLookup
  <2>3. /\ worker' \in [1..MaxGen -> Generation] /\ OnlyWorker(g) /\ worker'[g].pc = pc
        /\ worker'[g].item = worker[g].item
    BY <2>2, WorkerMoves DEF Inv, WorkerPc
  <2>4. TypeOK'
    <3>1. parked' \subseteq Owners \cup {"worker"}
      BY <2>1, <2>2, <2>3 DEF Begun, Inv, TypeOK, Notify
    <3>2. stop' \in BOOLEAN
      BY <2>1, <2>2, <2>3 DEF Begun, Inv, TypeOK, life
    <3>3. joining' \in BOOLEAN
      BY <2>1, <2>2, <2>3 DEF Begun, Inv, TypeOK, life
    <3>4. joinable' \in BOOLEAN
      BY <2>1, <2>2, <2>3 DEF Begun, Inv, TypeOK, life
    <3> QED
      BY <3>1, <3>2, <3>3, <3>4, <2>1, <2>2, <2>3 DEF Begun, Inv, TypeOK, life, Notify, Asked
  <2>5. OneGeneration'
    BY <2>1, <2>2, <2>3, GenerationStays DEF Alive, OnlyThread, OnlyWorker, Inv, OneGeneration
  <2>6. CallsHold'
    BY <2>1 DEF Inv, CallsHold, Held, Live
  <2>7. LeasesExact'
    <3>1. SameLeases
      BY <2>1 DEF SameLeases
    <3> QED
      BY <3>1, LeasesStay
  <2>8. TerminalHasNoDemand'
    BY <2>1 DEF Inv, TerminalHasNoDemand
  <2>9. TerminalKnown'
    BY <2>1, <2>3 DEF Inv, TerminalKnown, Failed, life, OnlyWorker
  <2>10. DemandServed'
    BY <2>1 DEF Inv, DemandServed, Live, Failed, life
  <2>11. SleepersJustified'
    BY <2>1 DEF Inv, SleepersJustified, Demand, Live, life
  <2> QED
    BY <2>4, <2>5, <2>6, <2>7, <2>8, <2>9, <2>10, <2>11 DEF Inv
<1>7. ASSUME NEW g \in 1..MaxGen, PublishDone(g) PROVE Inv'
  <2>1. /\ worker[g].pc = "published" /\ Completed(g) /\ parked' = {}
        /\ UNCHANGED <<box, owners, life, joining, thread, watch, td>>
    BY <1>7 DEF PublishDone, Completed, Notify
  <2>2. /\ worker' \in [1..MaxGen -> Generation] /\ OnlyWorker(g) /\ worker'[g].pc = "loop"
        /\ entry' \in [Clients -> Entry]
        /\ \A c \in Clients : Asked(entry[c], entry'[c]) /\ (Demanded(entry'[c]) => Demanded(entry[c]))
    BY <2>1, CompletedFields DEF Inv
  <2>3. TypeOK'
    <3>1. parked' \subseteq Owners \cup {"worker"}
      BY <2>1, <2>2 DEF Begun, Inv, TypeOK, Notify
    <3>2. stop' \in BOOLEAN
      BY <2>1, <2>2 DEF Begun, Inv, TypeOK, life
    <3>3. joining' \in BOOLEAN
      BY <2>1, <2>2 DEF Begun, Inv, TypeOK, life
    <3>4. joinable' \in BOOLEAN
      BY <2>1, <2>2 DEF Begun, Inv, TypeOK, life
    <3> QED
      BY <3>1, <3>2, <3>3, <3>4, <2>1, <2>2 DEF Begun, Inv, TypeOK, life, Notify, Asked
  <2>4. OneGeneration'
    BY <2>1, <2>2, GenerationStays DEF Alive, OnlyThread, OnlyWorker, Inv, OneGeneration
  <2>5. CallsHold'
    BY <2>1, <2>2 DEF Asked, Inv, CallsHold, Held, Live
  <2>6. LeasesExact'
    <3>1. SameLeases
      BY <2>1, <2>2 DEF Asked, SameLeases
    <3> QED
      BY <3>1, LeasesStay
  <2>7. TerminalHasNoDemand'
    BY <2>2 DEF Asked, Inv, TerminalHasNoDemand
  <2>8. TerminalKnown'
    BY <2>1, <2>2 DEF Asked, Inv, TerminalKnown, Failed, life, OnlyWorker
  <2>9. DemandServed'
    BY <2>1, <2>2 DEF Inv, DemandServed, Asked, Live, Failed, life
  <2>10. SleepersJustified'
    BY <2>1 DEF Inv, SleepersJustified
  <2> QED
    BY <2>3, <2>4, <2>5, <2>6, <2>7, <2>8, <2>9, <2>10 DEF Inv
<1>8. ASSUME NEW g \in 1..MaxGen, WorkerThrows(g) PROVE Inv'
  <2>1. /\ UNCHANGED <<entry, box, owners, life, joining, parked, thread, watch, td>>
        /\ worker[g].pc \in {"receiving", "publish", "commit", "published"}
    BY <1>8 DEF WorkerThrows
  <2>2. /\ worker' \in [1..MaxGen -> Generation] /\ OnlyWorker(g) /\ worker'[g].pc = "failing"
        /\ worker'[g].item = worker[g].item
    BY <1>8, WorkerMoves DEF WorkerThrows, Inv, WorkerPc
  <2>3. TypeOK'
    <3>1. parked' \subseteq Owners \cup {"worker"}
      BY <2>1, <2>2 DEF Begun, Inv, TypeOK, Notify
    <3>2. stop' \in BOOLEAN
      BY <2>1, <2>2 DEF Begun, Inv, TypeOK, life
    <3>3. joining' \in BOOLEAN
      BY <2>1, <2>2 DEF Begun, Inv, TypeOK, life
    <3>4. joinable' \in BOOLEAN
      BY <2>1, <2>2 DEF Begun, Inv, TypeOK, life
    <3> QED
      BY <3>1, <3>2, <3>3, <3>4, <2>1, <2>2 DEF Begun, Inv, TypeOK, life, Notify, Asked
  <2>4. OneGeneration'
    BY <2>1, <2>2, GenerationStays DEF Alive, OnlyThread, OnlyWorker, Inv, OneGeneration
  <2>5. CallsHold'
    BY <2>1 DEF Inv, CallsHold, Held, Live
  <2>6. LeasesExact'
    <3>1. SameLeases
      BY <2>1 DEF SameLeases
    <3> QED
      BY <3>1, LeasesStay
  <2>7. TerminalHasNoDemand'
    BY <2>1 DEF Inv, TerminalHasNoDemand
  <2>8. TerminalKnown'
    BY <2>1, <2>2 DEF Inv, TerminalKnown, Failed, life, OnlyWorker
  <2>9. DemandServed'
    BY <2>1 DEF Inv, DemandServed, Live, Failed, life
  <2>10. SleepersJustified'
    BY <2>1 DEF Inv, SleepersJustified, Demand, Live, life
  <2> QED
    BY <2>3, <2>4, <2>5, <2>6, <2>7, <2>8, <2>9, <2>10 DEF Inv
<1>9. ASSUME NEW g \in 1..MaxGen, CleanupDone(g) PROVE Inv'
  <2>1. /\ UNCHANGED <<entry, box, owners, life, joining, thread, watch, td>> /\ parked' = {}
        /\ worker[g].pc = "cleanup"
    BY <1>9 DEF CleanupDone, Notify
  <2>2. /\ worker' \in [1..MaxGen -> Generation] /\ OnlyWorker(g) /\ worker'[g].pc = "exited"
        /\ worker'[g].item = worker[g].item
    BY <1>9, WorkerMoves DEF CleanupDone, Inv, WorkerPc
  <2>3. TypeOK'
    <3>1. parked' \subseteq Owners \cup {"worker"}
      BY <2>1, <2>2 DEF Begun, Inv, TypeOK, Notify
    <3>2. stop' \in BOOLEAN
      BY <2>1, <2>2 DEF Begun, Inv, TypeOK, life
    <3>3. joining' \in BOOLEAN
      BY <2>1, <2>2 DEF Begun, Inv, TypeOK, life
    <3>4. joinable' \in BOOLEAN
      BY <2>1, <2>2 DEF Begun, Inv, TypeOK, life
    <3> QED
      BY <3>1, <3>2, <3>3, <3>4, <2>1, <2>2 DEF Begun, Inv, TypeOK, life, Notify, Asked
  <2>4. OneGeneration'
    BY <2>1, <2>2, GenerationStays DEF Alive, OnlyThread, OnlyWorker, Inv, OneGeneration
  <2>5. CallsHold'
    BY <2>1 DEF Inv, CallsHold, Held, Live
  <2>6. LeasesExact'
    <3>1. SameLeases
      BY <2>1 DEF SameLeases
    <3> QED
      BY <3>1, LeasesStay
  <2>7. TerminalHasNoDemand'
    BY <2>1 DEF Inv, TerminalHasNoDemand
  <2>8. TerminalKnown'
    BY <2>1, <2>2 DEF Inv, TerminalKnown, Failed, life, OnlyWorker
  <2>9. DemandServed'
    BY <2>1 DEF Inv, DemandServed, Live, Failed, life
  <2>10. SleepersJustified'
    BY <2>1 DEF Inv, SleepersJustified
  <2> QED
    BY <2>3, <2>4, <2>5, <2>6, <2>7, <2>8, <2>9, <2>10 DEF Inv
<1> QED
  BY <1>1, <1>2, <1>3, <1>4, <1>5, <1>6, <1>7, <1>8, <1>9 DEF ReceiveStep

\* A response settles the request it answers.
LEMMA AnsweredFields ==
  ASSUME NEW e \in Entry, NEW r
  PROVE  \A x : x = [e EXCEPT !.pending_requests = e.pending_requests \ {r}] =>
           Asked(e, x) /\ (Demanded(x) => Demanded(e))
<1> SUFFICES ASSUME NEW x, x = [e EXCEPT !.pending_requests = e.pending_requests \ {r}]
             PROVE  Asked(e, x) /\ (Demanded(x) => Demanded(e))
  OBVIOUS
<1>1. x \in Entry
  BY DEF Entry
<1>2. Asked(e, x)
  BY <1>1 DEF Entry, Asked
<1>3. Demanded(x) => Demanded(e)
  BY DEF Entry, Demanded
<1> QED
  BY <1>2, <1>3

\* A client whose terminal update is known ends, and its leases with it.
LEMMA EndInv ==
  ASSUME Inv, NEW c \in Clients, NEW x, NEW b \in Box,
         td[c].ended \/ Failed,
         entry' = [entry EXCEPT ![c] = x], Ended(entry[c], x),
         box' = [box EXCEPT ![c] = b], b.failed = box[c].failed, DropWatch({c}),
         thread' = [o \in Owners |-> DropLease(Woken(thread[o], {c}), {c})], parked' = {},
         UNCHANGED <<owners, life, joining, td>>,
         worker' \in [1..MaxGen -> Generation],
         \A g \in 1..MaxGen : Alive(g)' => Alive(g),
         \A g \in 1..MaxGen : worker'[g].pc \in {"publish", "commit", "cleanup"}
                                 => worker'[g] = worker[g]
  PROVE  Inv'
<1>1. /\ td[c].ended \/ Failed
      /\ UNCHANGED <<owners, life, joining, td>> /\ parked' = {}
      /\ worker' \in [1..MaxGen -> Generation]
      /\ \A g \in 1..MaxGen : Alive(g)' => Alive(g)
      /\ \A g \in 1..MaxGen : worker'[g].pc \in {"publish", "commit", "cleanup"}
                                 => worker'[g] = worker[g]
  OBVIOUS
<1>2. Ended(entry[c], x) /\ x \in Entry
  BY DEF Ended
<1>3. /\ entry' \in [Clients -> Entry] /\ entry'[c] = x /\ OnlyEntry(c)
  BY <1>2, EntryBecomes DEF Inv
<1>4. b.failed = box[c].failed /\ box' \in [Clients -> Box] /\ box'[c] = b /\ OnlyBox(c)
  BY BoxBecomes DEF Inv
<1>5. /\ watch' \in [Clients -> Watch] /\ ~watch'[c].token
      /\ \A d \in Clients : d # c => watch'[d] = watch[d]
  BY WatchFields DEF Inv
<1>6. /\ thread' \in [Owners -> Thread]
      /\ \A p \in Owners :
           /\ thread'[p].pc = IF thread[p].pc = "sleep" /\ thread[p].client = c
                              THEN "receive" ELSE thread[p].pc
           /\ thread'[p].client = thread[p].client /\ thread'[p].call = thread[p].call
           /\ thread'[p].token <=> thread[p].token /\ thread[p].client # c
  <2>1. PICK cs : cs = {c}
    OBVIOUS
  <2>2. thread' = [o \in Owners |-> DropLease(Woken(thread[o], cs), cs)]
    BY <2>1
  <2>3. /\ thread' \in [Owners -> Thread]
        /\ \A o \in Owners :
             /\ thread'[o].pc = IF thread[o].pc = "sleep" /\ thread[o].client \in cs
                                THEN "receive" ELSE thread[o].pc
             /\ thread'[o].client = thread[o].client /\ thread'[o].call = thread[o].call
             /\ thread'[o].token <=> thread[o].token /\ thread[o].client \notin cs
    BY <2>2, WokenFields DEF Inv
  <2> QED
    BY <2>1, <2>3
<1>7. \A p \in Owners : thread'[p].pc = "sleep" => thread[p].pc = "sleep" /\ thread[p].client \in Clients \ {c}
  <2>1. ASSUME NEW p \in Owners, thread'[p].pc = "sleep"
        PROVE  thread[p].pc = "sleep" /\ thread[p].client # c
    BY <1>6, <2>1
  <2>2. \A p \in Owners : thread[p].pc = "sleep" => thread[p].client \in Clients
    BY DEF Inv, CallsHold, Busy
  <2> QED
    BY <2>1, <2>2
<1>8. TypeOK'
  <2>1. parked' \subseteq Owners \cup {"worker"}
    BY <1>1, <1>2, <1>3, <1>4, <1>5, <1>6, <1>7 DEF Begun, Inv, TypeOK, Notify
  <2>2. stop' \in BOOLEAN
    BY <1>1, <1>2, <1>3, <1>4, <1>5, <1>6, <1>7 DEF Begun, Inv, TypeOK, life
  <2>3. joining' \in BOOLEAN
    BY <1>1, <1>2, <1>3, <1>4, <1>5, <1>6, <1>7 DEF Begun, Inv, TypeOK, life
  <2>4. joinable' \in BOOLEAN
    BY <1>1, <1>2, <1>3, <1>4, <1>5, <1>6, <1>7 DEF Begun, Inv, TypeOK, life
  <2> QED
    BY <1>2, <1>5, <1>6 DEF Inv, TypeOK, life
<1>9. OneGeneration'
  BY <1>6, GenerationStays
<1>10. CallsHold'
  <2>1. ASSUME NEW p \in Owners, thread'[p].pc \in Busy
        PROVE  thread'[p].client \in Clients /\ Held(p, thread[p].client)'
    <3>1. thread[p].pc \in Busy
      BY <1>6, <2>1 DEF Busy
    <3>2. thread[p].client \in Clients /\ Held(p, thread[p].client) /\ thread'[p].client = thread[p].client
      BY <1>6, <3>1 DEF Inv, CallsHold
    <3>3. CASE thread[p].client = c
      BY <1>2, <1>3, <3>2, <3>3 DEF Ended, Held, Live
    <3>4. CASE thread[p].client # c
      BY <1>3, <3>2, <3>4 DEF OnlyEntry, Held, Live
    <3> QED
      BY <3>3, <3>4
  <2>2. \A p \in Owners : thread'[p].token => thread'[p].pc \in {"receive", "sleep", "release"}
    BY <1>6 DEF Inv, CallsHold
  <2>3. \A p \in Owners : thread'[p].pc = "send" => thread'[p].call \in {"raw", "managed", "close"}
    BY <1>6 DEF Inv, CallsHold
  <2>4. \A d \in Clients : Live(d)' /\ ~entry'[d].orphan => entry'[d].owner \in owners'
    BY <1>1, <1>2, <1>3 DEF Ended, OnlyEntry, Live, Inv, CallsHold
  <2> QED
    BY <2>1, <2>2, <2>3, <2>4 DEF CallsHold
<1>11. LeasesExact'
  <2>1. PICK cs \in SUBSET Clients : cs = {c}
    OBVIOUS
  <2>2. \A d \in Clients \ cs : /\ entry'[d].active_drivers = entry[d].active_drivers
                                /\ entry'[d].watch_demands = entry[d].watch_demands
                                /\ watch'[d] = watch[d]
    BY <1>3, <1>5, <2>1 DEF OnlyEntry
  <2>3. \A d \in cs : /\ entry'[d].active_drivers = 0 /\ entry'[d].watch_demands = 0
                      /\ ~watch'[d].token
    BY <1>2, <1>3, <1>5, <2>1 DEF Ended
  <2>4. /\ \A p \in Owners : thread'[p].token => thread[p].token /\ thread'[p].client \notin cs
        /\ \A p \in Owners : thread[p].token => thread[p].client \in cs \/ thread'[p].token
        /\ \A p \in Owners : thread[p].token => thread'[p].client = thread[p].client
    BY <1>6, <2>1
  <2> QED
    BY <2>2, <2>3, <2>4, LeasesDropped
<1>12. TerminalHasNoDemand'
  BY DEF Ended, Inv, TerminalHasNoDemand
<1>13. TerminalKnown'
  BY DEF Inv, TerminalKnown, Failed, life
<1>14. DemandServed'
  BY DEF Ended, Inv, DemandServed, Live, Failed, life
<1>15. SleepersJustified'
  <2>1. "worker" \notin parked'
    BY <1>1
  <2>2. Owners \cap parked' = {}
    BY <1>1
  <2>3. ASSUME NEW p \in Owners, thread'[p].pc = "sleep"
        PROVE  ~Readable(box'[thread'[p].client])
    <3>1. thread[p].pc = "sleep" /\ thread[p].client \in Clients \ {c} /\ thread'[p].client = thread[p].client
      BY <1>6, <1>7, <2>3
    <3>2. box'[thread'[p].client] = box[thread[p].client]
      BY <1>4, <3>1 DEF OnlyBox
    <3>3. ~Readable(box[thread[p].client])
      BY <3>1 DEF Inv, SleepersJustified
    <3> QED
      BY <3>2, <3>3 DEF Readable
  <2> QED
    BY <2>1, <2>2, <2>3 DEF SleepersJustified
<1> QED
  BY <1>8, <1>9, <1>10, <1>11, <1>12, <1>13, <1>14, <1>15 DEF Inv

\* An item is committed; the drain ends a client.
LEMMA CommitInv ==
  ASSUME Inv, \E g \in 1..MaxGen : PublishCommit(g) \/ \E c \in Clients : CleanupStep(g, c)
  PROVE  Inv'
<1>1. ASSUME NEW g \in 1..MaxGen, PublishCommit(g) PROVE Inv'
  <2>1. PICK i : i = worker[g].item
    OBVIOUS
  <2>2. /\ worker[g].pc = "commit" /\ i.client \in Clients /\ i.kind \in Kinds
        /\ i.kind = "terminal" => td[i.client].ended
    BY <1>1, <2>1 DEF PublishCommit, Inv, TerminalKnown, TypeOK, Generation, Item
  <2>3. PICK c \in Clients : c = i.client
    BY <2>2
  <2>4. /\ WorkerGoto(g, "published") /\ parked' = {} /\ UNCHANGED <<owners, life, joining, td>>
    BY <1>1 DEF PublishCommit, Notify
  <2>5. /\ worker' \in [1..MaxGen -> Generation] /\ OnlyWorker(g) /\ worker'[g].pc = "published"
    BY <2>4, WorkerMoves DEF Inv, WorkerPc
  <2>6. /\ \A h \in 1..MaxGen : Alive(h)' => Alive(h)
        /\ \A h \in 1..MaxGen : worker'[h].pc \in {"publish", "commit", "cleanup"}
                                  => worker'[h] = worker[h]
    BY <2>2, <2>5 DEF OnlyWorker, Alive
  <2>7. CASE UNCHANGED <<entry, box, thread, watch>>
    <3>1. /\ UNCHANGED <<entry, box, thread, watch, owners, life, joining, td>> /\ parked' = {}
          /\ worker' \in [1..MaxGen -> Generation]
      BY <2>4, <2>5, <2>7
    <3>2. /\ \A h \in 1..MaxGen : Alive(h)' => Alive(h)
          /\ \A h \in 1..MaxGen : worker'[h].pc \in {"publish", "commit", "cleanup"}
                                    => worker'[h] = worker[h]
      BY <2>6
    <3>3. TypeOK'
      <4>1. parked' \subseteq Owners \cup {"worker"}
        BY <3>1, <3>2 DEF Begun, Inv, TypeOK, Notify
      <4>2. stop' \in BOOLEAN
        BY <3>1, <3>2 DEF Begun, Inv, TypeOK, life
      <4>3. joining' \in BOOLEAN
        BY <3>1, <3>2 DEF Begun, Inv, TypeOK, life
      <4>4. joinable' \in BOOLEAN
        BY <3>1, <3>2 DEF Begun, Inv, TypeOK, life
      <4> QED
        BY <4>1, <4>2, <4>3, <4>4, <3>1, <3>2 DEF Begun, Inv, TypeOK, life, Notify, Asked
    <3>4. OneGeneration'
      BY <3>1, <3>2, GenerationStays DEF Alive, OnlyThread, OnlyWorker, Inv, OneGeneration
    <3>5. CallsHold'
      BY <3>1 DEF Inv, CallsHold, Held, Live
    <3>6. LeasesExact'
      <4>1. SameLeases
        BY <3>1 DEF SameLeases
      <4> QED
        BY <4>1, LeasesStay
    <3>7. TerminalHasNoDemand'
      BY <3>1 DEF Inv, TerminalHasNoDemand
    <3>8. TerminalKnown'
      BY <3>1, <3>2 DEF Inv, TerminalKnown, Failed, life
    <3>9. DemandServed'
      BY <3>1 DEF Inv, DemandServed, Live, Failed, life
    <3>10. SleepersJustified'
      BY <3>1 DEF Inv, SleepersJustified
    <3> QED
      BY <3>3, <3>4, <3>5, <3>6, <3>7, <3>8, <3>9, <3>10 DEF Inv
  <2>8. CASE ~UNCHANGED <<entry, box, thread, watch>>
    <3>1. /\ Live(c) /\ ~entry[c].terminal
          /\ box' = [box EXCEPT ![c] = [Publish(box[c], i.kind) EXCEPT
                                         !.terminal = box[c].terminal \/ i.kind = "terminal"]]
          /\ IF i.kind = "terminal"
             THEN /\ entry' = [entry EXCEPT ![c] =
                                 Settled([ClearDemand(entry[c]) EXCEPT !.terminal = TRUE])]
                  /\ DropWatch({c})
                  /\ thread' = [o \in Owners |-> DropLease(Woken(thread[o], {c}), {c})]
             ELSE /\ entry' = [entry EXCEPT ![c] =
                                 [entry[c] EXCEPT !.pending_requests =
                                    entry[c].pending_requests \ {i.request}]]
                  /\ thread' = [o \in Owners |-> Woken(thread[o], {c})]
                  /\ UNCHANGED watch
      BY <1>1, <2>1, <2>3, <2>8 DEF PublishCommit
    <3>2. PICK b \in Box : box' = [box EXCEPT ![c] = b] /\ b.failed = box[c].failed
      <4>1. PICK q : q = Publish(box[c], i.kind)
        OBVIOUS
      <4>2. PICK t \in BOOLEAN : t = (box[c].terminal \/ i.kind = "terminal")
        BY DEF Inv, TypeOK
      <4>3. PICK b : b = [q EXCEPT !.terminal = t] /\ box' = [box EXCEPT ![c] = b]
        BY <3>1, <4>1, <4>2
      <4>4. q \in Box /\ q.failed = box[c].failed
        <5>1. i.kind \in Kinds /\ box[c] \in Box
          BY <2>2 DEF Inv, TypeOK
        <5> QED
          BY <4>1, <5>1, BoxFields, SMTT(30)
      <4>5. b \in Box /\ b.failed = q.failed
        BY <4>3, <4>4, BoxFields
      <4> QED
        BY <4>3, <4>4, <4>5
    <3>3. CASE i.kind = "terminal"
      <4>1. PICK x : /\ x = Settled([ClearDemand(entry[c]) EXCEPT !.terminal = TRUE])
                     /\ entry' = [entry EXCEPT ![c] = x]
        BY <3>1, <3>3
      <4>2. Ended(entry[c], x)
        BY <4>1, EndedFields DEF Inv, TypeOK
      <4>3. td[c].ended
        BY <2>2, <2>3, <3>3
      <4>4. DropWatch({c}) /\ thread' = [o \in Owners |-> DropLease(Woken(thread[o], {c}), {c})]
        BY <3>1, <3>3
      <4> QED
        BY <2>4, <2>5, <2>6, <3>2, <4>1, <4>2, <4>3, <4>4, EndInv
    <3>4. CASE i.kind # "terminal"
      <4>1. /\ UNCHANGED <<watch, owners, life, joining, td>> /\ parked' = {}
            /\ worker' \in [1..MaxGen -> Generation]
        BY <2>4, <2>5, <3>1, <3>4
      <4>2. /\ \A h \in 1..MaxGen : Alive(h)' => Alive(h)
            /\ \A h \in 1..MaxGen : worker'[h].pc \in {"publish", "commit", "cleanup"}
                                      => worker'[h] = worker[h]
        BY <2>6
      <4>3. PICK x \in Entry : /\ entry' = [entry EXCEPT ![c] = x] /\ Asked(entry[c], x)
                               /\ Demanded(x) => Demanded(entry[c])
        <5>1. PICK x : /\ entry' = [entry EXCEPT ![c] = x]
                       /\ x = [entry[c] EXCEPT !.pending_requests =
                                  entry[c].pending_requests \ {i.request}]
          BY <3>1, <3>4
        <5>2. entry[c] \in Entry
          BY DEF Inv, TypeOK
        <5>3. PICK e, r : e = entry[c] /\ r = i.request
          OBVIOUS
        <5>4. Asked(e, x) /\ (Demanded(x) => Demanded(e))
          BY <5>1, <5>2, <5>3, AnsweredFields
        <5> QED
          BY <5>1, <5>3, <5>4 DEF Asked
      <4>4. /\ entry' \in [Clients -> Entry] /\ entry'[c] = x /\ OnlyEntry(c)
        BY <4>3, EntryBecomes DEF Inv
      <4>5. b.failed = box[c].failed /\ box' \in [Clients -> Box] /\ box'[c] = b /\ OnlyBox(c)
        BY <3>2, BoxBecomes DEF Inv
      <4>6. /\ thread' \in [Owners -> Thread]
            /\ \A p \in Owners :
                 /\ thread'[p].pc = IF thread[p].pc = "sleep" /\ thread[p].client = c
                                    THEN "receive" ELSE thread[p].pc
                 /\ thread'[p].client = thread[p].client /\ thread'[p].call = thread[p].call
                 /\ thread'[p].token <=> thread[p].token
        <5>1. thread' = [o \in Owners |-> DropLease(Woken(thread[o], {c}), {})]
          BY <3>1, <3>4 DEF DropLease
        <5> QED
          BY <5>1, WokenFields DEF Inv
      <4>7. \A p \in Owners : thread'[p].pc = "sleep" => thread[p].pc = "sleep" /\ thread[p].client \in Clients \ {c}
        BY <4>6 DEF Inv, CallsHold, Busy
      <4>8. TypeOK'
        <5>1. parked' \subseteq Owners \cup {"worker"}
          BY <4>1, <4>2, <4>3, <4>4, <4>5, <4>6, <4>7 DEF Begun, Inv, TypeOK, Notify
        <5>2. stop' \in BOOLEAN
          BY <4>1, <4>2, <4>3, <4>4, <4>5, <4>6, <4>7 DEF Begun, Inv, TypeOK, life
        <5>3. joining' \in BOOLEAN
          BY <4>1, <4>2, <4>3, <4>4, <4>5, <4>6, <4>7 DEF Begun, Inv, TypeOK, life
        <5>4. joinable' \in BOOLEAN
          BY <4>1, <4>2, <4>3, <4>4, <4>5, <4>6, <4>7 DEF Begun, Inv, TypeOK, life
        <5> QED
          BY <4>1, <4>3, <4>5, <4>6 DEF Inv, TypeOK, life
      <4>9. OneGeneration'
        BY <4>1, <4>2, <4>6, GenerationStays
      <4>10. CallsHold'
        BY <4>1, <4>3, <4>6 DEF Asked, Inv, CallsHold, Busy, Held, Live
      <4>11. LeasesExact'
        <5>1. SameLeases
          BY <4>1, <4>3, <4>6 DEF Asked, SameLeases
        <5> QED
          BY <5>1, LeasesStay
      <4>12. TerminalHasNoDemand'
        BY <4>3 DEF Asked, Inv, TerminalHasNoDemand
      <4>13. TerminalKnown'
        BY <4>1, <4>2, <4>3 DEF Asked, Inv, TerminalKnown, Failed, life
      <4>14. DemandServed'
        BY <4>1, <4>3, <4>5 DEF Inv, DemandServed, Asked, Live, Failed, life, OnlyBox
      <4>15. SleepersJustified'
        BY <4>1, <4>5, <4>6, <4>7 DEF Inv, SleepersJustified, OnlyBox
      <4> QED
        BY <4>8, <4>9, <4>10, <4>11, <4>12, <4>13, <4>14, <4>15 DEF Inv
    <3> QED
      BY <3>3, <3>4
  <2> QED
    BY <2>7, <2>8
<1>2. ASSUME NEW g \in 1..MaxGen, NEW c \in Clients, CleanupStep(g, c) PROVE Inv'
  <2>1. PICK x : /\ x = Settled([ClearDemand(entry[c]) EXCEPT !.terminal = TRUE])
                 /\ entry' = [entry EXCEPT ![c] = x]
    BY <1>2 DEF CleanupStep, Terminated
  <2>2. Ended(entry[c], x)
    BY <2>1, EndedFields DEF Inv, TypeOK
  <2>3. PICK b : b = [box[c] EXCEPT !.terminal = TRUE] /\ box' = [box EXCEPT ![c] = b]
    BY <1>2 DEF CleanupStep, Terminated
  <2>4. b \in Box /\ b.failed = box[c].failed
    BY <2>3, BoxFields DEF Inv, TypeOK
  <2>5. Failed
    BY <1>2 DEF CleanupStep, Inv, TerminalKnown
  <2>6. /\ DropWatch({c}) /\ parked' = {} /\ UNCHANGED <<owners, life, joining, td>>
        /\ thread' = [o \in Owners |-> DropLease(Woken(thread[o], {c}), {c})]
    BY <1>2 DEF CleanupStep, Terminated, Notify
  <2>7. /\ worker' \in [1..MaxGen -> Generation]
        /\ \A h \in 1..MaxGen : Alive(h)' => Alive(h)
        /\ \A h \in 1..MaxGen : worker'[h] = worker[h]
    BY <1>2 DEF CleanupStep, Inv, TypeOK, Alive
  <2> QED
    BY <2>1, <2>2, <2>3, <2>4, <2>5, <2>6, <2>7, EndInv
<1> QED
  BY <1>1, <1>2

\* fail() publishes the failure to every mailbox of the registry.
LEMMA FailInv ==
  ASSUME Inv, \E g \in 1..MaxGen : Fail(g)
  PROVE  Inv'
<1>1. ASSUME NEW g \in 1..MaxGen, Fail(g) PROVE Inv'
  <2>1. /\ worker[g].pc = "failing" /\ WorkerGoto(g, "cleanup") /\ state' = "Failed" /\ stop' /\ stop' \in BOOLEAN
        /\ parked' = {} /\ UNCHANGED <<owners, joining, gen, joinable, td>>
    BY <1>1 DEF Fail, Notify
  <2>2. /\ worker' \in [1..MaxGen -> Generation] /\ OnlyWorker(g)
        /\ worker'[g].pc = "cleanup"
    BY <2>1, WorkerMoves DEF Inv, WorkerPc
  <2>3. /\ entry' \in [Clients -> Entry]
        /\ \A c \in Clients : Lessened(entry[c], entry'[c])
        /\ \A c \in Clients : entry'[c].active_drivers = entry[c].active_drivers
        /\ \A c \in Clients : entry'[c].watch_demands = 0
    <3>1. entry' = [c \in Clients |-> [entry[c] EXCEPT !.watch_demands = 0]]
      BY <1>1 DEF Fail
    <3>2. \A c \in Clients : entry[c] \in Entry
      BY DEF Inv, TypeOK
    <3>3. ASSUME NEW c \in Clients
          PROVE  /\ entry'[c] \in Entry /\ Lessened(entry[c], entry'[c])
                 /\ entry'[c].active_drivers = entry[c].active_drivers
                 /\ entry'[c].watch_demands = 0
      <4>1. entry'[c] = [entry[c] EXCEPT !.watch_demands = 0]
        BY <3>1
      <4> QED
        BY <3>2, <4>1, LeaseFields DEF Lessened
    <3> QED
      BY <3>1, <3>3
  <2>4. /\ box' \in [Clients -> Box]
        /\ \A c \in Clients : Live(c) => box'[c].failed
    <3>1. box' = [c \in Clients |-> IF Live(c) THEN [box[c] EXCEPT !.failed = TRUE] ELSE box[c]]
      BY <1>1 DEF Fail
    <3>2. \A c \in Clients : box[c] \in Box
      BY DEF Inv, TypeOK
    <3>3. ASSUME NEW c \in Clients PROVE box'[c] \in Box /\ (Live(c) => box'[c].failed)
      <4>1. CASE Live(c)
        <5>1. box'[c] = [box[c] EXCEPT !.failed = TRUE]
          BY <3>1, <4>1
        <5> QED
          BY <3>2, <5>1, BoxFields
      <4>2. CASE ~Live(c)
        BY <3>1, <3>2, <4>2
      <4> QED
        BY <4>1, <4>2
    <3> QED
      BY <3>1, <3>3
  <2>5. watch' \in [Clients -> Watch] /\ \A c \in Clients : ~watch'[c].token
    <3>1. DropWatch(Clients)
      BY <1>1 DEF Fail
    <3> QED
      BY <3>1, WatchFields DEF Inv
  <2>6. /\ thread' \in [Owners -> Thread]
        /\ \A p \in Owners :
             /\ thread'[p].pc = IF thread[p].pc = "sleep" THEN "receive" ELSE thread[p].pc
             /\ thread'[p].client = thread[p].client /\ thread'[p].call = thread[p].call
             /\ thread'[p].token <=> thread[p].token
    <3>1. PICK cs : cs = {c \in Clients : Live(c)}
      OBVIOUS
    <3>2. thread' = [o \in Owners |-> DropLease(Woken(thread[o], cs), {})]
      BY <1>1, <3>1 DEF Fail, DropLease
    <3>3. \A p \in Owners : thread[p].pc = "sleep" => thread[p].client \in cs
      BY <3>1 DEF Inv, CallsHold, Busy, Held
    <3> QED
      BY <3>2, <3>3, WokenFields DEF Inv
  <2>7. TypeOK'
    <3>1. parked' \subseteq Owners \cup {"worker"}
      BY <2>1, <2>2, <2>3, <2>4, <2>5, <2>6 DEF Begun, Inv, TypeOK, Notify
    <3>2. stop' \in BOOLEAN
      BY <2>1, <2>2, <2>3, <2>4, <2>5, <2>6 DEF Begun, Inv, TypeOK, life
    <3>3. joining' \in BOOLEAN
      BY <2>1, <2>2, <2>3, <2>4, <2>5, <2>6 DEF Begun, Inv, TypeOK, life
    <3>4. joinable' \in BOOLEAN
      BY <2>1, <2>2, <2>3, <2>4, <2>5, <2>6 DEF Begun, Inv, TypeOK, life
    <3>5. owners' \subseteq Owners /\ state' \in {"Stopped", "Running", "Stopping", "Failed"}
          /\ gen' \in 0..MaxGen /\ td' \in [Clients -> Tdlib]
      BY <2>1 DEF Inv, TypeOK
    <3> QED
      BY <2>2, <2>3, <2>4, <2>5, <2>6, <3>1, <3>2, <3>3, <3>4, <3>5 DEF TypeOK
  <2>8. OneGeneration'
    <3>1. g = gen /\ joinable
      BY <2>1 DEF Inv, OneGeneration, Alive
    <3>2. \A h \in 1..MaxGen : Alive(h)' => Alive(h)
      BY <2>1, <2>2 DEF Alive, OnlyWorker
    <3>3. \A h \in 1..MaxGen : Alive(h)' => h = gen' /\ joinable'
      BY <2>1, <3>2 DEF Inv, OneGeneration
    <3>4. \A p \in Owners : thread'[p].pc = "join" => thread[p].pc = "join"
      BY <2>6
    <3>5. /\ (\A p \in Owners : thread'[p].pc = "join" => joining')
          /\ \A p, q \in Owners : thread'[p].pc = "join" /\ thread'[q].pc = "join" => p = q
      BY <2>1, <3>4 DEF Inv, OneGeneration
    <3> QED
      BY <2>1, <3>3, <3>5 DEF OneGeneration
  <2>9. CallsHold'
    <3>1. \A c \in Clients : /\ entry'[c].st = entry[c].st
                            /\ entry'[c].owner = entry[c].owner
                            /\ entry'[c].orphan = entry[c].orphan
      BY <2>3 DEF Lessened
    <3>2. UNCHANGED owners
      BY <2>1
    <3>3. CallsHold
      BY DEF Inv
    <3> QED
      BY <2>6, <3>1, <3>2, <3>3 DEF CallsHold, Held, Live, Busy
  <2>10. LeasesExact'
    <3>1. \A c \in Clients : Driven(c)' <=> Driven(c)
      BY <2>6 DEF Driven
    <3> QED
      BY <2>3, <2>5, <3>1 DEF Inv, LeasesExact
  <2>11. TerminalHasNoDemand'
    BY <2>3 DEF Lessened, Inv, TerminalHasNoDemand
  <2>12. TerminalKnown'
    BY <2>1, <2>2 DEF Inv, TerminalKnown, Failed, OnlyWorker
  <2>13. DemandServed'
    BY <2>1, <2>3, <2>4 DEF Lessened, DemandServed, Live, Failed
  <2>14. SleepersJustified'
    BY <2>1, <2>6 DEF SleepersJustified
  <2> QED
    BY <2>7, <2>8, <2>9, <2>10, <2>11, <2>12, <2>13, <2>14 DEF Inv
<1> QED
  BY <1>1

-----------------------------------------------------------------------------
(***************************************************************************)
(* The invariant, and what it implies.                                     *)
(***************************************************************************)
LEMMA InitInv == Init => Inv
<1> SUFFICES ASSUME Init PROVE Inv
  OBVIOUS
<1>1. /\ \A c \in Clients : entry[c] = Fresh("unknown", None) /\ entry[c] \in Entry
      /\ \A c \in Clients : /\ entry[c].st = "unknown" /\ ~entry[c].terminal
                            /\ ~Demanded(entry[c])
                            /\ entry[c].active_drivers = 0 /\ entry[c].watch_demands = 0
  BY FreshFields DEF Init
<1>2. \A o \in Owners : /\ thread[o] \in Thread /\ thread[o].pc = "new"
                        /\ ~thread[o].token /\ thread[o].client = None
  BY ReadyFields DEF Init, OwnerPc
<1>3. \A g \in 1..MaxGen : worker[g] \in Generation /\ worker[g].pc = "none"
  BY DEF Init, Generation, WorkerPc, NoItem, Item, Kinds
<1>4. NewBox \in Box
  <2>1. <<>> \in Seq(Kinds)
    BY EmptySeq, Zenon
  <2> QED
    BY <2>1 DEF NewBox, Box
<1>5. TypeOK
  <2>1. entry \in [Clients -> Entry] /\ box \in [Clients -> Box] /\ owners \subseteq Owners
    BY <1>1, <1>4 DEF Init
  <2>2. state \in {"Stopped", "Running", "Stopping", "Failed"} /\ gen \in 0..MaxGen
    BY MaxGenNat DEF Init
  <2>3. stop \in BOOLEAN
    BY DEF Init
  <2>4. joining \in BOOLEAN
    BY DEF Init
  <2>5. joinable \in BOOLEAN
    BY DEF Init
  <2>6. worker \in [1..MaxGen -> Generation] /\ thread \in [Owners -> Thread]
    BY <1>2, <1>3 DEF Init
  <2>7. parked \subseteq Owners \cup {"worker"} /\ watch \in [Clients -> Watch]
    BY DEF Init, Watch
  <2>8. td \in [Clients -> Tdlib]
    BY MaxUpdatesNat DEF Init, Tdlib
  <2> QED
    BY <2>1, <2>2, <2>3, <2>4, <2>5, <2>6, <2>7, <2>8 DEF TypeOK
<1>6. OneGeneration
  BY <1>2, <1>3 DEF Init, OneGeneration, Alive
<1>7. CallsHold
  BY <1>1, <1>2 DEF CallsHold, Busy, Live
<1>8. LeasesExact
  BY <1>1, <1>2 DEF Init, LeasesExact, Driven
<1>9. TerminalHasNoDemand /\ TerminalKnown
  BY <1>1, <1>3 DEF TerminalHasNoDemand, TerminalKnown
<1>10. DemandServed
  BY <1>1 DEF DemandServed, Live
<1>11. SleepersJustified
  BY <1>2 DEF Init, SleepersJustified
<1> QED
  BY <1>5, <1>6, <1>7, <1>8, <1>9, <1>10, <1>11 DEF Inv

LEMMA NextInv == Inv /\ [Next]_vars => Inv'
<1> SUFFICES ASSUME Inv, [Next]_vars PROVE Inv'
  OBVIOUS
<1>1. ASSUME NEW o \in Owners, OwnerCalls(o) PROVE Inv'
  <2>1. CASE AttachOwner(o) \/ DetachOwner(o)
    BY <2>1, AttachInv, DetachInv
  <2>2. ASSUME NEW c \in Clients,
               \/ CreateClient(o, c) \/ Forget(o, c) \/ TryPop(o, c) \/ AcquireDriver(o, c)
               \/ AcquireWatch(o, c) \/ ReleaseWatch(o, c) \/ RetireReserved(o, c)
               \/ \E kind \in Sends : AdmitSend(o, c, kind)
        PROVE  Inv'
    <3>1. CASE CreateClient(o, c)
      BY <3>1, AttachInv
    <3>2. CASE Forget(o, c)
      BY <3>2, ForgetInv
    <3>3. CASE TryPop(o, c) \/ ReleaseWatch(o, c)
      BY <3>3, CallInv
    <3>4. CASE \/ AcquireDriver(o, c) \/ AcquireWatch(o, c)
               \/ \E kind \in Sends : AdmitSend(o, c, kind)
      BY <3>4, AskInv
    <3>5. CASE RetireReserved(o, c)
      BY <3>5, RetireInv
    <3> QED
      BY <2>2, <3>1, <3>2, <3>3, <3>4, <3>5
  <2> QED
    BY <1>1, <2>1, <2>2 DEF OwnerCalls
<1>2. ASSUME NEW o \in Owners, OwnerContinues(o) \/ PopTimeout(o) PROVE Inv'
  <2>1. CASE ReapResume(o) \/ ReapJoined(o)
    BY <2>1, ReapInv
  <2>2. CASE RequestOneShot(o)
    BY <2>2, AskInv
  <2>3. CASE ForgetReserved(o)
    BY <2>3, ForgetInv
  <2>4. CASE \/ TdSend(o) \/ PopUntil(o) \/ PopTimeout(o) \/ ReleaseDriver(o)
             \/ \E sent \in BOOLEAN : EndSend(o, sent)
    BY <2>4, CallInv
  <2> QED
    BY <1>2, <2>1, <2>2, <2>3, <2>4 DEF OwnerContinues
<1>3. ASSUME NEW g \in 1..MaxGen, WorkerStep(g) \/ WorkerThrows(g) PROVE Inv'
  <2>1. CASE PublishCommit(g)
    BY <2>1, CommitInv
  <2>2. CASE Fail(g)
    BY <2>2, FailInv
  <2>3. CASE \/ WorkerStops(g) \/ WorkerParks(g) \/ WorkerClaims(g) \/ ReceiveStep(g)
             \/ PublishLookup(g) \/ PublishDone(g) \/ WorkerThrows(g) \/ CleanupDone(g)
    BY <2>3, LoopInv
  <2> QED
    BY <1>3, <2>1, <2>2, <2>3 DEF WorkerStep
<1>4. ASSUME NEW g \in 1..MaxGen, NEW c \in Clients, CleanupStep(g, c) PROVE Inv'
  BY <1>4, CommitInv
<1>5. CASE UNCHANGED vars
  <2>1. /\ UNCHANGED <<entry, box, owners, state, stop, joining, gen, joinable>>
        /\ UNCHANGED <<worker, parked, thread, watch, td>>
    BY <1>5 DEF vars
  <2>2. TypeOK'
    BY <2>1 DEF Inv, TypeOK
  <2>3. OneGeneration'
    BY <2>1 DEF Inv, OneGeneration, Alive
  <2>4. CallsHold'
    BY <2>1 DEF Inv, CallsHold, Held, Live
  <2>5. LeasesExact'
    BY <2>1 DEF Inv, LeasesExact, Driven
  <2>6. TerminalHasNoDemand' /\ TerminalKnown'
    BY <2>1 DEF Inv, TerminalHasNoDemand, TerminalKnown, Failed
  <2>7. DemandServed'
    BY <2>1 DEF Inv, DemandServed, Live, Failed
  <2>8. SleepersJustified'
    BY <2>1 DEF Inv, SleepersJustified, Demand, Live
  <2> QED
    BY <2>2, <2>3, <2>4, <2>5, <2>6, <2>7, <2>8 DEF Inv
<1> QED
  BY <1>1, <1>2, <1>3, <1>4, <1>5 DEF Next

\* The receiver runtime never leaves its invariant, whatever its VMs do and
\* wherever the worker fails.
THEOREM Invariance == Spec => []Inv
  BY InitInv, NextInv, PTL DEF Spec

\* Source::receive has one caller at a time: the generations alive are the last
\* that started, or none, through every stop, failure and restart.
THEOREM OneCaller == Spec => []SingleReceiver
<1>1. Inv => SingleReceiver
  <2> SUFFICES ASSUME Inv
               PROVE  Cardinality({g \in 1..MaxGen : worker[g].pc \notin {"none", "exited"}}) <= 1
    BY DEF SingleReceiver
  <2>1. PICK alive : alive = {g \in 1..MaxGen : worker[g].pc \notin {"none", "exited"}}
    OBVIOUS
  <2>2. alive \subseteq {gen}
    BY <2>1 DEF Inv, OneGeneration, Alive
  <2>3. IsFiniteSet({gen}) /\ Cardinality({gen}) = 1
    BY FS_Singleton
  <2>4. Cardinality(alive) <= 1
    BY <2>2, <2>3, FS_Subset
  <2> QED
    BY <2>1, <2>4
<1> QED
  BY <1>1, Invariance, PTL

\* requestOneShot(), acquireDriver(), acquireWatch() and beginSend() never leave
\* demand of a held client to a receiver that neither runs nor failed, and a
\* failure is in every mailbox of the registry.
THEOREM DemandIsServed == Spec => []DemandServed
<1>1. Inv => DemandServed
  BY DEF Inv
<1> QED
  BY <1>1, Invariance, PTL

\* reapLocked() joins a generation that stops only while no VM is attached.
THEOREM JoinsUnowned == Spec => []JoinOnlyUnowned
<1>1. Inv => JoinOnlyUnowned
  BY DEF Inv, TypeOK, OneGeneration, JoinOnlyUnowned, Failed
<1> QED
  BY <1>1, Invariance, PTL

\* The demand counters are the registered leases, none of a terminal client,
\* whenever a lease is released: after a forget, a terminal update, a stop, a failure.
THEOREM LeasesAreCounted == Spec => []LeasesCounted
<1>1. Inv => LeasesCounted
  <2> SUFFICES ASSUME Inv, NEW c \in Clients
               PROVE  entry[c].active_drivers =
                        Cardinality({o \in Owners : thread[o].token /\ thread[o].client = c})
    BY DEF Inv, LeasesExact, LeasesCounted
  <2>1. PICK drivers : drivers = {o \in Owners : thread[o].token /\ thread[o].client = c}
    OBVIOUS
  <2>2. CASE Driven(c)
    <3>1. PICK o \in Owners : thread[o].token /\ thread[o].client = c
      BY <2>2 DEF Driven
    <3>2. \A p \in drivers : p \in Owners /\ entry[c].owner = p
      BY <2>1 DEF Inv, CallsHold, Busy, Held
    <3>3. drivers = {o}
      BY <2>1, <3>1, <3>2
    <3>4. Cardinality(drivers) = 1
      BY <3>3, FS_Singleton
    <3> QED
      BY <2>1, <2>2, <3>4 DEF Inv, LeasesExact
  <2>3. CASE ~Driven(c)
    <3>1. drivers = {}
      BY <2>1, <2>3 DEF Driven
    <3>2. Cardinality(drivers) = 0
      BY <3>1, FS_EmptySet
    <3> QED
      BY <2>1, <2>3, <3>2 DEF Inv, LeasesExact
  <2> QED
    BY <2>2, <2>3
<1> QED
  BY <1>1, Invariance, PTL

\* No wakeup is lost: whoever sleeps on a condition variable waits for a
\* predicate that is still false.
THEOREM SleepersAreRight == Spec => []SleepersJustified
<1>1. Inv => SleepersJustified
  BY DEF Inv
<1> QED
  BY <1>1, Invariance, PTL
=============================================================================
