--------------------------- MODULE StorageProofs ---------------------------
(***************************************************************************)
(* Proofs about the two halves of publish() in                             *)
(* include/tdlua/common/receiver.h, for every capacity, every time to live *)
(* and every number of items, types and interests: what the bounded        *)
(* generic buffer never exceeds and evicts first, and what a client keeps. *)
(***************************************************************************)
EXTENDS MCStorage, FiniteSetTheorems, SequenceTheorems, TLAPS

-----------------------------------------------------------------------------
(***************************************************************************)
(* The invariant of the buffer.                                            *)
(***************************************************************************)

\* The items whose ticket the worker has issued.
Issued == {i \in Items : i < worker.item \/ (i = worker.item /\ worker.pc = "idle")}

\* The item a step holds exists.
WorkerItem == worker.pc # "idle" => worker.item \in Items
OwnerItem == owner.pc \in {"dispatch", "recheck", "exposed"} => owner.item \in Items

\* Nothing is active or queued before its ticket is issued.
OnlyIssued ==
    /\ ActiveTickets \subseteq Issued
    /\ \A k \in 1..Len(fifo) : fifo[k] \in Issued

\* The queue is in the order of issue.
Ascending == \A j, k \in 1..Len(fifo) : j < k => fifo[j] < fifo[k]

\* Every active ticket is queued, or the evicting worker holds it.
Queued ==
    \A i \in ActiveTickets :
      \/ \E k \in 1..Len(fifo) : fifo[k] = i
      \/ worker.pc = "retire" /\ worker.oldest = i

\* What is queued behind the ticket being evicted is younger.
EvictsHead ==
    worker.pc = "retire"
      => worker.oldest \in Items /\ \A k \in 1..Len(fifo) : worker.oldest < fifo[k]

\* The owner owes a decrement for one ticket that was issued and is not active,
\* and pays before it takes an item out of its deque.
Debt ==
    /\ owner.pc \in {"recheck", "exposed"} => owner.owes = 0
    /\ owner.owes = 1 => Issued \ ActiveTickets # {}

\* There is room for the ticket being inserted.
Room ==
    /\ CapacityHolds
    /\ worker.pc = "retire" => Cardinality(ActiveTickets \ {worker.oldest}) < Capacity
    /\ worker.pc = "insert" => Cardinality(ActiveTickets) < Capacity

\* The metadata is within the threshold from the compaction to the insertion.
Compacted ==
    /\ MetadataBounded
    /\ worker.pc \in {"check", "evict", "retire", "insert"} => Len(fifo) <= Threshold

BufferInv ==
    /\ TypeOK
    /\ WorkerItem /\ OwnerItem
    /\ OnlyIssued /\ Ascending /\ Queued /\ EvictsHead
    /\ PendingExact /\ Debt
    /\ Room /\ Compacted

-----------------------------------------------------------------------------
(***************************************************************************)
(* The invariant of the retention policy.                                  *)
(***************************************************************************)

\* The ghost is true only while the interest lasts.
HeldNow == held => HandlerInterest(entry)

\* A forgotten client has no interest left.
OrphanCleared == entry.orphan => \A i \in Interests : entry.count[i] = 0

\* The item in the worker's hands has a type, and the classifier has set it when
\* a handler was interested all along.
Classified ==
    /\ call.pc \in {"classify", "publish"} => call.item.type \in Types
    /\ call.pc \in {"classify", "publish"}
         => call.item.event_type \in {NoType, call.item.type}
    /\ call.pc = "publish" /\ held /\ Unsolicited(call.item)
         => call.item.event_type = call.item.type

RetentionInv == RetentionTypeOK /\ HeldNow /\ OrphanCleared /\ Classified

-----------------------------------------------------------------------------
(***************************************************************************)
(* The retention policy.                                                   *)
(***************************************************************************)

LEMMA RetentionInitInv == RetentionInit => RetentionInv
<1> SUFFICES ASSUME RetentionInit PROVE RetentionInv
    OBVIOUS
<1>1. entry \in Entry
      BY MaxInterestAssumption DEF RetentionInit, Entry
<1>2. NoItem \in Item
      BY DEF NoItem, Item
<1>3. RetentionTypeOK
      BY <1>1, <1>2 DEF RetentionInit, RetentionTypeOK, Keeps
<1> QED
    BY <1>3 DEF RetentionInit, RetentionInv, HeldNow, OrphanCleared, Classified

\* Every call that changes the interests keeps the invariant, if the entry it
\* leaves is one and a forgotten client stays without interests.
LEMMA ChangeInv ==
    ASSUME RetentionInv, NEW e \in Entry, Change(e),
           e.orphan => \A i \in Interests : e.count[i] = 0
    PROVE  RetentionInv'
<1>1. RetentionTypeOK'
  <2>1. held' \in BOOLEAN
        BY DEF Change
  <2> QED
      BY <2>1 DEF Change, RetentionInv, RetentionTypeOK
<1>2. HeldNow'
      BY DEF Change, HeldNow, HandlerInterest, Has
<1>3. OrphanCleared'
      BY DEF Change, OrphanCleared
<1>4. Classified'
      BY DEF RetentionInv, Change, Classified, Unsolicited
<1> QED
    BY <1>1, <1>2, <1>3, <1>4 DEF RetentionInv

LEMMA OpenInv ==
    ASSUME RetentionInv, NEW i \in Interests, Open(i)
    PROVE  RetentionInv'
<1> PICK e : e = [entry EXCEPT !.count[i] = @ + 1]
    OBVIOUS
<1>1. entry \in Entry /\ Change(e) /\ ~entry.orphan /\ entry.count[i] < MaxInterest
      BY DEF RetentionInv, RetentionTypeOK, Open
<1>2. entry.count[i] + 1 \in 0..MaxInterest
      BY <1>1, MaxInterestAssumption DEF Entry
<1>3. e \in Entry /\ ~e.orphan
      BY <1>1, <1>2 DEF Entry
<1> QED
    BY <1>1, <1>3, ChangeInv

LEMMA CloseInv ==
    ASSUME RetentionInv, NEW i \in Interests, Close(i)
    PROVE  RetentionInv'
<1> PICK e : e = [entry EXCEPT !.count[i] = Dec(@)]
    OBVIOUS
<1>1. entry \in Entry /\ Change(e)
      BY DEF RetentionInv, RetentionTypeOK, Close
<1>2. Dec(entry.count[i]) \in 0..MaxInterest /\ (entry.count[i] = 0 => Dec(entry.count[i]) = 0)
      BY <1>1, MaxInterestAssumption DEF Entry, Dec
<1>3. e \in Entry /\ e.orphan = entry.orphan
      BY <1>1, <1>2 DEF Entry
<1>4. e.orphan => \A j \in Interests : e.count[j] = 0
      BY <1>1, <1>2, <1>3 DEF Entry, RetentionInv, OrphanCleared
<1> QED
    BY <1>1, <1>3, <1>4, ChangeInv

LEMMA SetHandlerRegisteredInv ==
    ASSUME RetentionInv, NEW t \in Types, NEW active \in BOOLEAN, SetHandlerRegistered(t, active)
    PROVE  RetentionInv'
<1> PICK n : n = IF active THEN entry.types[t] + 1 ELSE Dec(entry.types[t])
    OBVIOUS
<1> PICK e : e = [entry EXCEPT !.types[t] = n]
    OBVIOUS
<1>1. entry \in Entry /\ Change(e) /\ (active => entry.types[t] < MaxInterest)
      BY DEF RetentionInv, RetentionTypeOK, SetHandlerRegistered
<1>2. n \in 0..MaxInterest
      BY <1>1, MaxInterestAssumption DEF Entry, Dec
<1>3. e \in Entry /\ e.orphan = entry.orphan /\ e.count = entry.count
      BY <1>1, <1>2 DEF Entry
<1> QED
    BY <1>1, <1>3, ChangeInv DEF RetentionInv, OrphanCleared

LEMMA AdmitSendInv ==
    ASSUME RetentionInv, NEW r \in {"managed", "close"}, AdmitSend(r)
    PROVE  RetentionInv'
<1> PICK e : e = [entry EXCEPT !.protected = @ \cup {r}, !.lifecycle = @ \/ r = "close"]
    OBVIOUS
<1>1. entry \in Entry /\ Change(e) /\ ~entry.orphan
      BY DEF RetentionInv, RetentionTypeOK, AdmitSend
<1>2. e \in Entry /\ ~e.orphan
      BY <1>1 DEF Entry
<1> QED
    BY <1>1, <1>2, ChangeInv

LEMMA EndSendFailedInv ==
    ASSUME RetentionInv, NEW r \in {"managed", "close"}, EndSendFailed(r)
    PROVE  RetentionInv'
<1> PICK e : e = [entry EXCEPT !.protected = @ \ {r}, !.lifecycle = @ /\ r # "close"]
    OBVIOUS
<1>1. entry \in Entry /\ Change(e)
      BY DEF RetentionInv, RetentionTypeOK, EndSendFailed
<1>2. e \in Entry /\ e.orphan = entry.orphan /\ e.count = entry.count
      BY <1>1 DEF Entry
<1> QED
    BY <1>1, <1>2, ChangeInv DEF RetentionInv, OrphanCleared

LEMMA ClearedEntry ==
    ASSUME NEW e \in Entry
    PROVE  Cleared(e) \in Entry /\ \A i \in Interests : Cleared(e).count[i] = 0
<1> PICK counts : counts = [i \in Interests |-> 0]
    OBVIOUS
<1> PICK types : types = [t \in Types |-> 0]
    OBVIOUS
<1>1. counts \in [Interests -> 0..MaxInterest] /\ \A i \in Interests : counts[i] = 0
      BY MaxInterestAssumption
<1>2. types \in [Types -> 0..MaxInterest]
      BY MaxInterestAssumption
<1>3. Cleared(e) = [e EXCEPT !.orphan = TRUE, !.count = counts, !.types = types]
      BY DEF Cleared
<1>4. Cleared(e) \in Entry /\ Cleared(e).count = counts
      BY <1>1, <1>2, <1>3 DEF Entry
<1> QED
    BY <1>1, <1>4

LEMMA ForgetInv ==
    ASSUME RetentionInv, Forget
    PROVE  RetentionInv'
<1>1. entry \in Entry /\ Change(Cleared(entry))
      BY DEF RetentionInv, RetentionTypeOK, Forget
<1> QED
    BY <1>1, ClearedEntry, ChangeInv

LEMMA DetachOwnerInv ==
    ASSUME RetentionInv, DetachOwner
    PROVE  RetentionInv'
<1> PICK c : c = Cleared(entry)
    OBVIOUS
<1> PICK e : e = [c EXCEPT !.protected = @ \cap {"close"}]
    OBVIOUS
<1>1. entry \in Entry /\ Change(e)
      BY DEF RetentionInv, RetentionTypeOK, DetachOwner
<1>2. c \in Entry /\ \A i \in Interests : c.count[i] = 0
      BY <1>1, ClearedEntry
<1>3. e \in Entry /\ e.count = c.count
      BY <1>2 DEF Entry
<1> QED
    BY <1>1, <1>2, <1>3, ChangeInv

LEMMA StartReceiveInv ==
    ASSUME RetentionInv, StartReceive
    PROVE  RetentionInv'
<1>1. NoItem \in Item
      BY DEF NoItem, Item
<1>2. RetentionTypeOK'
  <2>1. entry' \in Entry /\ fate' = "none" /\ held' \in BOOLEAN
        BY DEF RetentionInv, RetentionTypeOK, StartReceive, HandlerInterest
  <2>2. Has(entry, "consumer") \in BOOLEAN
        BY DEF Has
  <2>3. call' \in [pc : {"idle", "receiving", "classify", "publish", "ended"},
                   snapshot : BOOLEAN, item : Item]
        BY <1>1, <2>2 DEF StartReceive
  <2> QED
      BY <2>1, <2>3 DEF RetentionTypeOK
<1>3. HeldNow' /\ OrphanCleared'
      BY DEF RetentionInv, StartReceive, HeldNow, OrphanCleared, HandlerInterest, Has
<1>4. Classified'
      BY DEF StartReceive, Classified
<1> QED
    BY <1>2, <1>3, <1>4 DEF RetentionInv

LEMMA ReceiveInv ==
    ASSUME RetentionInv, NEW request \in {"none", "raw", "managed", "close"},
           NEW terminal \in BOOLEAN, NEW t \in Types, Receive(request, terminal, t)
    PROVE  RetentionInv'
<1> PICK item : item = [request |-> request, terminal |-> terminal, type |-> t,
                        event_type |-> IF Lazy THEN NoType ELSE t]
    OBVIOUS
<1>1. item \in Item /\ item.type = t /\ item.event_type \in {NoType, t}
      BY DEF Item
<1>2. /\ call \in [pc : {"idle", "receiving", "classify", "publish", "ended"},
                   snapshot : BOOLEAN, item : Item]
      /\ call' = [call EXCEPT !.pc = "classify", !.item = item]
      /\ UNCHANGED <<entry, held, fate>>
      BY DEF RetentionInv, RetentionTypeOK, Receive
<1>3. call'.pc = "classify" /\ call'.item = item
      BY <1>2
<1>4. RetentionTypeOK'
      BY <1>1, <1>2 DEF RetentionInv, RetentionTypeOK
<1>5. HeldNow' /\ OrphanCleared'
      BY <1>2 DEF RetentionInv, HeldNow, OrphanCleared, HandlerInterest, Has
<1>6. Classified'
      BY <1>1, <1>3 DEF Classified
<1> QED
    BY <1>4, <1>5, <1>6 DEF RetentionInv

LEMMA ClassifyForRetentionInv ==
    ASSUME RetentionInv, ClassifyForRetention
    PROVE  RetentionInv'
<1> PICK type : type = IF Unsolicited(call.item) /\ NeedsHandlerType(entry)
                       THEN call.item.type ELSE call.item.event_type
    OBVIOUS
<1>1. /\ call \in [pc : {"idle", "receiving", "classify", "publish", "ended"},
                   snapshot : BOOLEAN, item : Item]
      /\ call' = [call EXCEPT !.pc = "publish", !.item.event_type = type]
      /\ UNCHANGED <<entry, held, fate>>
      BY DEF RetentionInv, RetentionTypeOK, ClassifyForRetention
<1>2. call.item \in Item /\ call.pc = "classify"
      BY <1>1 DEF ClassifyForRetention
<1>3. call.item.type \in Types /\ call.item.event_type \in {NoType, call.item.type}
      BY <1>2 DEF RetentionInv, Classified
<1>4. type \in {NoType, call.item.type}
      BY <1>3
<1> PICK item : item = [call.item EXCEPT !.event_type = type]
    OBVIOUS
<1>5. /\ item \in Item /\ item.type = call.item.type /\ item.event_type = type
      /\ item.request = call.item.request /\ item.terminal = call.item.terminal
      BY <1>2, <1>3, <1>4 DEF Item
<1>6. /\ call' \in [pc : {"idle", "receiving", "classify", "publish", "ended"},
                    snapshot : BOOLEAN, item : Item]
      /\ call'.pc = "publish" /\ call'.item = item
      BY <1>1, <1>5
<1>7. RetentionTypeOK'
      BY <1>1, <1>6 DEF RetentionInv, RetentionTypeOK
<1>8. HeldNow' /\ OrphanCleared'
      BY <1>1 DEF RetentionInv, HeldNow, OrphanCleared, HandlerInterest, Has
<1>9. held /\ Unsolicited(call.item) => type = call.item.type
      BY DEF RetentionInv, HeldNow, HandlerInterest, NeedsHandlerType
<1>10. Unsolicited(item) <=> Unsolicited(call.item)
      BY <1>5 DEF Unsolicited
<1>11. Classified'
      BY <1>1, <1>3, <1>4, <1>5, <1>6, <1>9, <1>10 DEF Classified, Unsolicited
<1> QED
    BY <1>7, <1>8, <1>11 DEF RetentionInv

LEMMA PublishInv ==
    ASSUME RetentionInv, Publish
    PROVE  RetentionInv'
<1>1. entry \in Entry /\ Fate(entry, call.snapshot, call.item)
                            \in {"ticketed", "kept", "none", "filtered", "dropped"}
      BY DEF RetentionInv, RetentionTypeOK, Fate
<1>2. entry' \in Entry /\ entry'.count = entry.count /\ entry'.orphan = entry.orphan
      BY <1>1 DEF Entry, Publish
<1>3. call' \in [pc : {"idle", "receiving", "classify", "publish", "ended"},
                 snapshot : BOOLEAN, item : Item]
      /\ call'.pc \in {"idle", "ended"}
      BY DEF RetentionInv, RetentionTypeOK, Publish
<1>4. RetentionTypeOK'
      BY <1>1, <1>2, <1>3 DEF RetentionInv, RetentionTypeOK, Publish, Keeps
<1>5. HeldNow' /\ OrphanCleared'
      BY <1>2 DEF RetentionInv, HeldNow, OrphanCleared, HandlerInterest, Has, Publish
<1>6. Classified'
      BY <1>3 DEF Classified
<1> QED
    BY <1>4, <1>5, <1>6 DEF RetentionInv

LEMMA RetentionNextInv ==
    ASSUME RetentionInv, RetentionNext
    PROVE  RetentionInv'
BY OpenInv, CloseInv, SetHandlerRegisteredInv, AdmitSendInv, EndSendFailedInv, ForgetInv,
   DetachOwnerInv, StartReceiveInv, ReceiveInv, ClassifyForRetentionInv, PublishInv
   DEF RetentionNext

LEMMA RetentionStutter ==
    ASSUME RetentionInv, UNCHANGED retentionVars
    PROVE  RetentionInv'
BY DEF RetentionInv, RetentionTypeOK, HeldNow, OrphanCleared, Classified, HandlerInterest, Has,
       Unsolicited, retentionVars

\* Only publish() decides what becomes of an item.
LEMMA PublishDecides ==
    ASSUME RetentionNext, fate = "none", fate' # "none"
    PROVE  call.pc = "publish" /\ fate' = Fate(entry, call.snapshot, call.item)
BY DEF RetentionNext, Open, Close, SetHandlerRegistered, AdmitSend, EndSendFailed, Forget,
       DetachOwner, Change, StartReceive, Receive, ClassifyForRetention, Publish

\* What publish() decides under the invariant.
LEMMA Decision ==
    ASSUME RetentionInv, call.pc = "publish"
    PROVE  LET f == Fate(entry, call.snapshot, call.item) IN
           /\ f \in {"filtered", "dropped"} => entry.orphan \/ ~call.snapshot
           /\ f \in {"filtered", "dropped"} /\ held => entry.types[call.item.type] = 0
           /\ f \in Keeps /\ entry.orphan /\ Unsolicited(call.item) => entry.lifecycle
<1> DEFINE e == entry
           s == call.snapshot
           item == call.item
<1>1. Fate(e, s, item) \in {"filtered", "dropped"}
        <=> HandlerFilter(e, s, item) \/ ~Preserved(e, s, item)
      BY DEF Fate
<1>2. Fate(e, s, item) \in Keeps => Preserved(e, s, item)
      BY DEF Fate, Keeps
<1>3. ASSUME ~e.orphan, s
      PROVE  ~HandlerFilter(e, s, item) /\ Preserved(e, s, item)
      BY <1>3 DEF HandlerFilter, Preserved, GenericConsumer
<1>4. ASSUME held, e.types[item.type] # 0
      PROVE  ~HandlerFilter(e, s, item) /\ Preserved(e, s, item)
  <2>1. CASE ~Unsolicited(item)
        BY <2>1 DEF HandlerFilter, Preserved
  <2>2. CASE Unsolicited(item)
    <3>1. item.event_type = item.type /\ item.type \in Types
          BY <1>4, <2>2 DEF RetentionInv, Classified
    <3>2. Has(e, "handler_only") \/ Has(e, "sub_handlers")
          BY <1>4 DEF RetentionInv, HeldNow, HandlerInterest
    <3>3. SelectedHandlerUpdate(e, item)
          BY <1>4, <3>1, <3>2 DEF SelectedHandlerUpdate
    <3> QED
        BY <3>3 DEF HandlerFilter, Preserved
  <2> QED
      BY <2>1, <2>2
<1>5. ASSUME e.orphan, Unsolicited(item), Preserved(e, s, item)
      PROVE  e.lifecycle
  <2>1. \A i \in Interests : ~Has(e, i)
        BY <1>5 DEF RetentionInv, OrphanCleared, Has
  <2>2. ~Has(e, "driver") /\ ~Has(e, "consumer") /\ ~Has(e, "handler_only")
          /\ ~Has(e, "sub_generic") /\ ~Has(e, "sub_handlers")
        BY <2>1 DEF Interests
  <2> QED
      BY <1>5, <2>2 DEF Preserved, GenericConsumer, SelectedHandlerUpdate
<1> QED
    BY <1>1, <1>2, <1>3, <1>4, <1>5

\* One step of the retention policy keeps what it is to keep.
LEMMA StepKeeps ==
    ASSUME RetentionInv, RetentionNext \/ UNCHANGED retentionVars
    PROVE  /\ fate' \in {"filtered", "dropped"} /\ fate = "none"
                => entry.orphan \/ ~call.snapshot
           /\ fate' \in {"filtered", "dropped"} /\ fate = "none" /\ held
                => entry.types[call.item.type] = 0
           /\ fate' \in Keeps /\ fate = "none" /\ entry.orphan /\ Unsolicited(call.item)
                => entry.lifecycle
<1>1. CASE fate = "none" /\ fate' # "none"
  <2>1. RetentionNext
        BY <1>1 DEF retentionVars
  <2> QED
      BY <1>1, <2>1, PublishDecides, Decision
<1>2. CASE fate # "none"
      BY <1>2
<1>3. CASE fate' = "none"
      BY <1>3 DEF Keeps
<1> QED
    BY <1>1, <1>2, <1>3

\* The retention policy keeps the invariant.
THEOREM RetentionInvariant == RetentionSpec => []RetentionInv
<1>1. RetentionInit => RetentionInv
      BY RetentionInitInv
<1>2. RetentionInv /\ [RetentionNext]_retentionVars => RetentionInv'
      BY RetentionNextInv, RetentionStutter
<1> QED
    BY <1>1, <1>2, PTL DEF RetentionSpec

\* Of the policy on its own, whichever backend classifies: a consumer present when a
\* receive began gets what it returned, a handler interest held since gets every
\* update of a registered type, and an abandoned mailbox fills for a close only.
THEOREM RetentionKeeps == RetentionSpec => Kept
<1>1. RetentionInv /\ [RetentionNext]_retentionVars
        => (fate' \in {"filtered", "dropped"} /\ fate = "none" => entry.orphan \/ ~call.snapshot)
      BY StepKeeps
<1>2. RetentionInv /\ [RetentionNext]_retentionVars
        => (fate' \in {"filtered", "dropped"} /\ fate = "none" /\ held
              => entry.types[call.item.type] = 0)
      BY StepKeeps
<1>3. RetentionInv /\ [RetentionNext]_retentionVars
        => (fate' \in Keeps /\ fate = "none" /\ entry.orphan /\ Unsolicited(call.item)
              => entry.lifecycle)
      BY StepKeeps
<1> QED
    BY <1>1, <1>2, <1>3, RetentionInvariant, PTL
       DEF RetentionSpec, Kept, SnapshotKept, SelectedKept, OrphanKeepsNothing

-----------------------------------------------------------------------------
(***************************************************************************)
(* What is left of a queue: the items that stay, each once, in the order   *)
(* they had.                                                               *)
(***************************************************************************)
LEMMA FunctionIsSeq ==
    ASSUME NEW S, NEW N \in Nat, NEW w \in [1..N -> S]
    PROVE  w \in Seq(S) /\ Len(w) = N
OBVIOUS

LEMMA NatTrichotomy == \A a, b \in Nat : a < b \/ b < a \/ a = b
OBVIOUS

\* Queue w, of length len, holds the items of s outside `gone', at the places pos of s.
LeftAt(pos, len, w, s, gone) ==
    /\ pos \in [1..len -> 1..Len(s)]
    /\ \A n \in 1..len : w[n] = s[pos[n]] /\ s[pos[n]] \notin gone
    /\ \A m, n \in 1..len : m < n => pos[m] < pos[n]
    /\ \A k \in 1..Len(s) : s[k] \notin gone => \E n \in 1..len : pos[n] = k

LEMMA WithoutFields ==
    ASSUME NEW S, NEW s \in Seq(S), NEW gone
    PROVE  /\ Without(s, gone) \in Seq(S)
           /\ \E pos : LeftAt(pos, Len(Without(s, gone)), Without(s, gone), s, gone)
<1> PICK left : left = {k \in 1..Len(s) : s[k] \notin gone}
    OBVIOUS
<1> PICK N : N = Cardinality(left)
    OBVIOUS
<1> DEFINE Upto(k) == {j \in left : j <= k}
<1> PICK rank : rank = [k \in left |-> Cardinality(Upto(k))]
    OBVIOUS
<1> PICK pos : pos = [n \in 1..N |-> CHOOSE k \in left : Cardinality(Upto(k)) = n]
    OBVIOUS
<1>1. Len(s) \in Nat
      BY LenProperties
<1>2. left \subseteq 1..Len(s) /\ IsFiniteSet(1..Len(s)) /\ IsFiniteSet(1..N) /\ N \in Nat
  <2>1. left \in SUBSET (1..Len(s)) /\ IsFiniteSet(1..Len(s))
        BY <1>1, FS_Interval
  <2>2. IsFiniteSet(left)
        BY <2>1, FS_Subset
  <2>3. N \in Nat
        BY <2>2, FS_CardinalityType
  <2> QED
      BY <2>1, <2>3, FS_Interval
<1>3. IsFiniteSet(left)
      BY <1>2, FS_Subset
<1>4. \A k \in left : Upto(k) \in SUBSET left /\ IsFiniteSet(Upto(k))
  <2> SUFFICES ASSUME NEW k \in left
               PROVE  Upto(k) \in SUBSET left /\ IsFiniteSet(Upto(k))
      OBVIOUS
  <2>1. Upto(k) \in SUBSET left
        OBVIOUS
  <2> QED
      BY <2>1, <1>3, FS_Subset
<1>5. \A k \in left : rank[k] = Cardinality(Upto(k)) /\ rank[k] \in 1..N
  <2> SUFFICES ASSUME NEW k \in left
               PROVE  rank[k] = Cardinality(Upto(k)) /\ rank[k] \in 1..N
      OBVIOUS
  <2>1. Upto(k) \in SUBSET left /\ IsFiniteSet(Upto(k))
        BY <1>4
  <2>2. rank[k] = Cardinality(Upto(k))
        OBVIOUS
  <2>3. rank[k] <= N
        BY <2>1, <2>2, <1>3, FS_Subset
  <2>4. rank[k] \in Nat
        BY <2>1, <2>2, FS_CardinalityType
  <2>5. k \in Upto(k)
        BY <1>2
  <2>6. rank[k] # 0
        BY <2>1, <2>2, <2>5, FS_EmptySet
  <2>7. rank[k] \in 1..N
        BY <1>2, <2>3, <2>4, <2>6
  <2> QED
      BY <2>2, <2>7
<1>6. \A k, m \in left : k < m => rank[k] < rank[m]
  <2> SUFFICES ASSUME NEW k \in left, NEW m \in left, k < m
               PROVE  rank[k] < rank[m]
      OBVIOUS
  <2>1. k \in Nat /\ m \in Nat /\ left \subseteq Nat
        BY <1>1, <1>2
  <2>2. Upto(k) \in SUBSET Upto(m)
        BY <2>1
  <2>3. IsFiniteSet(Upto(m)) /\ m \in Upto(m) /\ m \notin Upto(k)
        BY <1>4, <2>1
  <2>4. rank[k] = Cardinality(Upto(k)) /\ rank[m] = Cardinality(Upto(m))
        BY <1>5
  <2>5. rank[k] <= rank[m] /\ (rank[m] = rank[k] => Upto(m) = Upto(k))
        BY <2>2, <2>3, <2>4, FS_Subset
  <2>6. rank[k] # rank[m]
        BY <2>3, <2>5
  <2>7. rank[k] \in Nat /\ rank[m] \in Nat
    <3>1. rank[k] \in 1..N /\ rank[m] \in 1..N
          BY <1>5
    <3> QED
        BY <1>2, <3>1
  <2> QED
      BY <2>5, <2>6, <2>7
<1>7. rank \in Injection(left, 1..N)
  <2>1. rank \in [left -> 1..N]
        BY <1>5
  <2>2. \A a, b \in left : rank[a] = rank[b] => a = b
    <3> SUFFICES ASSUME NEW a \in left, NEW b \in left, rank[a] = rank[b], a # b
                 PROVE  FALSE
        OBVIOUS
    <3>1. a \in Nat /\ b \in Nat
          BY <1>1, <1>2
    <3>2. a < b \/ b < a
          BY <3>1, NatTrichotomy
    <3>3. rank[a] < rank[b] \/ rank[b] < rank[a]
          BY <1>6, <3>2
    <3>4. rank[a] \in 1..N
          BY <1>5
    <3>5. rank[a] \in Nat
          BY <1>2, <3>4
    <3>6. ~(rank[a] < rank[a])
          BY <3>5
    <3> QED
        BY <3>3, <3>6
  <2>3. IsInjective(rank)
        BY <2>1, <2>2 DEF IsInjective
  <2> QED
      BY <2>1, <2>3 DEF Injection
<1>8. rank \in Surjection(left, 1..N)
  <2>1. Cardinality(1..N) = N
        BY <1>2, FS_Interval
  <2> QED
      BY <1>2, <1>3, <1>7, <2>1, FS_Injection
<1>9. \A n \in 1..N : \E k \in left : rank[k] = n
      BY <1>8 DEF Surjection
<1>10. \A n \in 1..N : pos[n] \in left /\ rank[pos[n]] = n
  <2> SUFFICES ASSUME NEW n \in 1..N
               PROVE  pos[n] \in left /\ rank[pos[n]] = n
      OBVIOUS
  <2>1. \E k \in left : Cardinality(Upto(k)) = n
    <3>1. PICK k \in left : rank[k] = n
          BY <1>9
    <3>2. Cardinality(Upto(k)) = n
          BY <1>5, <3>1
    <3> QED
        BY <3>2
  <2>2. pos[n] = CHOOSE k \in left : Cardinality(Upto(k)) = n
        OBVIOUS
  <2>3. pos[n] \in left /\ Cardinality(Upto(pos[n])) = n
        BY <2>1, <2>2
  <2> QED
      BY <1>5, <2>3
<1>11. Without(s, gone) = [n \in 1..N |-> s[pos[n]]]
  <2>1. Without(s, gone) = [n \in 1..N |-> s[CHOOSE k \in left : Cardinality(Upto(k)) = n]]
        BY DEF Without
  <2> QED
      BY <2>1
<1>12. pos \in [1..N -> 1..Len(s)]
  <2>1. \A n \in 1..N : pos[n] \in 1..Len(s)
        BY <1>2, <1>10
  <2> HIDE DEF Upto
  <2>2. pos = [n \in 1..N |-> CHOOSE k \in left : Cardinality(Upto(k)) = n]
        OBVIOUS
  <2> QED
      BY <2>1, <2>2
<1>13. /\ Without(s, gone) \in Seq(S) /\ Len(Without(s, gone)) = N
       /\ \A n \in 1..N : Without(s, gone)[n] = s[pos[n]]
  <2>1. \A n \in 1..N : s[pos[n]] \in S
    <3> SUFFICES ASSUME NEW n \in 1..N
                 PROVE  s[pos[n]] \in S
        OBVIOUS
    <3>1. pos[n] \in 1..Len(s)
          BY <1>12
    <3> QED
        BY <3>1, ElementOfSeq
  <2> PICK w : w = [n \in 1..N |-> s[pos[n]]]
      OBVIOUS
  <2>2. Without(s, gone) = w
        BY <1>11
  <2>3. w \in [1..N -> S] /\ \A n \in 1..N : w[n] = s[pos[n]]
        BY <2>1
  <2>4. w \in Seq(S) /\ Len(w) = N
        BY <1>2, <2>3, FunctionIsSeq
  <2> QED
      BY <2>2, <2>3, <2>4
<1>14. \A n \in 1..N : s[pos[n]] \notin gone
      BY <1>10
<1>15. \A m, n \in 1..N : m < n => pos[m] < pos[n]
  <2> SUFFICES ASSUME NEW m \in 1..N, NEW n \in 1..N, m < n, ~(pos[m] < pos[n])
               PROVE  FALSE
      OBVIOUS
  <2>1. pos[m] \in left /\ rank[pos[m]] = m /\ pos[n] \in left /\ rank[pos[n]] = n
        BY <1>10
  <2>2. pos[m] \in Nat /\ pos[n] \in Nat /\ m \in Nat /\ n \in Nat
        BY <1>1, <1>2, <2>1
  <2>3. pos[m] = pos[n] \/ pos[n] < pos[m]
    <3>1. \A a, b \in Nat : ~(a < b) => a = b \/ b < a
          OBVIOUS
    <3> QED
        BY <2>2, <3>1
  <2>4. rank[pos[m]] = rank[pos[n]] \/ rank[pos[n]] < rank[pos[m]]
        BY <1>6, <2>1, <2>3
  <2> QED
      BY <2>1, <2>2, <2>4
<1>16. ASSUME NEW k \in 1..Len(s), s[k] \notin gone
       PROVE  \E n \in 1..N : pos[n] = k
  <2>1. k \in left
        BY <1>16
  <2> PICK n : n = rank[k]
      OBVIOUS
  <2>2. n \in 1..N /\ rank[k] = n
        BY <1>5, <2>1
  <2>3. pos[n] \in left /\ rank[pos[n]] = n
        BY <1>10, <2>2
  <2>4. pos[n] = k
        BY <1>7, <2>1, <2>2, <2>3 DEF Injection, IsInjective
  <2> QED
      BY <2>2, <2>4
<1> HIDE DEF Upto
<1>17. \A n \in 1..N : Without(s, gone)[n] = s[pos[n]] /\ s[pos[n]] \notin gone
      BY <1>13, <1>14
<1>18. \A k \in 1..Len(s) : s[k] \notin gone => \E n \in 1..N : pos[n] = k
      BY <1>16
<1>19. Len(Without(s, gone)) = N /\ Without(s, gone) \in Seq(S)
      BY <1>13
<1>20. LeftAt(pos, N, Without(s, gone), s, gone)
      BY <1>12, <1>15, <1>17, <1>18 DEF LeftAt
<1>21. LeftAt(pos, Len(Without(s, gone)), Without(s, gone), s, gone)
      BY <1>19, <1>20
<1> QED
    BY <1>19, <1>21

-----------------------------------------------------------------------------
(***************************************************************************)
(* Counting tickets.                                                       *)
(***************************************************************************)

\* A queue in strict order has no more entries than the set it draws from.
LEMMA AscendingFits ==
    ASSUME NEW A, IsFiniteSet(A), A \subseteq Nat, NEW N \in Nat, NEW w,
           w \in [1..N -> A], \A m, n \in 1..N : m < n => w[m] < w[n]
    PROVE  N <= Cardinality(A)
<1>1. \A m, n \in 1..N : w[m] = w[n] => m = n
  <2> SUFFICES ASSUME NEW m \in 1..N, NEW n \in 1..N, w[m] = w[n], m # n
               PROVE  FALSE
      OBVIOUS
  <2>1. m < n \/ n < m
        BY NatTrichotomy
  <2>2. w[m] < w[n] \/ w[n] < w[m]
        BY <2>1
  <2>3. w[m] \in Nat
        OBVIOUS
  <2>4. ~(w[m] < w[m])
        BY <2>3
  <2> QED
      BY <2>2, <2>4
<1>2. w \in Injection(1..N, A)
      BY <1>1 DEF Injection, IsInjective
<1>3. Cardinality(1..N) = N
      BY FS_Interval
<1> QED
    BY <1>2, <1>3, FS_Injection

LEMMA ActiveFinite ==
    /\ ActiveTickets \in SUBSET Items /\ IsFiniteSet(Items) /\ Cardinality(Items) = MaxItems
    /\ IsFiniteSet(ActiveTickets) /\ Cardinality(ActiveTickets) \in Nat
<1>1. ActiveTickets \in SUBSET Items
      BY DEF ActiveTickets
<1>2. IsFiniteSet(Items) /\ Cardinality(Items) = MaxItems
      BY BoundsNat, FS_Interval DEF Items
<1> QED
    BY <1>1, <1>2, FS_Subset, FS_CardinalityType

\* There is a place in the count for the ticket to be issued.
LEMMA RoomToCount ==
    ASSUME BufferInv, worker.pc = "insert"
    PROVE  pending + 1 \in 0..MaxItems
<1> PICK A : A = ActiveTickets
    OBVIOUS
<1> PICK new : new = worker.item
    OBVIOUS
<1>1. /\ A \in SUBSET Items /\ IsFiniteSet(Items) /\ Cardinality(Items) = MaxItems
      /\ IsFiniteSet(A) /\ Cardinality(A) \in Nat
      BY ActiveFinite
<1>2. new \in Items /\ new \notin Issued
      BY DEF BufferInv, WorkerItem, Issued, Items
<1>3. A \in SUBSET Issued /\ Issued \in SUBSET Items
      BY DEF BufferInv, OnlyIssued, Issued
<1>4. /\ pending = Cardinality(A) + owner.owes /\ owner.owes \in 0..1
      /\ owner.owes = 1 => Issued \ A # {}
  <2>1. pending = Cardinality(A) + owner.owes
        BY DEF BufferInv, PendingExact
  <2>2. owner.owes = 1 => Issued \ A # {}
        BY DEF BufferInv, Debt
  <2>3. owner.owes \in 0..1
        BY DEF BufferInv, TypeOK
  <2> QED
      BY <2>1, <2>2, <2>3
<1>5. /\ IsFiniteSet(A \cup {new}) /\ Cardinality(A \cup {new}) = Cardinality(A) + 1
      /\ A \cup {new} \in SUBSET Items
  <2>1. new \notin A
        BY <1>2, <1>3
  <2> QED
      BY <1>1, <1>2, <2>1, FS_AddElement
<1>6. CASE owner.owes = 0
  <2>1. Cardinality(A) + 1 <= MaxItems
        BY <1>1, <1>5, FS_Subset
  <2> QED
      BY <1>1, <1>4, <1>6, <2>1, BoundsNat
<1>7. CASE owner.owes = 1
  <2>1. PICK j : j \in Issued \ A
        BY <1>4, <1>7
  <2>2. j \notin A \cup {new} /\ j \in Items
        BY <1>2, <1>3, <2>1
  <2> PICK B : B = (A \cup {new}) \cup {j}
      OBVIOUS
  <2> PICK C : C = A \cup {new}
      OBVIOUS
  <2>3. /\ B = C \cup {j} /\ j \notin C /\ IsFiniteSet(C)
        /\ Cardinality(C) = Cardinality(A) + 1 /\ C \in SUBSET Items
        BY <1>5, <2>2
  <2>4. Cardinality(B) = Cardinality(C) + 1
        BY <2>3, FS_AddElement
  <2>5. Cardinality(B) = Cardinality(A) + 2 /\ B \in SUBSET Items
        BY <1>1, <2>2, <2>3, <2>4
  <2>6. Cardinality(A) + 2 <= MaxItems
        BY <1>1, <2>5, FS_Subset
  <2> QED
      BY <1>1, <1>4, <1>7, <2>6, BoundsNat
<1> QED
    BY <1>4, <1>6, <1>7

-----------------------------------------------------------------------------
(***************************************************************************)
(* The owner's steps.                                                      *)
(***************************************************************************)

\* What concerns the worker and the queue alone: retiring tickets keeps it.
QueueInv ==
    /\ WorkerItem
    /\ OnlyIssued /\ Ascending /\ Queued /\ EvictsHead
    /\ Room /\ Compacted

\* What the owner does keeps the worker's part: tickets are only retired.
LEMMA OwnerKeeps ==
    ASSUME BufferInv, worker' = worker, fifo' = fifo, ActiveTickets' \in SUBSET ActiveTickets
    PROVE  QueueInv'
<1>1. WorkerItem' /\ Ascending' /\ EvictsHead' /\ Compacted'
      BY DEF BufferInv, WorkerItem, Ascending, EvictsHead, Compacted, MetadataBounded
<1>2. OnlyIssued'
      BY DEF BufferInv, OnlyIssued, Issued
<1>3. Queued'
      BY DEF BufferInv, Queued
<1>4. Room'
  <2> PICK A : A = ActiveTickets
      OBVIOUS
  <2> PICK B : B = ActiveTickets'
      OBVIOUS
  <2> PICK o : o = worker.oldest
      OBVIOUS
  <2>1. IsFiniteSet(A) /\ B \in SUBSET A /\ Cardinality(A) \in Nat
        BY ActiveFinite
  <2>2. /\ Cardinality(A) <= Capacity
        /\ worker.pc = "retire" => Cardinality(A \ {o}) < Capacity
        /\ worker.pc = "insert" => Cardinality(A) < Capacity
        BY DEF BufferInv, Room, CapacityHolds
  <2>3. IsFiniteSet(B) /\ Cardinality(B) <= Cardinality(A) /\ Cardinality(B) \in Nat
        BY <2>1, FS_Subset, FS_CardinalityType
  <2>4. IsFiniteSet(A \ {o}) /\ Cardinality(A \ {o}) \in Nat /\ B \ {o} \in SUBSET (A \ {o})
        BY <2>1, FS_RemoveElement, FS_CardinalityType
  <2>5. Cardinality(B \ {o}) <= Cardinality(A \ {o}) /\ Cardinality(B \ {o}) \in Nat
        BY <2>4, FS_Subset, FS_CardinalityType
  <2>6. /\ Cardinality(B) <= Capacity
        /\ worker.pc = "retire" => Cardinality(B \ {o}) < Capacity
        /\ worker.pc = "insert" => Cardinality(B) < Capacity
        BY <2>1, <2>2, <2>3, <2>4, <2>5, CapacityAssumption
  <2> QED
      BY <2>6 DEF Room, CapacityHolds
<1> QED
    BY <1>1, <1>2, <1>3, <1>4 DEF QueueInv

\* The owner's part: its item, its debt and the count.
OwnerInv == OwnerItem /\ PendingExact /\ Debt

LEMMA BufferParts == BufferInv <=> TypeOK /\ OwnerInv /\ QueueInv
BY DEF BufferInv, OwnerInv, QueueInv

\* The owner touches one ticket, and retires it or not.
LEMMA OwnerTouches ==
    ASSUME BufferInv, NEW i \in Items, NEW t \in Ticket, ticket' = [ticket EXCEPT ![i] = t],
           t.active => ticket[i].active, owner.owes = 0,
           owner'.owes = IF ticket[i].active /\ ~t.active THEN 1 ELSE 0,
           pending' = pending, worker' = worker
    PROVE  /\ ticket' \in [Items -> Ticket]
           /\ ActiveTickets' \in SUBSET ActiveTickets
           /\ PendingExact'
           /\ owner'.owes = 1 => Issued' \ ActiveTickets' # {}
<1>1. ticket \in [Items -> Ticket] /\ ticket' \in [Items -> Ticket]
      BY DEF BufferInv, TypeOK
<1>2. ActiveTickets' = IF t.active THEN ActiveTickets ELSE ActiveTickets \ {i}
      BY <1>1 DEF ActiveTickets
<1>3. i \in ActiveTickets <=> ticket[i].active
      BY DEF ActiveTickets
<1>4. pending = Cardinality(ActiveTickets)
  <2>1. pending = Cardinality(ActiveTickets) + owner.owes
        BY DEF BufferInv, PendingExact
  <2> QED
      BY <2>1, ActiveFinite
<1>5. CASE t.active
  <2>1. ActiveTickets' = ActiveTickets /\ owner'.owes = 0
        BY <1>2, <1>5
  <2>2. PendingExact'
        BY <1>4, <2>1, ActiveFinite DEF PendingExact
  <2> QED
      BY <1>1, <2>1, <2>2
<1>6. CASE ~t.active
  <2> PICK A : A = ActiveTickets
      OBVIOUS
  <2>1. ActiveTickets' = A \ {i}
        BY <1>2, <1>6
  <2>2. IsFiniteSet(A) /\ Cardinality(A) \in Nat
        BY ActiveFinite
  <2>3. Cardinality(A \ {i}) = IF i \in A THEN Cardinality(A) - 1 ELSE Cardinality(A)
        BY <2>2, FS_RemoveElement
  <2>4. owner'.owes = IF i \in A THEN 1 ELSE 0
        BY <1>3, <1>6
  <2>5. pending' = Cardinality(A \ {i}) + owner'.owes
        BY <1>4, <2>2, <2>3, <2>4
  <2>6. PendingExact'
        BY <2>1, <2>5 DEF PendingExact
  <2>7. owner'.owes = 1 => Issued' \ ActiveTickets' # {}
    <3> SUFFICES ASSUME owner'.owes = 1
                 PROVE  Issued' \ ActiveTickets' # {}
        OBVIOUS
    <3>1. i \in A
          BY <2>4
    <3>2. i \in Issued'
          BY <3>1 DEF BufferInv, OnlyIssued, Issued
    <3> QED
        BY <2>1, <3>2
  <2> QED
      BY <1>1, <2>1, <2>6, <2>7
<1> QED
    BY <1>5, <1>6

\* What the type of the state says of each variable.
LEMMA StateTypes ==
    ASSUME BufferInv
    PROVE  /\ ticket \in [Items -> Ticket]
           /\ mailbox \in Seq(Items) /\ updates \in Seq(Items) /\ fifo \in Seq(Items)
           /\ pending \in 0..MaxItems
           /\ worker \in [pc : {"idle", "add", "prune", "check", "evict", "retire", "insert"},
                          item : 0..MaxItems, now : 0..MaxTime, oldest : 0..MaxItems]
           /\ owner \in [pc : {"idle", "dispatch", "recheck", "exposed"},
                         item : 0..MaxItems, owes : 0..1]
           /\ clock \in 0..MaxTime
BY DEF BufferInv, TypeOK

\* A step of the owner keeps the invariant, if it keeps the worker's state and the
\* queue of tickets, and touches one ticket of an item it has.
LEMMA OwnerStepInv ==
    ASSUME BufferInv, NEW i \in Items, NEW t \in Ticket, ticket' = [ticket EXCEPT ![i] = t],
           t.active => ticket[i].active, owner.owes = 0,
           owner'.owes = IF ticket[i].active /\ ~t.active THEN 1 ELSE 0,
           owner' \in [pc : {"idle", "dispatch", "recheck", "exposed"},
                       item : 0..MaxItems, owes : 0..1],
           owner'.pc \in {"dispatch", "recheck", "exposed"} => owner'.item \in Items,
           owner'.pc \in {"recheck", "exposed"} => owner'.owes = 0,
           mailbox' \in Seq(Items), updates' \in Seq(Items),
           UNCHANGED <<fifo, pending, worker, clock>>
    PROVE  BufferInv'
<1>1. /\ ticket' \in [Items -> Ticket]
      /\ ActiveTickets' \in SUBSET ActiveTickets
      /\ PendingExact'
      /\ owner'.owes = 1 => Issued' \ ActiveTickets' # {}
      BY OwnerTouches
<1>2. QueueInv'
      BY <1>1, OwnerKeeps
<1>3. OwnerInv'
      BY <1>1 DEF OwnerInv, OwnerItem, Debt
<1>4. TypeOK'
      BY <1>1, StateTypes DEF TypeOK
<1> QED
    BY <1>2, <1>3, <1>4 DEF BufferInv, OwnerInv, QueueInv

LEMMA PayPendingInv ==
    ASSUME BufferInv, PayPending
    PROVE  BufferInv'
<1>1. /\ owner.owes = 1 /\ pending' = pending - 1 /\ owner' = [owner EXCEPT !.owes = 0]
      /\ UNCHANGED <<ticket, mailbox, updates, fifo, worker, clock>>
      BY DEF PayPending
<1>2. ActiveTickets' = ActiveTickets
      BY <1>1 DEF ActiveTickets
<1>3. pending = Cardinality(ActiveTickets) + owner.owes
      BY DEF BufferInv, PendingExact
<1>4. /\ owner' \in [pc : {"idle", "dispatch", "recheck", "exposed"},
                     item : 0..MaxItems, owes : 0..1]
      /\ owner'.pc = owner.pc /\ owner'.item = owner.item /\ owner'.owes = 0
      BY <1>1, StateTypes
<1>5. pending' = Cardinality(ActiveTickets') + owner'.owes /\ pending' \in 0..MaxItems
  <2>1. pending \in 0..MaxItems /\ Cardinality(ActiveTickets) \in Nat
        BY StateTypes, ActiveFinite
  <2> QED
      BY <1>1, <1>2, <1>3, <1>4, <2>1, BoundsNat
<1>6. TypeOK'
      BY <1>1, <1>4, <1>5, StateTypes DEF TypeOK
<1>7. QueueInv'
      BY <1>1, <1>2, OwnerKeeps
<1>8. OwnerInv'
      BY <1>4, <1>5 DEF BufferInv, OwnerInv, OwnerItem, Debt, PendingExact
<1> QED
    BY <1>6, <1>7, <1>8 DEF BufferInv, OwnerInv, QueueInv

\* An expired item is dropped, from wherever the owner found it.
LEMMA DropExpiredInv ==
    ASSUME BufferInv, NEW i \in Items, DropExpired(i, "idle"), owner.owes = 0,
           mailbox' \in Seq(Items), updates' \in Seq(Items),
           UNCHANGED <<fifo, pending, worker, clock>>
    PROVE  BufferInv'
<1> PICK t : t = [ticket[i] EXCEPT !.active = FALSE, !.place = "gone"]
    OBVIOUS
<1>1. ticket \in [Items -> Ticket]
      BY StateTypes
<1>2. t \in Ticket /\ ~t.active
      BY <1>1 DEF Ticket
<1>3. ticket' = [ticket EXCEPT ![i] = t]
      BY <1>1 DEF DropExpired
<1>4. owner' = [pc |-> "idle", item |-> 0, owes |-> IF ticket[i].active THEN 1 ELSE 0]
      BY DEF DropExpired, None
<1>5. /\ owner' \in [pc : {"idle", "dispatch", "recheck", "exposed"},
                     item : 0..MaxItems, owes : 0..1]
      /\ owner'.owes = IF ticket[i].active /\ ~t.active THEN 1 ELSE 0
      /\ owner'.pc = "idle"
      BY <1>2, <1>4, BoundsNat
<1> QED
    BY <1>2, <1>3, <1>5, OwnerStepInv

\* The owner's last reference goes.
LEMMA DestroyInv ==
    ASSUME BufferInv, NEW i \in Items, Destroy(i, "idle"), owner.owes = 0,
           UNCHANGED <<mailbox, updates, fifo, pending, worker, clock>>
    PROVE  BufferInv'
<1> PICK retires : retires = (ticket[i].active /\ worker.oldest # i)
    OBVIOUS
<1> PICK t : t = [ticket[i] EXCEPT !.place = "gone", !.active = @ /\ ~retires]
    OBVIOUS
<1>1. ticket \in [Items -> Ticket]
      BY StateTypes
<1>2. /\ t \in Ticket /\ t.active = (ticket[i].active /\ ~retires)
      BY <1>1 DEF Ticket
<1>3. ticket' = [ticket EXCEPT ![i] = t]
      BY <1>1 DEF Destroy
<1>4. owner' = [pc |-> "idle", item |-> 0, owes |-> IF retires THEN 1 ELSE 0]
      BY DEF Destroy, None
<1>5. retires <=> ticket[i].active /\ ~t.active
      BY <1>2
<1>6. /\ owner' \in [pc : {"idle", "dispatch", "recheck", "exposed"},
                     item : 0..MaxItems, owes : 0..1]
      /\ owner'.owes = IF ticket[i].active /\ ~t.active THEN 1 ELSE 0
      /\ owner'.pc = "idle"
      BY <1>4, <1>5, BoundsNat
<1> QED
    BY <1>2, <1>3, <1>6, StateTypes, OwnerStepInv

\* The owner moves an item it takes to another place, its ticket as it was.
LEMMA MoveInv ==
    ASSUME BufferInv, NEW i \in Items, NEW p \in {"hand", "updates"},
           ticket' = [ticket EXCEPT ![i].place = p], owner.owes = 0,
           owner' \in [pc : {"idle", "dispatch", "recheck", "exposed"},
                       item : 0..MaxItems, owes : 0..1],
           owner'.owes = 0,
           owner'.pc # "idle" => owner'.item = i,
           mailbox' \in Seq(Items), updates' \in Seq(Items),
           UNCHANGED <<fifo, pending, worker, clock>>
    PROVE  BufferInv'
<1> PICK t : t = [ticket[i] EXCEPT !.place = p]
    OBVIOUS
<1>1. ticket \in [Items -> Ticket]
      BY StateTypes
<1>2. t \in Ticket /\ t.active = ticket[i].active
      BY <1>1 DEF Ticket
<1>3. ticket' = [ticket EXCEPT ![i] = t]
      BY <1>1
<1>4. owner'.owes = IF ticket[i].active /\ ~t.active THEN 1 ELSE 0
      BY <1>2
<1>5. owner'.pc \in {"dispatch", "recheck", "exposed"} => owner'.item \in Items
      OBVIOUS
<1> QED
    BY <1>2, <1>3, <1>4, <1>5, OwnerStepInv

LEMMA PopMailboxInv ==
    ASSUME BufferInv, PopMailbox
    PROVE  BufferInv'
<1> PICK i : i = Head(mailbox)
    OBVIOUS
<1>1. /\ owner.owes = 0 /\ mailbox # <<>> /\ mailbox' = Tail(mailbox)
      /\ UNCHANGED <<updates, fifo, pending, worker, clock>>
      BY DEF PopMailbox
<1>2. i \in Items /\ mailbox' \in Seq(Items) /\ updates' \in Seq(Items)
      BY <1>1, StateTypes, HeadTailProperties
<1>3. CASE Active(i, clock)
  <2>1. /\ ticket' = [ticket EXCEPT ![i].place = "hand"]
        /\ owner' = [owner EXCEPT !.pc = "dispatch", !.item = i]
        BY <1>3 DEF PopMailbox
  <2>2. /\ owner' \in [pc : {"idle", "dispatch", "recheck", "exposed"},
                       item : 0..MaxItems, owes : 0..1]
        /\ owner'.owes = 0
        /\ owner'.item = i
    <3>1. i \in 0..MaxItems
          BY <1>2, BoundsNat DEF Items
    <3> QED
        BY <1>1, <2>1, <3>1, StateTypes
  <2> QED
      BY <1>1, <1>2, <2>1, <2>2, MoveInv
<1>4. CASE ~Active(i, clock)
  <2>1. DropExpired(i, "idle")
        BY <1>4 DEF PopMailbox
  <2> QED
      BY <1>1, <1>2, <2>1, DropExpiredInv
<1> QED
    BY <1>3, <1>4

LEMMA DispatchConsumesInv ==
    ASSUME BufferInv, DispatchConsumes
    PROVE  BufferInv'
<1> PICK i : i = owner.item
    OBVIOUS
<1>1. i \in Items
      BY DEF BufferInv, OwnerItem, DispatchConsumes
<1>2. /\ Destroy(i, "idle") /\ owner.owes = 0
      /\ UNCHANGED <<mailbox, updates, fifo, pending, worker, clock>>
      BY DEF DispatchConsumes
<1> QED
    BY <1>1, <1>2, DestroyInv

LEMMA PreserveInv ==
    ASSUME BufferInv, Preserve
    PROVE  BufferInv'
<1> PICK i : i = owner.item
    OBVIOUS
<1>1. i \in Items
      BY DEF BufferInv, OwnerItem, Preserve
<1>2. /\ owner.owes = 0 /\ updates' = Append(updates, i)
      /\ ticket' = [ticket EXCEPT ![i].place = "updates"]
      /\ owner' = [owner EXCEPT !.pc = "idle", !.item = 0]
      /\ UNCHANGED <<mailbox, fifo, pending, worker, clock>>
      BY DEF Preserve, None
<1>3. updates' \in Seq(Items) /\ mailbox' \in Seq(Items)
      BY <1>1, <1>2, StateTypes, AppendProperties
<1>4. /\ owner' \in [pc : {"idle", "dispatch", "recheck", "exposed"},
                     item : 0..MaxItems, owes : 0..1]
      /\ owner'.owes = 0
      /\ owner'.pc = "idle"
  <2>1. 0 \in 0..MaxItems
        BY BoundsNat
  <2>2. owner \in [pc : {"idle", "dispatch", "recheck", "exposed"},
                   item : 0..MaxItems, owes : 0..1]
        BY StateTypes
  <2>3. owner' = [owner EXCEPT !.pc = "idle", !.item = 0] /\ owner.owes = 0
        BY <1>2
  <2> QED
      BY <2>1, <2>2, <2>3
<1> QED
    BY <1>1, <1>2, <1>3, <1>4, MoveInv

LEMMA PruneUpdateInv ==
    ASSUME BufferInv, PruneUpdate
    PROVE  BufferInv'
<1>1. PICK k \in 1..Len(updates) :
         /\ updates' = Without(updates, {updates[k]})
         /\ ticket' = [ticket EXCEPT ![updates[k]].active = FALSE,
                                     ![updates[k]].place = "gone"]
         /\ owner' = [owner EXCEPT !.owes = IF ticket[updates[k]].active THEN 1 ELSE 0]
      BY DEF PruneUpdate
<1>2. /\ owner.pc \in {"idle", "dispatch"} /\ owner.owes = 0
      /\ UNCHANGED <<mailbox, fifo, pending, worker, clock>>
      BY DEF PruneUpdate
<1> PICK i : i = updates[k]
    OBVIOUS
<1>3. i \in Items /\ updates' \in Seq(Items) /\ mailbox' \in Seq(Items)
      BY <1>1, <1>2, StateTypes, ElementOfSeq, WithoutFields
<1> PICK t : t = [ticket[i] EXCEPT !.active = FALSE, !.place = "gone"]
    OBVIOUS
<1>4. ticket \in [Items -> Ticket]
      BY StateTypes
<1>5. t \in Ticket /\ ~t.active
      BY <1>3, <1>4 DEF Ticket
<1>6. ticket' = [ticket EXCEPT ![i] = t]
      BY <1>1, <1>3, <1>4
<1>7. /\ owner' \in [pc : {"idle", "dispatch", "recheck", "exposed"},
                     item : 0..MaxItems, owes : 0..1]
      /\ owner'.owes = IF ticket[i].active /\ ~t.active THEN 1 ELSE 0
      /\ owner'.pc = owner.pc /\ owner'.item = owner.item
  <2> PICK n : n = IF ticket[i].active THEN 1 ELSE 0
      OBVIOUS
  <2>1. owner' = [owner EXCEPT !.owes = n] /\ n \in 0..1
        BY <1>1
  <2>2. owner \in [pc : {"idle", "dispatch", "recheck", "exposed"},
                   item : 0..MaxItems, owes : 0..1]
        BY StateTypes
  <2>3. /\ owner' \in [pc : {"idle", "dispatch", "recheck", "exposed"},
                       item : 0..MaxItems, owes : 0..1]
        /\ owner'.owes = n /\ owner'.pc = owner.pc /\ owner'.item = owner.item
        BY <2>1, <2>2
  <2> QED
      BY <1>5, <2>3
<1>8. owner'.pc \in {"dispatch", "recheck", "exposed"} => owner'.item \in Items
      BY <1>7 DEF BufferInv, OwnerItem
<1>9. ~(owner'.pc \in {"recheck", "exposed"})
      BY <1>2, <1>7
<1> QED
    BY <1>2, <1>3, <1>5, <1>6, <1>7, <1>8, <1>9, OwnerStepInv

LEMMA TryPopInv ==
    ASSUME BufferInv, TryPop
    PROVE  BufferInv'
<1> PICK i : i = Head(updates)
    OBVIOUS
<1>1. /\ owner.owes = 0 /\ updates # <<>> /\ updates' = Tail(updates)
      /\ ticket' = [ticket EXCEPT ![i].place = "hand"]
      /\ owner' = [owner EXCEPT !.pc = "recheck", !.item = i]
      /\ UNCHANGED <<mailbox, fifo, pending, worker, clock>>
      BY DEF TryPop
<1>2. i \in Items /\ mailbox' \in Seq(Items) /\ updates' \in Seq(Items)
      BY <1>1, StateTypes, HeadTailProperties
<1>3. /\ owner' \in [pc : {"idle", "dispatch", "recheck", "exposed"},
                     item : 0..MaxItems, owes : 0..1]
      /\ owner'.owes = 0
      /\ owner'.item = i
  <2>1. i \in 0..MaxItems
        BY <1>2, BoundsNat DEF Items
  <2> QED
      BY <1>1, <2>1, StateTypes
<1> QED
    BY <1>1, <1>2, <1>3, MoveInv

LEMMA ExposeInv ==
    ASSUME BufferInv, Expose
    PROVE  BufferInv'
<1>1. /\ owner.pc = "recheck" /\ owner' = [owner EXCEPT !.pc = "exposed"]
      /\ UNCHANGED <<ticket, mailbox, updates, fifo, pending, worker, clock>>
      BY DEF Expose
<1>2. /\ owner' \in [pc : {"idle", "dispatch", "recheck", "exposed"},
                     item : 0..MaxItems, owes : 0..1]
      /\ owner'.item = owner.item /\ owner'.owes = owner.owes
      BY <1>1, StateTypes
<1>3. TypeOK'
      BY <1>1, <1>2, StateTypes DEF TypeOK
<1>4. ActiveTickets' = ActiveTickets /\ Issued' = Issued
      BY <1>1 DEF ActiveTickets, Issued
<1>5. QueueInv'
      BY <1>1, <1>4, OwnerKeeps
<1>6. OwnerInv'
      BY <1>1, <1>2, <1>4 DEF BufferInv, OwnerInv, OwnerItem, PendingExact, Debt
<1> QED
    BY <1>3, <1>5, <1>6 DEF BufferInv, OwnerInv, QueueInv

LEMMA ReleaseInv ==
    ASSUME BufferInv, Release
    PROVE  BufferInv'
<1> PICK i : i = owner.item
    OBVIOUS
<1>1. i \in Items /\ owner.owes = 0
      BY DEF BufferInv, OwnerItem, Debt, Release
<1>2. Destroy(i, "idle") /\ UNCHANGED <<mailbox, updates, fifo, pending, worker, clock>>
      BY DEF Release
<1> QED
    BY <1>1, <1>2, DestroyInv

LEMMA SkipInv ==
    ASSUME BufferInv, Skip
    PROVE  BufferInv'
<1> PICK i : i = owner.item
    OBVIOUS
<1>1. i \in Items /\ owner.owes = 0
      BY DEF BufferInv, OwnerItem, Debt, Skip
<1>2. DropExpired(i, "idle") /\ UNCHANGED <<mailbox, updates, fifo, pending, worker, clock>>
      BY DEF Skip
<1>3. mailbox' \in Seq(Items) /\ updates' \in Seq(Items)
      BY <1>2, StateTypes
<1> QED
    BY <1>1, <1>2, <1>3, DropExpiredInv

LEMMA OwnerStepsInv ==
    ASSUME BufferInv, OwnerStep
    PROVE  BufferInv'
BY PayPendingInv, PopMailboxInv, DispatchConsumesInv, PreserveInv, PruneUpdateInv, TryPopInv,
   ExposeInv, ReleaseInv, SkipInv DEF OwnerStep

LEMMA TickInv ==
    ASSUME BufferInv, Tick
    PROVE  BufferInv'
<1>1. clock' \in 0..MaxTime /\ UNCHANGED <<ticket, mailbox, updates, fifo, pending, worker, owner>>
      BY StateTypes, BoundsNat DEF Tick
<1>2. ActiveTickets' = ActiveTickets /\ Issued' = Issued
      BY <1>1 DEF ActiveTickets, Issued
<1>3. TypeOK'
      BY <1>1, StateTypes DEF TypeOK
<1>4. QueueInv'
      BY <1>1, <1>2, OwnerKeeps
<1>5. OwnerInv'
      BY <1>1, <1>2 DEF BufferInv, OwnerInv, OwnerItem, PendingExact, Debt
<1> QED
    BY <1>3, <1>4, <1>5 DEF BufferInv, OwnerInv, QueueInv

-----------------------------------------------------------------------------
(***************************************************************************)
(* The worker's steps.                                                     *)
(***************************************************************************)

\* Discarding a ticket retires it and counts it off.
LEMMA Discarded ==
    ASSUME BufferInv, NEW i \in Items, Discard(i), owner' = owner
    PROVE  /\ ticket' \in [Items -> Ticket] /\ mailbox' \in Seq(Items)
           /\ pending' \in 0..MaxItems
           /\ ActiveTickets' = ActiveTickets \ {i}
           /\ PendingExact'
<1> PICK A : A = ActiveTickets
    OBVIOUS
<1> PICK t : t = [ticket[i] EXCEPT !.active = FALSE,
                                   !.place = IF @ = "mailbox" THEN "gone" ELSE @]
    OBVIOUS
<1>1. ticket \in [Items -> Ticket]
      BY StateTypes
<1>2. t \in Ticket /\ ~t.active
      BY <1>1 DEF Ticket
<1>3. ticket' = [ticket EXCEPT ![i] = t]
      BY <1>1 DEF Discard
<1>4. ticket' \in [Items -> Ticket] /\ ActiveTickets' = ActiveTickets \ {i}
      BY <1>1, <1>2, <1>3 DEF ActiveTickets
<1>5. mailbox' \in Seq(Items)
  <2>1. mailbox' = Without(mailbox, {i})
        BY DEF Discard
  <2> QED
      BY <2>1, StateTypes, WithoutFields
<1>6. /\ IsFiniteSet(A) /\ Cardinality(A) \in Nat /\ owner.owes \in 0..1
      /\ pending = Cardinality(A) + owner.owes /\ pending \in 0..MaxItems
  <2>1. pending = Cardinality(A) + owner.owes
        BY DEF BufferInv, PendingExact
  <2>2. owner.owes \in 0..1 /\ pending \in 0..MaxItems
        BY StateTypes
  <2> QED
      BY <2>1, <2>2, ActiveFinite
<1>7. /\ Cardinality(A \ {i}) = IF i \in A THEN Cardinality(A) - 1 ELSE Cardinality(A)
      /\ Cardinality(A \ {i}) \in Nat
      BY <1>6, FS_RemoveElement, FS_CardinalityType
<1>8. pending' = IF i \in A THEN pending - 1 ELSE pending
      BY DEF Discard, ActiveTickets
<1>9. pending' = Cardinality(A \ {i}) + owner'.owes /\ pending' \in 0..MaxItems
      BY <1>6, <1>7, <1>8, BoundsNat
<1> QED
    BY <1>4, <1>5, <1>9 DEF PendingExact

\* A worker's step that issues nothing keeps the owner's part.
LEMMA WorkerKeeps ==
    ASSUME BufferInv, owner' = owner, ActiveTickets' \in SUBSET ActiveTickets,
           Issued' = Issued, PendingExact'
    PROVE  OwnerInv'
BY DEF BufferInv, OwnerInv, OwnerItem, Debt

\* The head of the queue of tickets leaves it.
LEMMA FifoHead ==
    ASSUME BufferInv, fifo # <<>>
    PROVE  /\ Head(fifo) \in Items /\ Head(fifo) = fifo[1] /\ 1 \in 1..Len(fifo)
           /\ Tail(fifo) \in Seq(Items) /\ Len(Tail(fifo)) = Len(fifo) - 1
           /\ Len(fifo) \in Nat /\ Len(Tail(fifo)) \in Nat
           /\ \A k \in 1..Len(Tail(fifo)) : k + 1 \in 1..Len(fifo) /\ Tail(fifo)[k] = fifo[k + 1]
           /\ \A k \in 1..Len(fifo) :
                k = 1 \/ (k - 1 \in 1..Len(Tail(fifo)) /\ Tail(fifo)[k - 1] = fifo[k])
<1> PICK f : f = fifo
    OBVIOUS
<1> PICK g : g = Tail(f)
    OBVIOUS
<1>1. f \in Seq(Items) /\ f # <<>>
      BY StateTypes
<1>2. /\ Head(f) \in Items /\ g \in Seq(Items) /\ Len(g) = Len(f) - 1
      /\ \A k \in 1..Len(g) : g[k] = f[k + 1]
      BY <1>1, HeadTailProperties
<1>3. Len(f) \in Nat \ {0} /\ Len(g) \in Nat
      BY <1>1, <1>2, EmptySeq, LenProperties
<1>4. Head(f) = f[1]
      BY <1>1
<1>5. \A k \in 1..Len(g) : k + 1 \in 1..Len(f)
      BY <1>2, <1>3
<1>6. ASSUME NEW k \in 1..Len(f), k # 1
      PROVE  k - 1 \in 1..Len(g) /\ g[k - 1] = f[k]
  <2>1. k - 1 \in 1..Len(g) /\ (k - 1) + 1 = k
        BY <1>2, <1>3, <1>6
  <2> QED
      BY <1>2, <2>1
<1> QED
    BY <1>2, <1>3, <1>4, <1>5, <1>6

\* Its tail is in order too, and younger than its head.
LEMMA FifoTail ==
    ASSUME BufferInv, fifo # <<>>, fifo' = Tail(fifo)
    PROVE  /\ Ascending'
           /\ \A k \in 1..Len(fifo') : fifo'[k] \in Issued /\ Head(fifo) < fifo'[k]
           /\ \A k \in 1..Len(fifo) :
                fifo[k] = Head(fifo) \/ \E j \in 1..Len(fifo') : fifo'[j] = fifo[k]
           /\ Len(fifo') <= 2 * Capacity
           /\ \A n \in Nat : Len(fifo) <= n => Len(fifo') <= n
<1> PICK f : f = fifo
    OBVIOUS
<1> PICK g : g = fifo'
    OBVIOUS
<1>1. /\ Head(f) = f[1] /\ 1 \in 1..Len(f)
      /\ Len(g) = Len(f) - 1 /\ Len(f) \in Nat /\ Len(g) \in Nat
      /\ \A k \in 1..Len(g) : k + 1 \in 1..Len(f) /\ g[k] = f[k + 1]
      /\ \A k \in 1..Len(f) : k = 1 \/ (k - 1 \in 1..Len(g) /\ g[k - 1] = f[k])
      BY FifoHead
<1>2. \A j, k \in 1..Len(f) : j < k => f[j] < f[k]
      BY DEF BufferInv, Ascending
<1>3. \A j, k \in 1..Len(g) : j < k => g[j] < g[k]
  <2> SUFFICES ASSUME NEW j \in 1..Len(g), NEW k \in 1..Len(g), j < k
               PROVE  g[j] < g[k]
      OBVIOUS
  <2>1. j + 1 < k + 1 /\ j + 1 \in 1..Len(f) /\ k + 1 \in 1..Len(f)
        BY <1>1
  <2>2. f[j + 1] < f[k + 1]
        BY <1>2, <2>1
  <2> QED
      BY <1>1, <2>2
<1>4. \A k \in 1..Len(g) : g[k] \in Issued /\ Head(f) < g[k]
  <2> SUFFICES ASSUME NEW k \in 1..Len(g)
               PROVE  g[k] \in Issued /\ Head(f) < g[k]
      OBVIOUS
  <2>1. k + 1 \in 1..Len(f) /\ 1 < k + 1 /\ g[k] = f[k + 1]
        BY <1>1
  <2>2. f[1] < f[k + 1]
        BY <1>1, <1>2, <2>1
  <2>3. f[k + 1] \in Issued
        BY <2>1 DEF BufferInv, OnlyIssued
  <2> QED
      BY <1>1, <2>1, <2>2, <2>3
<1>5. \A k \in 1..Len(f) : f[k] = Head(f) \/ \E j \in 1..Len(g) : g[j] = f[k]
      BY <1>1
<1>6. Len(g) <= 2 * Capacity
  <2>1. Len(f) <= Capacity * 2 + 1
        BY DEF BufferInv, Compacted, MetadataBounded
  <2> QED
      BY <1>1, <2>1, CapacityAssumption
<1>7. \A n \in Nat : Len(f) <= n => Len(g) <= n
      BY <1>1
<1>8. Ascending'
      BY <1>3 DEF Ascending
<1> QED
    BY <1>4, <1>5, <1>6, <1>7, <1>8

\* Fewer active tickets leave the room there was.
LEMMA RoomShrinks ==
    ASSUME BufferInv, ActiveTickets' \in SUBSET ActiveTickets
    PROVE  CapacityHolds'
<1> PICK A : A = ActiveTickets
    OBVIOUS
<1> PICK B : B = ActiveTickets'
    OBVIOUS
<1>1. IsFiniteSet(A) /\ B \in SUBSET A /\ Cardinality(A) \in Nat
      BY ActiveFinite
<1>2. Cardinality(B) <= Cardinality(A) /\ Cardinality(B) \in Nat
      BY <1>1, FS_Subset, FS_CardinalityType
<1>3. Cardinality(A) <= Capacity
      BY DEF BufferInv, Room, CapacityHolds
<1>4. Cardinality(B) <= Capacity
      BY <1>1, <1>2, <1>3, CapacityAssumption
<1> QED
    BY <1>4 DEF CapacityHolds

LEMMA AcquireInv ==
    ASSUME BufferInv, Acquire
    PROVE  BufferInv'
<1>1. /\ worker.pc = "idle" /\ worker.item < MaxItems
      /\ ticket' = [ticket EXCEPT ![worker.item + 1].acquired = clock]
      /\ worker' = [worker EXCEPT !.pc = "add", !.item = worker.item + 1]
      /\ UNCHANGED <<mailbox, updates, fifo, pending, owner, clock>>
      BY DEF Acquire
<1>2. worker.item + 1 \in Items /\ worker.item \in 0..MaxItems
      BY <1>1, StateTypes, BoundsNat DEF Items
<1>3. /\ worker' \in [pc : {"idle", "add", "prune", "check", "evict", "retire", "insert"},
                      item : 0..MaxItems, now : 0..MaxTime, oldest : 0..MaxItems]
      /\ worker'.pc = "add" /\ worker'.item = worker.item + 1
  <2>1. worker.item + 1 \in 0..MaxItems
        BY <1>2, BoundsNat DEF Items
  <2> QED
      BY <1>1, <2>1, StateTypes
<1>4. ticket' \in [Items -> Ticket] /\ \A i \in Items : ticket'[i].active = ticket[i].active
      BY <1>1, <1>2, StateTypes DEF Ticket
<1>5. TypeOK'
      BY <1>1, <1>3, <1>4, StateTypes DEF TypeOK
<1>6. ActiveTickets' = ActiveTickets
      BY <1>4 DEF ActiveTickets
<1>7. Issued' = Issued
      BY <1>1, <1>2, <1>3 DEF Issued, Items
<1>8. PendingExact'
      BY <1>1, <1>6 DEF BufferInv, PendingExact
<1>9. OwnerInv'
      BY <1>1, <1>6, <1>7, <1>8, WorkerKeeps
<1>10. QueueInv'
  <2>1. WorkerItem'
        BY <1>2, <1>3 DEF WorkerItem
  <2>2. OnlyIssued' /\ Ascending' /\ EvictsHead'
        BY <1>1, <1>3, <1>6, <1>7 DEF BufferInv, OnlyIssued, Ascending, EvictsHead
  <2>3. Queued' /\ Room' /\ Compacted'
        BY <1>1, <1>3, <1>6
           DEF BufferInv, Queued, Room, Compacted, CapacityHolds, MetadataBounded
  <2> QED
      BY <2>1, <2>2, <2>3 DEF QueueInv
<1> QED
    BY <1>5, <1>9, <1>10, BufferParts DEF BufferInv, OwnerInv, QueueInv

LEMMA AddGenericInv ==
    ASSUME BufferInv, AddGeneric
    PROVE  BufferInv'
<1>1. /\ worker.pc = "add" /\ worker' = [worker EXCEPT !.pc = "prune", !.now = clock]
      /\ UNCHANGED <<ticket, mailbox, updates, fifo, pending, owner, clock>>
      BY DEF AddGeneric
<1>2. /\ worker' \in [pc : {"idle", "add", "prune", "check", "evict", "retire", "insert"},
                      item : 0..MaxItems, now : 0..MaxTime, oldest : 0..MaxItems]
      /\ worker'.pc = "prune" /\ worker'.item = worker.item
      BY <1>1, StateTypes
<1>3. TypeOK'
      BY <1>1, <1>2, StateTypes DEF TypeOK
<1>4. ActiveTickets' = ActiveTickets /\ Issued' = Issued
      BY <1>1, <1>2 DEF ActiveTickets, Issued
<1>5. OwnerInv'
      BY <1>1, <1>4 DEF BufferInv, OwnerInv, OwnerItem, PendingExact, Debt
<1>6. WorkerItem' /\ OnlyIssued' /\ Ascending' /\ EvictsHead'
      BY <1>1, <1>2, <1>4 DEF BufferInv, WorkerItem, OnlyIssued, Ascending, EvictsHead
<1>7. Queued' /\ Room' /\ Compacted'
      BY <1>1, <1>2, <1>4
         DEF BufferInv, Queued, Room, Compacted, CapacityHolds, MetadataBounded
<1> QED
    BY <1>3, <1>5, <1>6, <1>7 DEF BufferInv, OwnerInv, QueueInv

LEMMA PruneInv ==
    ASSUME BufferInv, Prune
    PROVE  BufferInv'
<1> PICK h : h = Head(fifo)
    OBVIOUS
<1>1. /\ worker.pc = "prune" /\ fifo # <<>> /\ fifo' = Tail(fifo) /\ Discard(h)
      /\ UNCHANGED <<updates, worker, owner, clock>>
      BY DEF Prune
<1>2. h \in Items /\ fifo' \in Seq(Items)
      BY <1>1, FifoHead
<1>3. /\ ticket' \in [Items -> Ticket] /\ mailbox' \in Seq(Items)
      /\ pending' \in 0..MaxItems /\ ActiveTickets' = ActiveTickets \ {h} /\ PendingExact'
      BY <1>1, <1>2, Discarded
<1>4. TypeOK'
      BY <1>1, <1>2, <1>3, StateTypes DEF TypeOK
<1>5. Issued' = Issued /\ ActiveTickets' \in SUBSET ActiveTickets
      BY <1>1, <1>3 DEF Issued
<1>6. OwnerInv'
      BY <1>1, <1>3, <1>5, WorkerKeeps
<1>7. /\ Ascending'
      /\ \A k \in 1..Len(fifo') : fifo'[k] \in Issued
      /\ \A k \in 1..Len(fifo) : fifo[k] = h \/ \E j \in 1..Len(fifo') : fifo'[j] = fifo[k]
      /\ Len(fifo') <= 2 * Capacity
      BY <1>1, FifoTail
<1>8. WorkerItem' /\ OnlyIssued' /\ EvictsHead'
      BY <1>1, <1>5, <1>7 DEF BufferInv, WorkerItem, OnlyIssued, EvictsHead
<1>9. Queued'
      BY <1>1, <1>3, <1>7 DEF BufferInv, Queued
<1>10. Room'
      BY <1>1, <1>5, RoomShrinks DEF Room
<1>11. Compacted'
  <2>1. Len(fifo') <= Capacity * 2 + 1
        BY <1>2, <1>7, CapacityAssumption, LenProperties
  <2> QED
      BY <1>1, <2>1 DEF Compacted, MetadataBounded
<1> QED
    BY <1>4, <1>6, <1>7, <1>8, <1>9, <1>10, <1>11 DEF BufferInv, OwnerInv, QueueInv

\* What a compaction leaves: the active tickets, each queued once.
LEMMA CompactedQueue ==
    ASSUME BufferInv, NEW dead,
           dead = {i \in ToSet(fifo) : ~(Alive(i) /\ Active(i, worker.now))},
           fifo' = Without(fifo, dead), ActiveTickets' = ActiveTickets \ dead
    PROVE  /\ fifo' \in Seq(Items) /\ Len(fifo') <= Capacity /\ Ascending'
           /\ \A n \in 1..Len(fifo') : fifo'[n] \in ActiveTickets'
           /\ \A k \in 1..Len(fifo) :
                fifo[k] \notin dead => \E n \in 1..Len(fifo') : fifo'[n] = fifo[k]
<1> PICK f : f = fifo
    OBVIOUS
<1> PICK g : g = fifo'
    OBVIOUS
<1> PICK B : B = ActiveTickets \ dead
    OBVIOUS
<1>1. f \in Seq(Items) /\ g \in Seq(Items)
      BY StateTypes, WithoutFields
<1>2. PICK pos : LeftAt(pos, Len(g), g, f, dead)
      BY <1>1, WithoutFields
<1> PICK N : N = Len(g)
    OBVIOUS
<1>3. /\ pos \in [1..N -> 1..Len(f)]
      /\ \A n \in 1..N : g[n] = f[pos[n]] /\ f[pos[n]] \notin dead
      /\ \A m, n \in 1..N : m < n => pos[m] < pos[n]
      /\ \A k \in 1..Len(f) : f[k] \notin dead => \E n \in 1..N : pos[n] = k
      BY <1>2 DEF LeftAt
<1>4. N \in Nat /\ DOMAIN g = 1..N /\ DOMAIN f = 1..Len(f)
      BY <1>1, LenProperties
<1>5. \A n \in 1..N : g[n] \in B
  <2> SUFFICES ASSUME NEW n \in 1..N
               PROVE  g[n] \in B
      OBVIOUS
  <2> PICK i : i = f[pos[n]]
      OBVIOUS
  <2>1. pos[n] \in 1..Len(f) /\ i = g[n] /\ i \notin dead
        BY <1>3
  <2>2. i \in ToSet(f) /\ i \in Items
    <3>1. pos[n] \in DOMAIN f
          BY <1>4, <2>1
    <3>2. f[pos[n]] \in ToSet(f)
          BY <3>1 DEF ToSet
    <3>3. f[pos[n]] \in Items
          BY <1>1, <2>1, ElementOfSeq
    <3> QED
        BY <3>2, <3>3
  <2>3. Active(i, worker.now)
        BY <2>1, <2>2
  <2>4. i \in ActiveTickets
        BY <2>2, <2>3 DEF Active, ActiveTickets
  <2> QED
      BY <2>1, <2>4
<1>6. \A m, n \in 1..N : m < n => g[m] < g[n]
  <2> SUFFICES ASSUME NEW m \in 1..N, NEW n \in 1..N, m < n
               PROVE  g[m] < g[n]
      OBVIOUS
  <2>1. pos[m] \in 1..Len(f) /\ pos[n] \in 1..Len(f) /\ pos[m] < pos[n]
        BY <1>3
  <2>2. f[pos[m]] < f[pos[n]]
        BY <2>1 DEF BufferInv, Ascending
  <2> QED
      BY <1>3, <2>2
<1>7. IsFiniteSet(B) /\ Cardinality(B) \in Nat /\ Cardinality(B) <= Capacity /\ B \subseteq Nat
  <2>1. /\ B \in SUBSET ActiveTickets /\ IsFiniteSet(ActiveTickets)
        /\ Cardinality(ActiveTickets) \in Nat /\ ActiveTickets \in SUBSET Items
        BY ActiveFinite
  <2>2. IsFiniteSet(B) /\ Cardinality(B) <= Cardinality(ActiveTickets) /\ Cardinality(B) \in Nat
        BY <2>1, FS_Subset, FS_CardinalityType
  <2>3. Cardinality(ActiveTickets) <= Capacity
        BY DEF BufferInv, Room, CapacityHolds
  <2>4. Items \subseteq Nat
        BY DEF Items
  <2>5. B \subseteq Nat
        BY <2>1, <2>4
  <2> QED
      BY <2>1, <2>2, <2>3, <2>5, CapacityAssumption
<1>8. g \in [1..N -> B]
      BY <1>1, <1>4, <1>5, LenProperties
<1>9. N <= Capacity
  <2>1. N <= Cardinality(B)
        BY <1>4, <1>6, <1>7, <1>8, AscendingFits
  <2> QED
      BY <1>4, <1>7, <2>1, CapacityAssumption
<1>10. Ascending'
      BY <1>6 DEF Ascending
<1>11. \A k \in 1..Len(f) : f[k] \notin dead => \E n \in 1..N : g[n] = f[k]
  <2> SUFFICES ASSUME NEW k \in 1..Len(f), f[k] \notin dead
               PROVE  \E n \in 1..N : g[n] = f[k]
      OBVIOUS
  <2>1. PICK n \in 1..N : pos[n] = k
        BY <1>3
  <2>2. g[n] = f[pos[n]]
        BY <1>3
  <2> QED
      BY <2>1, <2>2
<1> QED
    BY <1>1, <1>5, <1>9, <1>10, <1>11

LEMMA CountsOff ==
    ASSUME NEW A, IsFiniteSet(A), NEW gone, NEW owes \in 0..1,
           Cardinality(A) + owes \in 0..MaxItems
    PROVE  /\ (Cardinality(A) + owes) - Cardinality(A \cap gone) = Cardinality(A \ gone) + owes
           /\ Cardinality(A \ gone) + owes \in 0..MaxItems
<1> PICK a : a = Cardinality(A)
    OBVIOUS
<1> PICK b : b = Cardinality(A \ gone)
    OBVIOUS
<1> PICK n : n = Cardinality(A \cap gone)
    OBVIOUS
<1>1. b = a - n /\ IsFiniteSet(A \ gone)
      BY FS_Difference
<1>2. IsFiniteSet(A \cap gone)
      BY FS_Intersection
<1>3. a \in Nat /\ b \in Nat /\ n \in Nat
      BY <1>1, <1>2, FS_CardinalityType
<1>4. (a + owes) - n = b + owes
      BY <1>1, <1>3
<1>5. b + owes \in 0..MaxItems
      BY <1>1, <1>3, BoundsNat
<1> QED
    BY <1>4, <1>5

\* A compaction retires the expired tickets it finds, and counts them off.
LEMMA CompactedTickets ==
    ASSUME BufferInv, NEW dead, dead \in SUBSET Items,
           ticket' = [i \in Items |->
                        IF i \notin dead THEN ticket[i]
                        ELSE [ticket[i] EXCEPT !.active = FALSE,
                                               !.place = IF @ = "mailbox" THEN "gone" ELSE @]],
           pending' = pending - Cardinality({i \in dead : ticket[i].active}),
           owner' = owner
    PROVE  /\ ticket' \in [Items -> Ticket] /\ pending' \in 0..MaxItems
           /\ ActiveTickets' = ActiveTickets \ dead /\ PendingExact'
<1>1. \A i \in Items : ticket[i] \in Ticket
      BY StateTypes
<1>2. \A i \in Items : /\ ticket'[i] \in Ticket
                       /\ ticket'[i].active = (ticket[i].active /\ i \notin dead)
  <2> SUFFICES ASSUME NEW i \in Items
               PROVE  /\ ticket'[i] \in Ticket
                      /\ ticket'[i].active = (ticket[i].active /\ i \notin dead)
      OBVIOUS
  <2>1. CASE i \notin dead
    <3>1. ticket'[i] = ticket[i]
          BY <2>1
    <3>2. ticket[i].active \in BOOLEAN
          BY <1>1 DEF Ticket
    <3> QED
        BY <1>1, <2>1, <3>1, <3>2
  <2>2. CASE i \in dead
    <3>1. ticket'[i] = [ticket[i] EXCEPT !.active = FALSE,
                                         !.place = IF @ = "mailbox" THEN "gone" ELSE @]
          BY <2>2
    <3>2. ticket'[i] \in Ticket /\ ticket'[i].active = FALSE
          BY <1>1, <3>1 DEF Ticket
    <3> QED
        BY <2>2, <3>2
  <2> QED
      BY <2>1, <2>2
<1>3. ticket' \in [Items -> Ticket]
      BY <1>2
<1>4. ActiveTickets' = ActiveTickets \ dead
      BY <1>2 DEF ActiveTickets
<1>5. pending' = pending - Cardinality(ActiveTickets \cap dead)
  <2>1. {i \in dead : ticket[i].active} = ActiveTickets \cap dead
        BY DEF ActiveTickets
  <2> QED
      BY <2>1
<1>6. pending = Cardinality(ActiveTickets) + owner.owes
      BY DEF BufferInv, PendingExact
<1>7. /\ Cardinality(ActiveTickets) + owner.owes \in 0..MaxItems
      /\ owner.owes \in 0..1 /\ IsFiniteSet(ActiveTickets)
      BY <1>6, StateTypes, ActiveFinite
<1>8. /\ (Cardinality(ActiveTickets) + owner.owes) - Cardinality(ActiveTickets \cap dead)
           = Cardinality(ActiveTickets \ dead) + owner.owes
      /\ Cardinality(ActiveTickets \ dead) + owner.owes \in 0..MaxItems
      BY <1>7, CountsOff
<1>9. /\ pending' = Cardinality(ActiveTickets \ dead) + owner.owes
      /\ pending' \in 0..MaxItems
      BY <1>5, <1>6, <1>8
<1> QED
    BY <1>3, <1>4, <1>9 DEF PendingExact

LEMMA CompactInv ==
    ASSUME BufferInv, Compact
    PROVE  BufferInv'
<1> PICK dead : dead = {i \in ToSet(fifo) : ~(Alive(i) /\ Active(i, worker.now))}
    OBVIOUS
<1>1. /\ worker.pc = "prune" /\ worker' = [worker EXCEPT !.pc = "check"]
      /\ UNCHANGED <<updates, owner, clock>>
      BY DEF Compact
<1>2. /\ worker' \in [pc : {"idle", "add", "prune", "check", "evict", "retire", "insert"},
                      item : 0..MaxItems, now : 0..MaxTime, oldest : 0..MaxItems]
      /\ worker'.pc = "check" /\ worker'.item = worker.item
      BY <1>1, StateTypes
<1>3. Issued' = Issued /\ WorkerItem' /\ EvictsHead'
      BY <1>1, <1>2 DEF Issued, WorkerItem, EvictsHead, BufferInv
<1>4. CASE Len(fifo) <= Threshold
  <2>1. UNCHANGED <<ticket, mailbox, fifo, pending>>
        BY <1>4 DEF Compact
  <2>2. ActiveTickets' = ActiveTickets
        BY <2>1 DEF ActiveTickets
  <2>3. TypeOK'
        BY <1>1, <1>2, <2>1, StateTypes DEF TypeOK
  <2>4. OwnerInv'
        BY <1>1, <1>3, <2>1, <2>2 DEF BufferInv, OwnerInv, OwnerItem, PendingExact, Debt
  <2>5. OnlyIssued' /\ Ascending' /\ Queued'
        BY <1>1, <1>2, <1>3, <2>1, <2>2 DEF BufferInv, OnlyIssued, Ascending, Queued
  <2>6. Room'
        BY <1>2, <2>2 DEF BufferInv, Room, CapacityHolds
  <2>7. Compacted'
        BY <1>4, <2>1 DEF BufferInv, Compacted, MetadataBounded
  <2> QED
      BY <1>3, <2>3, <2>4, <2>5, <2>6, <2>7 DEF BufferInv, OwnerInv, QueueInv
<1>5. CASE ~(Len(fifo) <= Threshold)
  <2>1. /\ fifo' = Without(fifo, dead) /\ mailbox' = Without(mailbox, dead)
        /\ ticket' = [i \in Items |->
                        IF i \notin dead THEN ticket[i]
                        ELSE [ticket[i] EXCEPT !.active = FALSE,
                                               !.place = IF @ = "mailbox" THEN "gone" ELSE @]]
        /\ pending' = pending - Cardinality({i \in dead : ticket[i].active})
        BY <1>5 DEF Compact
  <2>2. dead \in SUBSET Items
    <3>1. fifo \in Seq(Items) /\ DOMAIN fifo = 1..Len(fifo)
          BY StateTypes, LenProperties
    <3>2. \A k \in 1..Len(fifo) : fifo[k] \in Items
          BY <3>1, ElementOfSeq
    <3> QED
        BY <3>1, <3>2 DEF ToSet
  <2>3. /\ ticket' \in [Items -> Ticket] /\ pending' \in 0..MaxItems
        /\ ActiveTickets' = ActiveTickets \ dead /\ PendingExact'
        BY <1>1, <2>1, <2>2, CompactedTickets
  <2>4. /\ fifo' \in Seq(Items) /\ Len(fifo') <= Capacity /\ Ascending'
        /\ \A n \in 1..Len(fifo') : fifo'[n] \in ActiveTickets'
        /\ \A k \in 1..Len(fifo) :
             fifo[k] \notin dead => \E n \in 1..Len(fifo') : fifo'[n] = fifo[k]
        BY <2>1, <2>3, CompactedQueue
  <2>5. mailbox' \in Seq(Items)
        BY <2>1, StateTypes, WithoutFields
  <2>6. TypeOK'
        BY <1>1, <1>2, <2>3, <2>4, <2>5, StateTypes DEF TypeOK
  <2>7. ActiveTickets' \in SUBSET ActiveTickets /\ ActiveTickets \in SUBSET Issued
        BY <2>3 DEF BufferInv, OnlyIssued
  <2>8. OwnerInv'
        BY <1>1, <1>3, <2>3, <2>7, WorkerKeeps
  <2>9. OnlyIssued'
        BY <1>3, <2>4, <2>7 DEF OnlyIssued
  <2>10. Queued'
    <3> SUFFICES ASSUME NEW i \in ActiveTickets'
                 PROVE  \E n \in 1..Len(fifo') : fifo'[n] = i
        BY DEF Queued
    <3>1. i \in ActiveTickets /\ i \notin dead
          BY <2>3
    <3>2. PICK k \in 1..Len(fifo) : fifo[k] = i
          BY <1>1, <3>1 DEF BufferInv, Queued
    <3> QED
        BY <2>4, <3>1, <3>2
  <2>11. Room'
        BY <1>2, <2>7, RoomShrinks DEF Room
  <2>12. Compacted'
    <3>1. Len(fifo') \in Nat
          BY <2>4, LenProperties
    <3>2. Len(fifo') <= Capacity * 2 /\ Len(fifo') <= Capacity * 2 + 1
          BY <2>4, <3>1, CapacityAssumption
    <3> QED
        BY <3>2 DEF Compacted, MetadataBounded, Threshold
  <2> QED
      BY <1>3, <2>4, <2>6, <2>8, <2>9, <2>10, <2>11, <2>12 DEF BufferInv, OwnerInv, QueueInv
<1> QED
    BY <1>4, <1>5

\* A step that changes the worker's step alone.
LEMMA PcInv ==
    ASSUME BufferInv, NEW p, p \in {"evict", "insert"}, worker.pc \in {"check", "evict"},
           worker' = [worker EXCEPT !.pc = p],
           UNCHANGED <<ticket, mailbox, updates, fifo, pending, owner, clock>>,
           p = "insert" => Cardinality(ActiveTickets) < Capacity
    PROVE  BufferInv'
<1>1. /\ worker' \in [pc : {"idle", "add", "prune", "check", "evict", "retire", "insert"},
                      item : 0..MaxItems, now : 0..MaxTime, oldest : 0..MaxItems]
      /\ worker'.pc = p /\ worker'.item = worker.item
      BY StateTypes
<1>2. TypeOK'
      BY <1>1, StateTypes DEF TypeOK
<1>3. ActiveTickets' = ActiveTickets /\ Issued' = Issued
      BY <1>1 DEF ActiveTickets, Issued
<1>4. OwnerInv'
      BY <1>3 DEF BufferInv, OwnerInv, OwnerItem, PendingExact, Debt
<1>5. WorkerItem' /\ OnlyIssued' /\ Ascending' /\ EvictsHead' /\ Queued'
      BY <1>1, <1>3 DEF BufferInv, WorkerItem, OnlyIssued, Ascending, EvictsHead, Queued
<1>6. Room'
      BY <1>1, <1>3 DEF BufferInv, Room, CapacityHolds
<1>7. Compacted'
      BY <1>1 DEF BufferInv, Compacted, MetadataBounded
<1> QED
    BY <1>2, <1>4, <1>5, <1>6, <1>7 DEF BufferInv, OwnerInv, QueueInv

LEMMA CheckCapacityInv ==
    ASSUME BufferInv, CheckCapacity
    PROVE  BufferInv'
<1> PICK p : p = IF Full THEN "evict" ELSE "insert"
    OBVIOUS
<1>1. /\ p \in {"evict", "insert"} /\ worker.pc \in {"check", "evict"}
      /\ worker' = [worker EXCEPT !.pc = p]
      /\ UNCHANGED <<ticket, mailbox, updates, fifo, pending, owner, clock>>
      BY DEF CheckCapacity
<1>2. p = "insert" => Cardinality(ActiveTickets) < Capacity
  <2> SUFFICES ASSUME ~Full
               PROVE  Cardinality(ActiveTickets) < Capacity
      OBVIOUS
  <2>1. pending = Cardinality(ActiveTickets) + owner.owes
        BY DEF BufferInv, PendingExact
  <2>2. /\ pending \in 0..MaxItems /\ owner.owes \in 0..1
        /\ Cardinality(ActiveTickets) \in Nat
        BY StateTypes, ActiveFinite
  <2>3. ~(pending >= Capacity)
        BY DEF Full
  <2> QED
      BY <2>1, <2>2, <2>3, CapacityAssumption, BoundsNat
<1> QED
    BY <1>1, <1>2, PcInv

LEMMA EvictPickInv ==
    ASSUME BufferInv, EvictPick
    PROVE  BufferInv'
<1>1. worker.pc = "evict" /\ UNCHANGED <<updates, owner, clock>>
      BY DEF EvictPick
<1>2. CASE fifo = <<>>
  <2>1. /\ worker' = [worker EXCEPT !.pc = "insert"]
        /\ UNCHANGED <<ticket, mailbox, fifo, pending>>
        BY <1>2 DEF EvictPick
  <2>2. ActiveTickets = {}
        BY <1>1, <1>2 DEF BufferInv, Queued
  <2>3. Cardinality(ActiveTickets) < Capacity
        BY <2>2, FS_EmptySet, CapacityAssumption
  <2> QED
      BY <1>1, <2>1, <2>3, PcInv
<1>3. CASE fifo # <<>>
  <2> PICK h : h = Head(fifo)
      OBVIOUS
  <2>1. fifo' = Tail(fifo) /\ h \in Items /\ fifo' \in Seq(Items)
        BY <1>3, FifoHead DEF EvictPick
  <2>2. /\ Ascending'
        /\ \A k \in 1..Len(fifo') : fifo'[k] \in Issued /\ h < fifo'[k]
        /\ \A k \in 1..Len(fifo) : fifo[k] = h \/ \E j \in 1..Len(fifo') : fifo'[j] = fifo[k]
        /\ Len(fifo') <= 2 * Capacity
        BY <1>3, <2>1, FifoTail
  <2>3. Compacted'
    <3>1. Len(fifo') \in Nat
          BY <2>1, LenProperties
    <3>2. Len(fifo') <= Capacity * 2 /\ Len(fifo') <= Capacity * 2 + 1
          BY <2>2, <3>1, CapacityAssumption
    <3> QED
        BY <3>2 DEF Compacted, MetadataBounded, Threshold
  <2>4. CASE Alive(h) /\ Active(h, worker.now)
    <3>1. /\ worker' = [worker EXCEPT !.pc = "retire", !.oldest = h]
          /\ UNCHANGED <<ticket, mailbox, pending>>
          BY <1>3, <2>4 DEF EvictPick
    <3>2. /\ worker' \in [pc : {"idle", "add", "prune", "check", "evict", "retire", "insert"},
                          item : 0..MaxItems, now : 0..MaxTime, oldest : 0..MaxItems]
          /\ worker'.pc = "retire" /\ worker'.oldest = h /\ worker'.item = worker.item
      <4>1. h \in 0..MaxItems
            BY <2>1, BoundsNat DEF Items
      <4> QED
          BY <3>1, <4>1, StateTypes
    <3>3. TypeOK'
          BY <1>1, <2>1, <3>1, <3>2, StateTypes DEF TypeOK
    <3>4. ActiveTickets' = ActiveTickets /\ Issued' = Issued
          BY <1>1, <3>1, <3>2 DEF ActiveTickets, Issued
    <3>5. OwnerInv'
          BY <1>1, <3>1, <3>4 DEF BufferInv, OwnerInv, OwnerItem, PendingExact, Debt
    <3>6. WorkerItem'
          BY <1>1, <3>2 DEF BufferInv, WorkerItem
    <3>7. OnlyIssued'
          BY <2>2, <3>4 DEF BufferInv, OnlyIssued
    <3>8. EvictsHead'
          BY <2>1, <2>2, <3>2 DEF EvictsHead
    <3>9. Queued'
      <4> SUFFICES ASSUME NEW i \in ActiveTickets
                   PROVE  (\E k \in 1..Len(fifo') : fifo'[k] = i) \/ i = h
          BY <3>2, <3>4 DEF Queued
      <4>1. PICK k \in 1..Len(fifo) : fifo[k] = i
            BY <1>1 DEF BufferInv, Queued
      <4> QED
          BY <2>2, <4>1
    <3>10. Room'
      <4>1. h \in ActiveTickets
            BY <2>1, <2>4 DEF Active, ActiveTickets
      <4> PICK A : A = ActiveTickets
          OBVIOUS
      <4>2. IsFiniteSet(A) /\ Cardinality(A) \in Nat /\ Cardinality(A) <= Capacity
            BY ActiveFinite DEF BufferInv, Room, CapacityHolds
      <4>3. Cardinality(A \ {h}) = Cardinality(A) - 1
            BY <4>1, <4>2, FS_RemoveElement
      <4>4. Cardinality(A \ {h}) < Capacity
            BY <4>2, <4>3, CapacityAssumption
      <4> QED
          BY <3>2, <3>4, <4>2, <4>4 DEF Room, CapacityHolds
    <3> QED
        BY <2>2, <2>3, <3>3, <3>5, <3>6, <3>7, <3>8, <3>9, <3>10
           DEF BufferInv, OwnerInv, QueueInv
  <2>5. CASE ~(Alive(h) /\ Active(h, worker.now))
    <3>1. Discard(h) /\ worker' = worker
          BY <1>3, <2>5 DEF EvictPick
    <3>2. /\ ticket' \in [Items -> Ticket] /\ mailbox' \in Seq(Items)
          /\ pending' \in 0..MaxItems /\ ActiveTickets' = ActiveTickets \ {h} /\ PendingExact'
          BY <1>1, <2>1, <3>1, Discarded
    <3>3. TypeOK'
          BY <1>1, <2>1, <3>1, <3>2, StateTypes DEF TypeOK
    <3>4. Issued' = Issued /\ ActiveTickets' \in SUBSET ActiveTickets
          BY <3>1, <3>2 DEF Issued
    <3>5. OwnerInv'
          BY <1>1, <3>2, <3>4, WorkerKeeps
    <3>6. WorkerItem' /\ OnlyIssued' /\ EvictsHead'
          BY <1>1, <2>2, <3>1, <3>4 DEF BufferInv, WorkerItem, OnlyIssued, EvictsHead
    <3>7. Queued'
          BY <1>1, <2>2, <3>1, <3>2 DEF BufferInv, Queued
    <3>8. Room'
          BY <1>1, <3>1, <3>4, RoomShrinks DEF Room
    <3> QED
        BY <2>2, <2>3, <3>3, <3>5, <3>6, <3>7, <3>8 DEF BufferInv, OwnerInv, QueueInv
  <2> QED
      BY <2>4, <2>5
<1> QED
    BY <1>2, <1>3

LEMMA EvictRetireInv ==
    ASSUME BufferInv, EvictRetire
    PROVE  BufferInv'
<1> PICK o : o = worker.oldest
    OBVIOUS
<1>1. /\ worker.pc = "retire" /\ Discard(o)
      /\ worker' = [worker EXCEPT !.pc = "insert", !.oldest = 0]
      /\ UNCHANGED <<updates, fifo, owner, clock>>
      BY DEF EvictRetire, None
<1>2. o \in Items
      BY <1>1 DEF BufferInv, EvictsHead
<1>3. /\ ticket' \in [Items -> Ticket] /\ mailbox' \in Seq(Items)
      /\ pending' \in 0..MaxItems /\ ActiveTickets' = ActiveTickets \ {o} /\ PendingExact'
      BY <1>1, <1>2, Discarded
<1>4. /\ worker' \in [pc : {"idle", "add", "prune", "check", "evict", "retire", "insert"},
                      item : 0..MaxItems, now : 0..MaxTime, oldest : 0..MaxItems]
      /\ worker'.pc = "insert" /\ worker'.item = worker.item
  <2>1. 0 \in 0..MaxItems
        BY BoundsNat
  <2> QED
      BY <1>1, <2>1, StateTypes
<1>5. TypeOK'
      BY <1>1, <1>3, <1>4, StateTypes DEF TypeOK
<1>6. Issued' = Issued /\ ActiveTickets' \in SUBSET ActiveTickets
      BY <1>1, <1>3, <1>4 DEF Issued
<1>7. OwnerInv'
      BY <1>1, <1>3, <1>6, WorkerKeeps
<1>8. WorkerItem' /\ OnlyIssued' /\ Ascending' /\ EvictsHead'
      BY <1>1, <1>4, <1>6 DEF BufferInv, WorkerItem, OnlyIssued, Ascending, EvictsHead
<1>9. Queued'
      BY <1>1, <1>3 DEF BufferInv, Queued
<1>10. Room'
  <2>1. CapacityHolds'
        BY <1>6, RoomShrinks
  <2>2. Cardinality(ActiveTickets \ {o}) < Capacity
        BY <1>1 DEF BufferInv, Room
  <2> QED
      BY <1>3, <1>4, <2>1, <2>2 DEF Room
<1>11. Compacted'
      BY <1>1 DEF BufferInv, Compacted, MetadataBounded
<1> QED
    BY <1>5, <1>7, <1>8, <1>9, <1>10, <1>11 DEF BufferInv, OwnerInv, QueueInv

LEMMA InsertInv ==
    ASSUME BufferInv, Insert
    PROVE  BufferInv'
<1> PICK new : new = worker.item
    OBVIOUS
<1> PICK f : f = fifo
    OBVIOUS
<1> PICK g : g = fifo'
    OBVIOUS
<1>1. /\ worker.pc = "insert"
      /\ ticket' = [ticket EXCEPT ![new].active = TRUE, ![new].place = "mailbox"]
      /\ pending' = pending + 1 /\ g = Append(f, new) /\ mailbox' = Append(mailbox, new)
      /\ worker' = [worker EXCEPT !.pc = "idle"]
      /\ UNCHANGED <<updates, owner, clock>>
      BY DEF Insert
<1>2. new \in Items /\ new \notin Issued
      BY <1>1 DEF BufferInv, WorkerItem, Issued, Items
<1> PICK t : t = [ticket[new] EXCEPT !.active = TRUE, !.place = "mailbox"]
    OBVIOUS
<1>3. ticket \in [Items -> Ticket] /\ f \in Seq(Items) /\ mailbox \in Seq(Items)
      BY StateTypes
<1>4. t \in Ticket /\ t.active /\ ticket' = [ticket EXCEPT ![new] = t]
      BY <1>1, <1>2, <1>3 DEF Ticket
<1>5. ticket' \in [Items -> Ticket] /\ ActiveTickets' = ActiveTickets \cup {new}
      BY <1>2, <1>3, <1>4 DEF ActiveTickets
<1>6. /\ worker' \in [pc : {"idle", "add", "prune", "check", "evict", "retire", "insert"},
                      item : 0..MaxItems, now : 0..MaxTime, oldest : 0..MaxItems]
      /\ worker'.pc = "idle" /\ worker'.item = new
      BY <1>1, StateTypes
<1>7. mailbox' \in Seq(Items)
      BY <1>1, <1>2, <1>3, AppendProperties
<1>8. /\ g \in Seq(Items) /\ Len(g) = Len(f) + 1 /\ Len(f) \in Nat
      /\ \A k \in 1..Len(f) : g[k] = f[k]
      /\ g[Len(f) + 1] = new
      BY <1>1, <1>2, <1>3, AppendProperties, LenProperties
<1>9. pending' \in 0..MaxItems
      BY <1>1, RoomToCount
<1>10. TypeOK'
      BY <1>1, <1>5, <1>6, <1>7, <1>8, <1>9, StateTypes DEF TypeOK
<1>11. Issued' = Issued \cup {new}
      BY <1>1, <1>2, <1>6 DEF Issued, Items
<1>12. ActiveTickets \in SUBSET Issued /\ \A k \in 1..Len(f) : f[k] \in Issued
      BY DEF BufferInv, OnlyIssued
<1>13. /\ IsFiniteSet(ActiveTickets) /\ Cardinality(ActiveTickets) \in Nat
       /\ Cardinality(ActiveTickets') = Cardinality(ActiveTickets) + 1
  <2>1. new \notin ActiveTickets
        BY <1>2, <1>12
  <2> QED
      BY <1>5, <2>1, ActiveFinite, FS_AddElement
<1>14. PendingExact'
  <2>1. pending = Cardinality(ActiveTickets) + owner.owes /\ owner.owes \in 0..1
        BY StateTypes DEF BufferInv, PendingExact
  <2>2. pending' = Cardinality(ActiveTickets') + owner'.owes
        BY <1>1, <1>13, <2>1
  <2> QED
      BY <2>2 DEF PendingExact
<1>15. Debt'
  <2>1. Issued' \ ActiveTickets' = Issued \ ActiveTickets
        BY <1>2, <1>5, <1>11
  <2> QED
      BY <1>1, <2>1 DEF BufferInv, Debt
<1>16. OwnerInv'
      BY <1>1, <1>14, <1>15 DEF BufferInv, OwnerInv, OwnerItem
<1>17. WorkerItem' /\ EvictsHead'
      BY <1>6 DEF WorkerItem, EvictsHead
<1>18. \A k \in 1..Len(g) : (k \in 1..Len(f) /\ g[k] = f[k]) \/ (k = Len(f) + 1 /\ g[k] = new)
      BY <1>8
<1>19. OnlyIssued'
  <2>1. \A k \in 1..Len(g) : g[k] \in Issued'
        BY <1>11, <1>12, <1>18
  <2> QED
      BY <1>5, <1>11, <1>12, <2>1 DEF OnlyIssued
<1>20. Ascending'
  <2>1. \A i \in Issued : i < new
        BY <1>1 DEF Issued
  <2>2. \A j, k \in 1..Len(f) : j < k => f[j] < f[k]
        BY DEF BufferInv, Ascending
  <2> SUFFICES ASSUME NEW j \in 1..Len(g), NEW k \in 1..Len(g), j < k
               PROVE  g[j] < g[k]
      BY DEF Ascending
  <2>3. j \in 1..Len(f) /\ g[j] = f[j]
        BY <1>8, <1>18
  <2> QED
      BY <1>12, <1>18, <2>1, <2>2, <2>3
<1>21. Queued'
  <2> SUFFICES ASSUME NEW i \in ActiveTickets'
               PROVE  \E k \in 1..Len(g) : g[k] = i
      BY DEF Queued
  <2>1. CASE i = new
        BY <1>8, <2>1
  <2>2. CASE i \in ActiveTickets
    <3>1. PICK k \in 1..Len(f) : f[k] = i
          BY <1>1, <2>2 DEF BufferInv, Queued
    <3>2. k \in 1..Len(g) /\ g[k] = i
          BY <1>8, <3>1
    <3> QED
        BY <3>2
  <2> QED
      BY <1>5, <2>1, <2>2
<1>22. Room'
  <2>1. Cardinality(ActiveTickets) < Capacity
        BY <1>1 DEF BufferInv, Room
  <2>2. Cardinality(ActiveTickets') <= Capacity
        BY <1>13, <2>1, CapacityAssumption
  <2> QED
      BY <1>6, <2>2 DEF Room, CapacityHolds
<1>23. Compacted'
  <2>1. Len(f) <= Capacity * 2
        BY <1>1 DEF BufferInv, Compacted, Threshold
  <2>2. Len(g) <= Capacity * 2 + 1
        BY <1>8, <2>1, CapacityAssumption
  <2> QED
      BY <1>6, <2>2 DEF Compacted, MetadataBounded
<1> QED
    BY <1>10, <1>16, <1>17, <1>19, <1>20, <1>21, <1>22, <1>23 DEF BufferInv, OwnerInv, QueueInv

LEMMA WorkerStepsInv ==
    ASSUME BufferInv, WorkerStep
    PROVE  BufferInv'
BY AcquireInv, AddGenericInv, PruneInv, CompactInv, CheckCapacityInv, EvictPickInv,
   EvictRetireInv, InsertInv DEF WorkerStep

-----------------------------------------------------------------------------
(***************************************************************************)
(* The buffer.                                                             *)
(***************************************************************************)
LEMMA BufferInitInv == Init => BufferInv
<1> SUFFICES ASSUME Init PROVE BufferInv
    OBVIOUS
<1>1. /\ ticket = [i \in Items |-> [place |-> "none", active |-> FALSE, acquired |-> 0]]
      /\ mailbox = <<>> /\ updates = <<>> /\ fifo = <<>> /\ pending = 0
      /\ worker = [pc |-> "idle", item |-> 0, now |-> 0, oldest |-> 0]
      /\ owner = [pc |-> "idle", item |-> 0, owes |-> 0]
      /\ clock = 0
      BY DEF Init, None
<1>2. 0 \in 0..MaxItems /\ 0 \in 0..MaxTime
      BY BoundsNat
<1>3. ticket \in [Items -> Ticket] /\ \A i \in Items : ~ticket[i].active
      BY <1>1, <1>2 DEF Ticket
<1>4. <<>> \in Seq(Items) /\ Len(fifo) = 0
      BY <1>1, EmptySeq
<1>5. TypeOK
      BY <1>1, <1>2, <1>3, <1>4 DEF TypeOK
<1>6. ActiveTickets = {} /\ Cardinality(ActiveTickets) = 0
      BY <1>3, FS_EmptySet DEF ActiveTickets
<1>7. OwnerInv
      BY <1>1, <1>6 DEF OwnerInv, OwnerItem, PendingExact, Debt
<1>8. WorkerItem /\ OnlyIssued /\ Ascending /\ Queued /\ EvictsHead
      BY <1>1, <1>4, <1>6 DEF WorkerItem, OnlyIssued, Ascending, Queued, EvictsHead
<1>9. Room
      BY <1>1, <1>6, CapacityAssumption DEF Room, CapacityHolds
<1>10. Compacted
      BY <1>1, <1>4, CapacityAssumption DEF Compacted, MetadataBounded
<1> QED
    BY <1>5, <1>7, <1>8, <1>9, <1>10 DEF BufferInv, OwnerInv

LEMMA BufferNextInv ==
    ASSUME BufferInv, Next
    PROVE  BufferInv'
BY WorkerStepsInv, OwnerStepsInv, TickInv DEF Next

LEMMA BufferStutter ==
    ASSUME BufferInv, UNCHANGED vars
    PROVE  BufferInv'
<1>1. UNCHANGED <<ticket, mailbox, updates, fifo, pending, worker, owner, clock>>
      BY DEF vars
<1>2. TypeOK'
      BY <1>1, StateTypes DEF TypeOK
<1>3. ActiveTickets' = ActiveTickets /\ Issued' = Issued
      BY <1>1 DEF ActiveTickets, Issued
<1>4. QueueInv'
      BY <1>1, <1>3, OwnerKeeps
<1>5. OwnerInv'
      BY <1>1, <1>3 DEF BufferInv, OwnerInv, OwnerItem, PendingExact, Debt
<1> QED
    BY <1>2, <1>4, <1>5 DEF BufferInv, OwnerInv, QueueInv

\* The ticket being evicted is the oldest that is active.
LEMMA EvictsOldest ==
    ASSUME BufferInv, worker.pc = "retire"
    PROVE  \A i \in ActiveTickets : i >= worker.oldest
<1> SUFFICES ASSUME NEW i \in ActiveTickets
             PROVE  i >= worker.oldest
    OBVIOUS
<1>1. worker.oldest \in Nat /\ i \in Nat
  <2>1. worker.oldest \in Items /\ i \in Items
        BY DEF BufferInv, EvictsHead, ActiveTickets
  <2> QED
      BY <2>1 DEF Items
<1>2. CASE worker.oldest = i
      BY <1>1, <1>2
<1>3. CASE \E k \in 1..Len(fifo) : fifo[k] = i
  <2>1. worker.oldest < i
        BY <1>3 DEF BufferInv, EvictsHead
  <2> QED
      BY <1>1, <2>1
<1> QED
    BY <1>2, <1>3 DEF BufferInv, Queued

\* The buffer keeps its invariant.
THEOREM BufferInvariant == Spec => []BufferInv
<1>1. Init => BufferInv
      BY BufferInitInv
<1>2. BufferInv /\ [Next]_vars => BufferInv'
      BY BufferNextInv, BufferStutter
<1> QED
    BY <1>1, <1>2, PTL DEF Spec

\* Of the buffer on its own: its states are well-formed, the count of pending tickets
\* is exact, and neither the active tickets nor the metadata outgrow their bounds.
THEOREM BufferBounds == Spec => [](TypeOK /\ PendingExact /\ CapacityHolds /\ MetadataBounded)
<1>1. BufferInv => TypeOK /\ PendingExact /\ CapacityHolds /\ MetadataBounded
      BY DEF BufferInv, Room, Compacted
<1> QED
    BY <1>1, BufferInvariant, PTL

\* Of the buffer on its own: overflow evicts no ticket while an older one is active.
THEOREM BufferDropsOldest == Spec => DropsOldest
<1>1. BufferInv /\ [Next]_vars
        => (worker.pc = "retire" /\ worker'.pc = "insert"
              => \A i \in ActiveTickets : i >= worker.oldest)
      BY EvictsOldest
<1> QED
    BY <1>1, BufferInvariant, PTL DEF Spec, DropsOldest

-----------------------------------------------------------------------------
(***************************************************************************)
(* Both halves, as the runs compose them.                                  *)
(***************************************************************************)
StorageInv == BufferInv /\ RetentionInv

LEMMA StorageNextInv ==
    ASSUME StorageInv, [BufferStep \/ RetentionStep]_<<subject, vars, retentionVars>>
    PROVE  StorageInv'
<1>1. CASE BufferStep
      BY <1>1, BufferNextInv, RetentionStutter DEF StorageInv, BufferStep
<1>2. CASE RetentionStep
      BY <1>2, RetentionNextInv, BufferStutter DEF StorageInv, RetentionStep
<1>3. CASE UNCHANGED <<subject, vars, retentionVars>>
      BY <1>3, BufferStutter, RetentionStutter DEF StorageInv
<1> QED
    BY <1>1, <1>2, <1>3

\* The storage of both halves keeps their invariants.
THEOREM StorageInvariant == MCSpec => []StorageInv
<1>1. MCInit => StorageInv
      BY BufferInitInv, RetentionInitInv DEF MCInit, StorageInv
<1>2. StorageInv /\ [BufferStep \/ RetentionStep]_<<subject, vars, retentionVars>> => StorageInv'
      BY StorageNextInv
<1> QED
    BY <1>1, <1>2, PTL DEF MCSpec

\* The states are well-formed; the count of pending tickets is exact up to the owner's
\* debt, the active tickets never outnumber the capacity, and the queue of metadata is
\* bounded, for every capacity, time to live and number of items.
THEOREM StorageBounded == MCSpec => []Bounded
<1>1. StorageInv => Bounded
      BY DEF StorageInv, BufferInv, RetentionInv, Room, Compacted, Bounded
<1> QED
    BY <1>1, StorageInvariant, PTL

\* Overflow evicts the oldest ticket that is active.
THEOREM StorageDropsOldest == MCSpec => DropsOldest
<1>1. StorageInv /\ [BufferStep \/ RetentionStep]_<<subject, vars, retentionVars>>
        => [worker.pc = "retire" /\ worker'.pc = "insert"
              => \A i \in ActiveTickets : i >= worker.oldest]_vars
      BY EvictsOldest DEF StorageInv
<1> QED
    BY <1>1, StorageInvariant, PTL DEF MCSpec, DropsOldest

\* What a client keeps: nothing a consumer present at the start of a receive or a
\* handler interest held since is entitled to is filtered or dropped, and a forgotten
\* client keeps unsolicited updates only for a close under way.
THEOREM StorageKept == MCSpec => Kept
<1>1. ASSUME StorageInv, [BufferStep \/ RetentionStep]_<<subject, vars, retentionVars>>
      PROVE  RetentionInv /\ (RetentionNext \/ UNCHANGED retentionVars)
      BY <1>1 DEF StorageInv, BufferStep, RetentionStep
<1>2. StorageInv /\ [BufferStep \/ RetentionStep]_<<subject, vars, retentionVars>>
        => (fate' \in {"filtered", "dropped"} /\ fate = "none" => entry.orphan \/ ~call.snapshot)
      BY <1>1, StepKeeps
<1>3. StorageInv /\ [BufferStep \/ RetentionStep]_<<subject, vars, retentionVars>>
        => (fate' \in {"filtered", "dropped"} /\ fate = "none" /\ held
              => entry.types[call.item.type] = 0)
      BY <1>1, StepKeeps
<1>4. StorageInv /\ [BufferStep \/ RetentionStep]_<<subject, vars, retentionVars>>
        => (fate' \in Keeps /\ fate = "none" /\ entry.orphan /\ Unsolicited(call.item)
              => entry.lifecycle)
      BY <1>1, StepKeeps
<1> QED
    BY <1>2, <1>3, <1>4, StorageInvariant, PTL
       DEF MCSpec, Kept, SnapshotKept, SelectedKept, OrphanKeepsNothing
=============================================================================
