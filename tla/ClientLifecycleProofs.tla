------------------------ MODULE ClientLifecycleProofs ------------------------
(***************************************************************************)
(* The life of a client, whatever the number of shutdown requests and the  *)
(* depth of the callbacks: shutdowns can be retried and are not doubled,   *)
(* closed clients are cleaned up, and what was closed is read to the end.  *)
(* And the calls that drive it, whatever the number of clients and of      *)
(* requests, updates and Tasks: none loses an update or takes it twice, or *)
(* gives it out of order.                                                  *)
(***************************************************************************)
EXTENDS MCClientLifecycle, ManagedInvariant, FiniteSetTheorems, SequenceTheorems,
        WellFoundedInduction, TLAPS

Item == Response \cup Update
Mailbox == Seq(Item)

\* The i-th item of the mailbox is the answer to c.
Answer(mb, i, c) ==
  i \in 1..Len(mb) /\ mb[i].kind = "response" /\ mb[i].id = c

\* The answer to c waits in the mailbox, or is still TDLib's.
Unanswered(asked, mb, c) == c \in asked \/ \E i \in Nat : Answer(mb, i, c)

\* TDLib answers a close once, and only one that was sent or may have been.
OneAnswer(f, ft, asked, mb) ==
  /\ \A c \in Closes : Unanswered(asked, mb, c) => ft[c] \in {"pending", "uncertain"}
  /\ \A c \in asked, i \in Nat : ~Answer(mb, i, c)
  /\ \A c \in Closes, i \in Nat, j \in Nat : Answer(mb, i, c) /\ Answer(mb, j, c) => i = j
  /\ ~f.fallback_sent => ft[Fallback] = "unused"

\* The facade waits for the answers that come, remembers that a shutdown is under
\* way as long as one is undecided, and believes so for a reason.
Remembers(f, ft, asked, mb) ==
  /\ \A c \in Shutdowns : Unanswered(asked, mb, c) => c \in f.shutdown_requests
  /\ \A c \in f.shutdown_requests : ft[c] \in {"pending", "uncertain", "unsent"}
  /\ \A c \in Shutdowns : ft[c] \in Undecided =>
       f.shutdown_request_sent /\ (c \in f.shutdown_requests \/ f.shutdown_accepted)

Believes(f, ft, asked, mb) ==
  /\ f.shutdown_accepted =>
       \E c \in Shutdowns :
         ft[c] = "accepted" \/ (ft[c] = "uncertain" /\ ~Unanswered(asked, mb, c))
  /\ f.shutdown_request_sent =>
       \/ \E c \in Closes : ft[c] \in Undecided
       \/ f.fallback_sent
       \/ \E c \in f.shutdown_requests : ft[c] = "unsent"

Sound(f, ft, asked, mb) ==
  OneAnswer(f, ft, asked, mb) /\ Remembers(f, ft, asked, mb) /\ Believes(f, ft, asked, mb)

\* What the facade and the ledger know of TDLib's client.
TdKnown ==
  /\ facade.pc # "gone" /\ (Closed(facade) \/ facade.cleanup_complete \/ ~ledger.record)
       => td.phase = "closed"
  /\ \A i \in 1..Len(entry.mailbox) :
       entry.mailbox[i].kind = "closed" => td.phase = "closed"
  /\ td.phase = "open" => ledger.materialized \/ ledger.uncertain
  /\ facade.outcome # "none" => facade.pc = "gone"

Drains(f) == {i \in 1..Len(f) : f[i].kind = "drain"}

\* The depth counts the drains in progress, and the one that runs the loop of the
\* scheduler is among the ticks.
FramesMatch ==
  /\ facade.drain_depth = Cardinality(Drains(frames))
  /\ core.draining => \E i \in 1..Len(frames) : frames[i].loop

\* A terminal update that no exception interrupts is met within a drain.
TerminalInDrain ==
  facade.pc = "lua" =>
    /\ facade.state = "Terminal" /\ ~escaped => facade.drain_depth > 0
    /\ facade.state = "Cleaned" => entry.orphan
    /\ Closed(facade) /\ core.pending => core.detach_after_drain
    /\ frames = <<>> /\ Closed(facade) /\ ~escaped => ~core.pending

Remembered == Sound(facade, fate, td.asked, entry.mailbox)

Inv ==
  /\ TypeOK /\ Remembered
  /\ TdKnown /\ FramesMatch /\ TerminalInDrain
  /\ ReadUntilClosed /\ UnloadLeavesNothing

-----------------------------------------------------------------------------
(***************************************************************************)
(* Frames.                                                                 *)
(***************************************************************************)

\* The drains among finitely many frames are finitely many.
LEMMA DrainsFinite ==
  ASSUME NEW f \in Seq(Frame)
  PROVE  IsFiniteSet(Drains(f)) /\ Cardinality(Drains(f)) \in Nat
<1>1. IsFiniteSet(1..Len(f))
  BY FS_Interval
<1>2. Drains(f) \in SUBSET (1..Len(f))
  BY DEF Drains
<1> QED
  BY <1>1, <1>2, FS_Subset, FS_CardinalityType

\* A frame that begins on top of the others.
LEMMA DrainsAppend ==
  ASSUME NEW f \in Seq(Frame), NEW x \in Frame
  PROVE  Cardinality(Drains(Append(f, x))) =
           IF x.kind = "drain" THEN Cardinality(Drains(f)) + 1 ELSE Cardinality(Drains(f))
<1>1. Drains(Append(f, x)) =
        IF x.kind = "drain" THEN Drains(f) \cup {Len(f) + 1} ELSE Drains(f)
  BY AppendProperties DEF Drains
<1>2. Len(f) + 1 \notin Drains(f)
  BY DEF Drains
<1> QED
  BY <1>1, <1>2, DrainsFinite, FS_AddElement

\* The frame that ends is the last.
LEMMA DrainsPop ==
  ASSUME NEW f \in Seq(Frame), f # <<>>
  PROVE  LET g == SubSeq(f, 1, Len(f) - 1)
         IN /\ g \in Seq(Frame) /\ Len(g) = Len(f) - 1
            /\ \A i \in 1..Len(g) : g[i] = f[i]
            /\ Cardinality(Drains(g)) =
                 IF f[Len(f)].kind = "drain" THEN Cardinality(Drains(f)) - 1
                 ELSE Cardinality(Drains(f))
<1> DEFINE g == SubSeq(f, 1, Len(f) - 1)
<1>1. Len(f) \in Nat /\ Len(f) > 0 /\ \A i \in 1..Len(f) : f[i] \in Frame
  BY EmptySeq, LenProperties, ElementOfSeq
<1>2. /\ g \in Seq(Frame) /\ Len(g) = Len(f) - 1
      /\ \A i \in 1..Len(g) : g[i] = f[i]
  <2>1. g \in Seq(Frame) /\ \A i \in 1..(Len(f) - 1) : g[i] = f[i]
    OBVIOUS
  <2>2. PICK n \in Nat : n = Len(f) - 1
    BY <1>1
  <2>3. Len(SubSeq(f, 1, n)) = n
    BY <1>1, <2>2
  <2>4. Len(g) = Len(f) - 1
    BY <2>2, <2>3, Zenon
  <2> QED
    BY <2>1, <2>4
<1> HIDE DEF g
<1>3. Drains(g) = Drains(f) \ {Len(f)}
  BY <1>1, <1>2 DEF Drains
<1>4. Len(f) \in Drains(f) <=> f[Len(f)].kind = "drain"
  BY <1>1 DEF Drains
<1>5. Cardinality(Drains(g)) =
        IF f[Len(f)].kind = "drain" THEN Cardinality(Drains(f)) - 1
        ELSE Cardinality(Drains(f))
  BY <1>3, <1>4, DrainsFinite, FS_RemoveElement
<1> QED
  BY <1>2, <1>5 DEF g

\* A tick whose loop begins stays the frame it was.
LEMMA DrainsLoop ==
  ASSUME NEW f \in Seq(Frame), f # <<>>
  PROVE  LET g == [f EXCEPT ![Len(f)].loop = TRUE]
         IN /\ g \in Seq(Frame) /\ Len(g) = Len(f)
            /\ Drains(g) = Drains(f) /\ g[Len(f)].loop
<1> DEFINE g == [f EXCEPT ![Len(f)].loop = TRUE]
           x == [f[Len(f)] EXCEPT !.loop = TRUE]
<1>1. Len(f) \in 1..Len(f) /\ f[Len(f)] \in Frame
  BY EmptySeq, LenProperties, ElementOfSeq
<1>2. x \in Frame /\ x.kind = f[Len(f)].kind /\ x.loop
  BY <1>1 DEF Frame
<1>3. PICK h : h = [f EXCEPT ![Len(f)] = x]
  OBVIOUS
<1> HIDE DEF x
<1>4. /\ h \in Seq(Frame) /\ Len(h) = Len(f)
      /\ \A j \in 1..Len(f) : h[j] = IF j = Len(f) THEN x ELSE f[j]
  BY <1>1, <1>2, <1>3
<1>5. Drains(h) = Drains(f) /\ h[Len(f)].loop
  BY <1>1, <1>2, <1>4 DEF Drains
<1>6. g = h
  BY <1>3 DEF x
<1> QED
  BY <1>4, <1>5, <1>6

-----------------------------------------------------------------------------
(***************************************************************************)
(* Shutdowns and their answers.                                            *)
(***************************************************************************)

\* What an item does to the flags of the facade.
LEMMA ObservedFields ==
  ASSUME NEW f \in Facade, NEW h \in Item
  PROVE  LET o == Observed(f, h)
             g == AuthState(o, h)
         IN /\ o \in Facade /\ g \in Facade
            /\ g.shutdown_requests = o.shutdown_requests
            /\ g.shutdown_accepted = o.shutdown_accepted
            /\ g.shutdown_request_sent = o.shutdown_request_sent
            /\ g.fallback_sent = f.fallback_sent /\ g.pc = f.pc
            /\ g.cleanup_complete = f.cleanup_complete
            /\ g.drain_depth = f.drain_depth /\ g.outcome = f.outcome
            /\ Closed(g) <=> Closed(f) \/ h.kind = "closed"
            /\ g.state = "Cleaned" => f.state = "Cleaned"
            /\ ~(h.kind = "response" /\ h.id \in f.shutdown_requests) =>
                 /\ g.shutdown_requests = f.shutdown_requests
                 /\ g.shutdown_accepted = f.shutdown_accepted
                 /\ g.shutdown_request_sent = f.shutdown_request_sent
            /\ h.kind = "response" /\ h.id \in f.shutdown_requests =>
                 /\ g.shutdown_requests = f.shutdown_requests \ {h.id}
                 /\ g.shutdown_accepted = (f.shutdown_accepted \/ h.ok)
                 /\ g.shutdown_request_sent =
                      (f.shutdown_request_sent
                         /\ (g.shutdown_requests # {} \/ g.shutdown_accepted))
<1>1. PICK o : o = Observed(f, h)
  OBVIOUS
<1>2. h.kind = "response" => h.id \in Closes /\ h.ok \in BOOLEAN
  BY DEF Item, Response, Update
<1>3. /\ o \in Facade /\ o.fallback_sent = f.fallback_sent /\ o.pc = f.pc
      /\ o.cleanup_complete = f.cleanup_complete /\ o.state = f.state
      /\ o.drain_depth = f.drain_depth /\ o.outcome = f.outcome
  <2>1. CASE h.kind = "response" /\ h.id \in f.shutdown_requests
    BY <1>1, <1>2, <2>1 DEF Observed, Facade
  <2>2. CASE ~(h.kind = "response" /\ h.id \in f.shutdown_requests)
    BY <1>1, <2>2 DEF Observed
  <2> QED
    BY <2>1, <2>2
<1>4. PICK g : g = AuthState(o, h)
  OBVIOUS
<1>5. /\ g \in Facade
      /\ g.shutdown_requests = o.shutdown_requests
      /\ g.shutdown_accepted = o.shutdown_accepted
      /\ g.shutdown_request_sent = o.shutdown_request_sent
      /\ g.fallback_sent = o.fallback_sent /\ g.pc = o.pc
      /\ g.cleanup_complete = o.cleanup_complete
      /\ g.drain_depth = o.drain_depth /\ g.outcome = o.outcome
      /\ Closed(g) <=> Closed(o) \/ h.kind = "closed"
      /\ g.state = "Cleaned" => o.state = "Cleaned"
  <2>1. CASE h.kind = "closing"
    BY <1>3, <1>4, <2>1 DEF AuthState, Facade, Closed
  <2>2. CASE h.kind = "closed"
    BY <1>3, <1>4, <2>2 DEF AuthState, Facade, Closed
  <2>3. CASE h.kind \notin {"closing", "closed"}
    BY <1>3, <1>4, <2>3 DEF AuthState
  <2> QED
    BY <2>1, <2>2, <2>3
<1>6. CASE h.kind = "response" /\ h.id \in f.shutdown_requests
  <2>1. /\ o.shutdown_requests = f.shutdown_requests \ {h.id}
        /\ o.shutdown_accepted = (f.shutdown_accepted \/ h.ok)
        /\ o.shutdown_request_sent =
             (f.shutdown_request_sent
                /\ (o.shutdown_requests # {} \/ o.shutdown_accepted))
    BY <1>1, <1>6 DEF Observed, Facade
  <2>2. Closed(o) <=> Closed(f)
    BY <1>3 DEF Closed
  <2> QED
    BY <1>1, <1>3, <1>4, <1>5, <1>6, <2>1, <2>2
<1>7. CASE ~(h.kind = "response" /\ h.id \in f.shutdown_requests)
  <2>1. o = f
    BY <1>1, <1>7 DEF Observed
  <2> QED
    BY <1>1, <1>3, <1>4, <1>5, <1>7, <2>1
<1> QED
  BY <1>6, <1>7

\* The answers that wait once the first item is taken.
LEMMA AnswerTail ==
  ASSUME NEW mb \in Mailbox, mb # <<>>
  PROVE  /\ Head(mb) = mb[1] /\ Head(mb) \in Item /\ Tail(mb) \in Mailbox
         /\ \A i \in Nat : \A c : Answer(Tail(mb), i, c) => Answer(mb, i + 1, c)
         /\ \A i \in Nat : \A c : Answer(mb, i, c) => i = 1 \/ Answer(Tail(mb), i - 1, c)
         /\ \A c : Answer(mb, 1, c) <=> Head(mb).kind = "response" /\ Head(mb).id = c
  BY DEF Mailbox, Answer

\* Once the first item is taken, what waits is what waited, but for its answer.
LEMMA UnansweredTail ==
  ASSUME NEW asked, NEW mb \in Mailbox, mb # <<>>, NEW f, NEW ft,
         OneAnswer(f, ft, asked, mb), asked \subseteq Closes, NEW c \in Closes
  PROVE  IF Head(mb).kind = "response" /\ Head(mb).id = c
         THEN Unanswered(asked, mb, c) /\ ~Unanswered(asked, Tail(mb), c)
         ELSE Unanswered(asked, Tail(mb), c) <=> Unanswered(asked, mb, c)
<1>1. CASE Head(mb).kind = "response" /\ Head(mb).id = c
  <2>1. Answer(mb, 1, c)
    BY <1>1, AnswerTail
  <2>2. c \notin asked
    BY <2>1 DEF OneAnswer
  <2>3. ASSUME NEW i \in Nat, Answer(Tail(mb), i, c) PROVE FALSE
    <3>1. Answer(mb, i + 1, c) /\ i + 1 \in Nat /\ i + 1 # 1
      BY <2>3, AnswerTail DEF Answer
    <3> QED
      BY <2>1, <3>1 DEF OneAnswer
  <2> QED
    BY <1>1, <2>1, <2>2, <2>3 DEF Unanswered
<1>2. CASE ~(Head(mb).kind = "response" /\ Head(mb).id = c)
  <2>1. ~Answer(mb, 1, c)
    BY <1>2, AnswerTail
  <2>2. ASSUME NEW i \in Nat, Answer(mb, i, c)
        PROVE  Answer(Tail(mb), i - 1, c) /\ i - 1 \in Nat
    BY <2>1, <2>2, AnswerTail DEF Answer
  <2>3. ASSUME NEW i \in Nat, Answer(Tail(mb), i, c)
        PROVE  Answer(mb, i + 1, c) /\ i + 1 \in Nat
    BY <2>3, AnswerTail
  <2> QED
    BY <1>2, <2>2, <2>3 DEF Unanswered
<1> QED
  BY <1>1, <1>2

\* What the owner is told, and remembers, fits what is left of the mailbox.
LEMMA ToldSound ==
  ASSUME TypeOK, Sound(facade, fate, td.asked, entry.mailbox), entry.mailbox # <<>>,
         NEW g, g = AuthState(Observed(facade, Head1), Head1)
  PROVE  /\ Sound(g, FateTold(Head1), td.asked, Tail(entry.mailbox))
         /\ FateTold(Head1) \in [Closes -> Fates]
<1> DEFINE mb == entry.mailbox
           h == Head(mb)
           ft == FateTold(h)
           t == Tail(mb)
           asked == td.asked
<1>1. /\ mb \in Mailbox /\ mb # <<>> /\ h \in Item /\ facade \in Facade
      /\ asked \subseteq Closes /\ fate \in [Closes -> Fates] /\ t \in Mailbox
      /\ facade.shutdown_requests \subseteq Shutdowns /\ Shutdowns \subseteq Closes
      /\ Fallback \in Closes \ Shutdowns
  BY AnswerTail, LifecycleAssumption
  DEF TypeOK, Entry, Td, Facade, Mailbox, Item, Closes
<1>2. OneAnswer(facade, fate, asked, mb)
  BY DEF Sound
<1>3. h.kind = "response" => h.id \in Closes
  BY <1>1 DEF Item, Response, Update
<1>4. ft \in [Closes -> Fates]
  BY <1>1, <1>3 DEF FateTold, Fates
<1>5. \A c \in Closes :
        IF h.kind = "response" /\ h.id = c
        THEN Unanswered(asked, mb, c) /\ ~Unanswered(asked, t, c)
        ELSE Unanswered(asked, t, c) <=> Unanswered(asked, mb, c)
  BY <1>1, <1>2, UnansweredTail
<1>6. \A c \in Closes : ~(h.kind = "response" /\ h.id = c) => ft[c] = fate[c]
  BY <1>1 DEF FateTold
<1>7. g.fallback_sent = facade.fallback_sent
  BY <1>1, ObservedFields DEF Head1
<1>8. OneAnswer(g, ft, asked, t)
  <2>1. \A c \in Closes : Unanswered(asked, t, c) => ft[c] \in {"pending", "uncertain"}
    BY <1>2, <1>5, <1>6 DEF OneAnswer
  <2>2. \A c \in asked, i \in Nat : ~Answer(t, i, c)
    BY <1>1, <1>2, AnswerTail DEF OneAnswer
  <2>3. ASSUME NEW c \in Closes, NEW i \in Nat, NEW j \in Nat,
               Answer(t, i, c), Answer(t, j, c)
        PROVE  i = j
    <3>1. Answer(mb, i + 1, c) /\ Answer(mb, j + 1, c) /\ i + 1 \in Nat /\ j + 1 \in Nat
      BY <1>1, <2>3, AnswerTail
    <3>2. i + 1 = j + 1
      BY <1>2, <3>1 DEF OneAnswer
    <3> QED
      BY <3>2
  <2>4. ~g.fallback_sent => ft[Fallback] = "unused"
    <3>1. ~g.fallback_sent => fate[Fallback] = "unused" /\ ~Unanswered(asked, mb, Fallback)
      BY <1>1, <1>2, <1>7 DEF OneAnswer
    <3> QED
      BY <1>1, <1>5, <1>6, <3>1
  <2> QED
    BY <2>1, <2>2, <2>3, <2>4 DEF OneAnswer
<1>9. CASE ~(h.kind = "response" /\ h.id \in facade.shutdown_requests)
  <2>1. /\ g.shutdown_requests = facade.shutdown_requests
        /\ g.shutdown_accepted = facade.shutdown_accepted
        /\ g.shutdown_request_sent = facade.shutdown_request_sent
    BY <1>1, <1>9, ObservedFields DEF Head1
  <2>2. h.kind = "response" => h.id = Fallback /\ facade.fallback_sent
    <3>1. ASSUME h.kind = "response" PROVE h.id \notin Shutdowns
      BY <1>1, <1>3, <1>5, <1>9, <3>1 DEF Sound, Remembers
    <3>2. ASSUME h.kind = "response" PROVE Unanswered(asked, mb, h.id)
      BY <1>3, <1>5, <3>2
    <3> QED
      BY <1>2, <1>3, <3>1, <3>2 DEF OneAnswer, Closes
  <2>3. \A c \in Shutdowns :
          ft[c] = fate[c] /\ (Unanswered(asked, t, c) <=> Unanswered(asked, mb, c))
    BY <1>1, <1>5, <1>6, <2>2
  <2>4. Remembers(g, ft, asked, t)
    BY <1>1, <2>1, <2>3 DEF Sound, Remembers
  <2>5. h.kind # "response" => ft = fate
    BY DEF FateTold
  <2>6. Believes(g, ft, asked, t)
    BY <1>1, <1>7, <2>1, <2>2, <2>3, <2>5 DEF Sound, Believes
  <2> QED
    BY <1>4, <1>8, <2>4, <2>6 DEF Sound, Head1
<1>10. CASE h.kind = "response" /\ h.id \in facade.shutdown_requests
  <2>1. /\ g.shutdown_requests = facade.shutdown_requests \ {h.id}
        /\ g.shutdown_accepted = (facade.shutdown_accepted \/ h.ok)
        /\ g.shutdown_request_sent =
             (facade.shutdown_request_sent
                /\ (g.shutdown_requests # {} \/ g.shutdown_accepted))
    BY <1>1, <1>10, ObservedFields DEF Head1
  <2>2. fate[h.id] \in {"pending", "uncertain"} /\ h.id \in Shutdowns
    BY <1>1, <1>2, <1>5, <1>10 DEF OneAnswer
  <2>3. ft[h.id] = IF ~h.ok THEN "rejected"
                   ELSE IF fate[h.id] = "uncertain" THEN "uncertain" ELSE "accepted"
    BY <1>1, <1>3, <1>10 DEF FateTold
  <2>4. \A c \in Shutdowns : c # h.id =>
          ft[c] = fate[c] /\ (Unanswered(asked, t, c) <=> Unanswered(asked, mb, c))
    BY <1>1, <1>5, <1>6
  <2>5. ~Unanswered(asked, t, h.id)
    BY <1>1, <1>5, <1>10, <2>2
  <2>6. Remembers(g, ft, asked, t)
    <3>1. \A c \in Shutdowns : Unanswered(asked, t, c) => c \in g.shutdown_requests
      BY <2>1, <2>4, <2>5 DEF Sound, Remembers
    <3>2. \A c \in g.shutdown_requests : ft[c] \in {"pending", "uncertain", "unsent"}
      BY <1>1, <2>1, <2>4 DEF Sound, Remembers
    <3>3. ASSUME NEW c \in Shutdowns, ft[c] \in Undecided
          PROVE  g.shutdown_request_sent
                   /\ (c \in g.shutdown_requests \/ g.shutdown_accepted)
      <4>1. CASE c = h.id
        <5>1. h.ok
          BY <2>3, <3>3, <4>1 DEF Undecided
        <5>2. facade.shutdown_request_sent
          BY <2>2 DEF Sound, Remembers, Undecided
        <5> QED
          BY <2>1, <5>1, <5>2
      <4>2. CASE c # h.id
        <5>1. /\ facade.shutdown_request_sent
              /\ c \in facade.shutdown_requests \/ facade.shutdown_accepted
          BY <2>4, <3>3, <4>2 DEF Sound, Remembers
        <5> QED
          BY <2>1, <4>2, <5>1
      <4> QED
        BY <4>1, <4>2
    <3> QED
      BY <3>1, <3>2, <3>3 DEF Remembers
  <2>7. g.shutdown_accepted =>
          \E c \in Shutdowns :
            ft[c] = "accepted" \/ (ft[c] = "uncertain" /\ ~Unanswered(asked, t, c))
    <3>1. CASE h.ok
      BY <2>2, <2>3, <2>5, <3>1
    <3>2. CASE ~h.ok /\ facade.shutdown_accepted
      <4>1. PICK c \in Shutdowns : \/ fate[c] = "accepted"
                                   \/ fate[c] = "uncertain" /\ ~Unanswered(asked, mb, c)
        BY <3>2 DEF Sound, Believes
      <4>2. Unanswered(asked, mb, h.id)
        BY <1>1, <1>5, <1>10, <2>2
      <4>3. c # h.id
        BY <2>2, <4>1, <4>2
      <4> QED
        BY <2>4, <4>1, <4>3
    <3> QED
      BY <2>1, <3>1, <3>2
  <2>8. g.shutdown_request_sent =>
          \/ \E c \in Closes : ft[c] \in Undecided
          \/ g.fallback_sent
          \/ \E c \in g.shutdown_requests : ft[c] = "unsent"
    <3>1. CASE g.shutdown_accepted
      BY <1>1, <2>7, <3>1 DEF Undecided
    <3>2. CASE g.shutdown_requests # {}
      <4>1. PICK c \in g.shutdown_requests : TRUE
        BY <3>2
      <4>2. ft[c] \in {"pending", "uncertain", "unsent"} /\ c \in Closes
        BY <1>1, <2>1, <2>6, <4>1 DEF Remembers
      <4> QED
        BY <4>1, <4>2 DEF Undecided
    <3> QED
      BY <2>1, <3>1, <3>2
  <2> QED
    BY <1>4, <1>8, <2>6, <2>7, <2>8 DEF Sound, Believes, Head1
<1> QED
  BY <1>9, <1>10

\* A close that is sent, or may have been, or was not, is remembered, and so is
\* the close of the disposal.
LEMMA SendSound ==
  ASSUME NEW f, NEW g, NEW ft \in [Closes -> Fates], NEW asked, NEW mb,
         NEW c \in Closes, NEW x \in {"pending", "uncertain", "unsent"}, NEW now,
         Sound(f, ft, asked, mb), ft[c] = "unused",
         now = asked \/ (now = asked \cup {c} /\ x # "unsent"),
         g.shutdown_accepted = f.shutdown_accepted,
         \/ /\ c \in Shutdowns /\ g.fallback_sent = f.fallback_sent
            /\ \/ /\ g.shutdown_requests = f.shutdown_requests \cup {c}
                  /\ g.shutdown_request_sent
               \/ /\ x = "unsent"
                  /\ g.shutdown_requests = f.shutdown_requests
                  /\ g.shutdown_request_sent = f.shutdown_request_sent
         \/ /\ c = Fallback /\ g.fallback_sent /\ g.shutdown_request_sent
            /\ g.shutdown_requests = f.shutdown_requests
  PROVE  Sound(g, [ft EXCEPT ![c] = x], now, mb)
<1> DEFINE new == [ft EXCEPT ![c] = x]
<1>1. new[c] = x /\ \A d \in Closes : d # c => new[d] = ft[d]
  OBVIOUS
<1>2. ~Unanswered(asked, mb, c)
  BY DEF Sound, OneAnswer
<1>3. \A d \in Closes : d # c => (Unanswered(now, mb, d) <=> Unanswered(asked, mb, d))
  BY DEF Unanswered
<1>4. Unanswered(now, mb, c) => x # "unsent"
  BY <1>2 DEF Unanswered
<1>5. Fallback \in Closes \ Shutdowns /\ Shutdowns \subseteq Closes
  BY LifecycleAssumption DEF Closes
<1> HIDE DEF new
<1>6. OneAnswer(g, new, now, mb)
  <2>1. \A d \in Closes : Unanswered(now, mb, d) => new[d] \in {"pending", "uncertain"}
    BY <1>1, <1>3, <1>4 DEF Sound, OneAnswer
  <2>2. \A d \in now, i \in Nat : ~Answer(mb, i, d)
    BY <1>2 DEF Sound, OneAnswer, Unanswered
  <2>3. \A d \in Closes, i \in Nat, j \in Nat :
          Answer(mb, i, d) /\ Answer(mb, j, d) => i = j
    BY DEF Sound, OneAnswer
  <2>4. ~g.fallback_sent => new[Fallback] = "unused"
    BY <1>1, <1>5 DEF Sound, OneAnswer
  <2> QED
    BY <2>1, <2>2, <2>3, <2>4 DEF OneAnswer
<1>7. c \notin f.shutdown_requests
  BY DEF Sound, Remembers
<1>8. Remembers(g, new, now, mb)
  <2>1. \A d \in Shutdowns : Unanswered(now, mb, d) => d \in g.shutdown_requests
    BY <1>1, <1>3, <1>4, <1>5 DEF Sound, Remembers
  <2>2. \A d \in g.shutdown_requests : new[d] \in {"pending", "uncertain", "unsent"}
    BY <1>1, <1>7 DEF Sound, Remembers, new
  <2>3. \A d \in Shutdowns : new[d] \in Undecided =>
          g.shutdown_request_sent /\ (d \in g.shutdown_requests \/ g.shutdown_accepted)
    BY <1>1, <1>5 DEF Sound, Remembers, Undecided
  <2> QED
    BY <2>1, <2>2, <2>3 DEF Remembers
<1>9. Believes(g, new, now, mb)
  <2>1. g.shutdown_accepted =>
          \E d \in Shutdowns :
            new[d] = "accepted" \/ (new[d] = "uncertain" /\ ~Unanswered(now, mb, d))
    BY <1>1, <1>3, <1>5 DEF Sound, Believes
  <2>2. g.shutdown_request_sent =>
          \/ \E d \in Closes : new[d] \in Undecided
          \/ g.fallback_sent
          \/ \E d \in g.shutdown_requests : new[d] = "unsent"
    <3>1. CASE x # "unsent"
      BY <1>1, <3>1 DEF Undecided
    <3>2. CASE x = "unsent" /\ (g.fallback_sent \/ c \in g.shutdown_requests)
      BY <1>1, <3>2
    <3>3. CASE /\ g.shutdown_requests = f.shutdown_requests
               /\ g.shutdown_request_sent = f.shutdown_request_sent
               /\ g.fallback_sent = f.fallback_sent
      <4>1. \A d \in Closes : ft[d] \in Undecided => new[d] \in Undecided
        BY <1>1 DEF Undecided
      <4>2. \A d \in f.shutdown_requests : ft[d] = "unsent" => new[d] = "unsent"
        BY <1>1, <1>7 DEF new
      <4> QED
        BY <3>3, <4>1, <4>2 DEF Sound, Believes
    <3> QED
      BY <3>1, <3>2, <3>3
  <2> QED
    BY <2>1, <2>2 DEF Believes
<1> QED
  BY <1>6, <1>8, <1>9 DEF Sound, new

\* An answer that moves from TDLib to the mailbox, or is dropped.
LEMMA FewerSound ==
  ASSUME NEW f, NEW ft, NEW asked, NEW mb, NEW now, NEW next,
         Sound(f, ft, asked, mb),
         \A c \in Closes : Unanswered(now, next, c) => Unanswered(asked, mb, c),
         \A c \in now, i \in Nat : ~Answer(next, i, c),
         \A c \in Closes, i \in Nat, j \in Nat :
           Answer(next, i, c) /\ Answer(next, j, c) => i = j
  PROVE  Sound(f, ft, now, next)
<1>1. OneAnswer(f, ft, now, next)
  BY DEF Sound, OneAnswer
<1>2. Remembers(f, ft, now, next)
  BY DEF Sound, Remembers, Closes
<1>3. Believes(f, ft, now, next)
  BY DEF Sound, Believes, Closes
<1> QED
  BY <1>1, <1>2, <1>3 DEF Sound

-----------------------------------------------------------------------------
(***************************************************************************)
(* The state stays well-formed.                                            *)
(***************************************************************************)

\* What sending does to the ledger, to the receiver's entry and to TDLib.
LEMMA SendTypes ==
  ASSUME TypeOK, NEW c \in Closes, NEW outcome \in SendOutcomes
  PROVE  /\ \A l \in Ledger, close \in BOOLEAN : LedgerAfter(l, outcome, close) \in Ledger
         /\ EntryAfter(outcome) \in Entry
         /\ EntryAfter(outcome).mailbox = entry.mailbox
         /\ TdAfter(outcome, c) \subseteq Td
<1>1. ASSUME NEW l \in Ledger, NEW close \in BOOLEAN
      PROVE  LedgerAfter(l, outcome, close) \in Ledger
  BY DEF LedgerAfter, Ledger
<1>2. EntryAfter(outcome) \in Entry /\ EntryAfter(outcome).mailbox = entry.mailbox
  BY DEF TypeOK, EntryAfter, Entry
<1>3. TdAfter(outcome, c) \subseteq Td
  <2>1. PICK phase, asked :
          /\ phase = IF td.phase = "none" THEN "open" ELSE td.phase
          /\ asked = IF td.phase = "closed" THEN td.asked ELSE td.asked \cup {c}
    OBVIOUS
  <2>2. PICK reached : reached = [td EXCEPT !.phase = phase, !.asked = asked]
    OBVIOUS
  <2>3. phase \in {"none", "open", "closed"} /\ asked \in SUBSET Closes
    BY <2>1 DEF TypeOK, Td
  <2>4. reached \in Td
    BY <2>2, <2>3 DEF TypeOK, Td
  <2>5. TdAfter(outcome, c) \subseteq {td, reached}
    BY <2>1, <2>2 DEF TdAfter
  <2> QED
    BY <2>4, <2>5 DEF TypeOK
<1> QED
  BY <1>1, <1>2, <1>3

\* An item that is taken, and one that is published.
LEMMA MailboxTypes ==
  ASSUME TypeOK
  PROVE  /\ entry.mailbox # <<>> =>
              /\ Head1 \in Item
              /\ [entry EXCEPT !.mailbox = Tail(@)] \in Entry
              /\ FateTold(Head1) \in [Closes -> Fates]
              /\ LedgerObserved(facade, Head1) \in Ledger
              /\ AuthState(Observed(facade, Head1), Head1) \in Facade
         /\ \A e \in Entry, x \in Item : Published(e, x) \in Entry
         /\ \A e \in Entry : Forgotten(e) \in Entry
<1>1. ASSUME entry.mailbox # <<>>
      PROVE  /\ Head1 \in Item
             /\ [entry EXCEPT !.mailbox = Tail(@)] \in Entry
  <2>1. entry.mailbox \in Mailbox /\ entry \in Entry
    BY DEF TypeOK, Entry, Mailbox, Item
  <2>2. Head1 \in Item /\ Tail(entry.mailbox) \in Mailbox
    BY <1>1, <2>1, AnswerTail DEF Head1
  <2> QED
    BY <2>1, <2>2 DEF Entry, Mailbox, Item
<1>2. ASSUME entry.mailbox # <<>>
      PROVE  /\ FateTold(Head1) \in [Closes -> Fates]
             /\ LedgerObserved(facade, Head1) \in Ledger
             /\ AuthState(Observed(facade, Head1), Head1) \in Facade
  <2>1. Head1.kind = "response" => Head1.id \in Closes
    BY <1>1, <1>2 DEF Item, Response, Update
  <2>2. FateTold(Head1) \in [Closes -> Fates]
    BY <2>1 DEF TypeOK, FateTold, Fates
  <2>3. LedgerObserved(facade, Head1) \in Ledger
    BY DEF TypeOK, LedgerObserved, Ledger
  <2> QED
    BY <1>1, <1>2, <2>2, <2>3, ObservedFields DEF TypeOK
<1>3. ASSUME NEW e \in Entry, NEW x \in Item PROVE Published(e, x) \in Entry
  BY DEF Published, Entry, Item
<1>4. ASSUME NEW e \in Entry PROVE Forgotten(e) \in Entry
  BY DEF Forgotten, Entry
<1> QED
  BY <1>1, <1>2, <1>3, <1>4

\* What the end of a drain and of a disposal do to the entry.
LEMMA ForgottenFields ==
  ASSUME NEW e \in Entry
  PROVE  /\ Forgotten(e).mailbox = e.mailbox /\ Forgotten(e).failed = e.failed
         /\ Forgotten(e).terminal = e.terminal /\ Forgotten(e).orphan
         /\ ~e.terminal => Forgotten(e).lifecycle_demands = e.lifecycle_demands
  BY DEF Forgotten, Entry

\* What the second chance of the close does to the entry.
LEMMA SecondChanceEntry ==
  ASSUME TypeOK, NEW outcome \in SendOutcomes, SecondChance(outcome)
  PROVE  entry' \in Entry /\ entry'.mailbox = Tail(entry.mailbox)
<1>1. PICK e : e = [EntryAfter(outcome) EXCEPT !.mailbox = Tail(@)]
  OBVIOUS
<1>2. entry.mailbox # <<>> /\ entry' \in {e, Forgotten(e)}
  BY <1>1 DEF SecondChance
<1>3. EntryAfter(outcome) \in Entry /\ EntryAfter(outcome).mailbox = entry.mailbox
  BY SendTypes DEF Closes
<1>4. [entry EXCEPT !.mailbox = Tail(@)] \in Entry
  BY <1>2, MailboxTypes
<1>5. Tail(entry.mailbox) \in Seq(Response \cup Update)
  BY <1>4 DEF Entry, TypeOK
<1>6. e \in Entry /\ e.mailbox = Tail(entry.mailbox)
  BY <1>1, <1>3, <1>5 DEF Entry
<1> QED
  BY <1>2, <1>6, ForgottenFields, MailboxTypes

\* The application's requests.
LEMMA ApplicationType == ASSUME TypeOK, Application PROVE TypeOK'
<1>1. ASSUME NEW c \in Shutdowns, Shutdown(c) PROVE TypeOK'
  <2>1. PICK outcome \in SendOutcomes : SendClose(c, outcome)
    BY <1>1 DEF Shutdown
  <2>2. ledger' \in Ledger /\ entry' \in Entry /\ td' \in Td
    BY <2>1, SendTypes DEF SendClose, Closes, TypeOK
  <2>3. fate' \in [Closes -> Fates]
    BY <2>1 DEF SendClose, TypeOK, Fates
  <2>4. facade' \in Facade
    BY <1>1 DEF Shutdown, TypeOK, Facade
  <2> QED
    BY <1>1, <2>2, <2>3, <2>4 DEF Shutdown, TypeOK
<1>2. CASE Request
  <2>1. ledger' \in Ledger
    BY <1>2 DEF Request, LedgerAfter, TypeOK, Ledger
  <2>2. core' \in Core /\ td' \in Td
    BY <1>2 DEF Request, TypeOK, Core, Td
  <2> QED
    BY <1>2, <2>1, <2>2 DEF Request, TypeOK
<1> QED
  BY <1>1, <1>2 DEF Application

\* The frames that begin.
LEMMA ReceivingType == ASSUME TypeOK, Receiving PROVE TypeOK'
<1>1. ASSUME NEW kind \in {"drain", "failed", "tick"}, Enter(kind)
      PROVE  frames' \in Seq(Frame)
  BY <1>1 DEF Enter, TypeOK, Frame
<1>2. ASSUME NEW f \in Facade, EnterDrain(f)
      PROVE  frames' \in Seq(Frame) /\ facade' \in Facade
  <2>1. Enter("drain")
    BY <1>2 DEF EnterDrain
  <2>2. frames' \in Seq(Frame)
    BY <1>1, <2>1
  <2>3. facade' \in Facade
    BY <1>2 DEF EnterDrain, Facade
  <2> QED
    BY <2>2, <2>3
<1>3. CASE Dispatch
  <2>1. core' \in Core
    BY <1>3 DEF Dispatch, TypeOK, Core
  <2> QED
    BY <1>2, <1>3, <2>1, MailboxTypes DEF Dispatch, Received, TypeOK
<1>4. CASE DispatchThrows
  <2>1. core' \in Core
    BY <1>4 DEF DispatchThrows, Detached, TypeOK, Core
  <2> QED
    BY <1>4, <2>1, MailboxTypes DEF DispatchThrows, Received, TypeOK
<1>5. CASE ReceiveNothing
  BY <1>2, <1>5 DEF ReceiveNothing, TypeOK
<1>6. CASE ReceiveFails
  BY <1>1, <1>6 DEF ReceiveFails, Detached, TypeOK, Core
<1>7. CASE Await
  BY <1>1, <1>7 DEF Await, TypeOK
<1> QED
  BY <1>3, <1>4, <1>5, <1>6, <1>7 DEF Receiving

\* The depth of drains counts down with them.
LEMMA DepthCounts ==
  ASSUME TypeOK, FramesMatch, frames # <<>>
  PROVE  /\ Popped \in Seq(Frame) /\ Len(Popped) = Len(frames) - 1
         /\ \A i \in 1..Len(Popped) : Popped[i] = frames[i]
         /\ Top \in Frame
         /\ Top.kind = "drain" =>
              facade.drain_depth - 1 \in Nat
                /\ facade.drain_depth - 1 = Cardinality(Drains(Popped))
         /\ Top.kind # "drain" => facade.drain_depth = Cardinality(Drains(Popped))
<1>1. frames \in Seq(Frame)
  BY DEF TypeOK
<1>2. /\ Popped \in Seq(Frame) /\ Len(Popped) = Len(frames) - 1
      /\ \A i \in 1..Len(Popped) : Popped[i] = frames[i]
      /\ Cardinality(Drains(Popped)) =
           IF Top.kind = "drain" THEN Cardinality(Drains(frames)) - 1
           ELSE Cardinality(Drains(frames))
  BY <1>1, DrainsPop DEF Popped, Top
<1>3. Top \in Frame
  BY <1>1 DEF Top
<1>4. Cardinality(Drains(Popped)) \in Nat
  BY <1>2, DrainsFinite
<1> QED
  BY <1>2, <1>3, <1>4 DEF FramesMatch

\* The frames that run and end.
LEMMA TickingType == ASSUME TypeOK, FramesMatch, Ticking PROVE TypeOK'
<1>1. CASE TickStarts
  <2>1. frames' \in Seq(Frame)
    BY <1>1, DrainsLoop DEF TickStarts, TypeOK
  <2> QED
    BY <1>1, <2>1 DEF TickStarts, TypeOK, Core
<1>2. CASE TickDetaches
  BY <1>2 DEF TickDetaches, Detached, TypeOK, Core
<1>3. CASE TickEnds
  <2>1. core' \in Core /\ escaped' \in BOOLEAN
    BY <1>3 DEF TickEnds, TypeOK, Core
  <2>2. frames' \in Seq(Frame)
    BY <1>3, DepthCounts DEF TickEnds
  <2>3. entry' \in Entry
    BY <1>3, MailboxTypes DEF TickEnds, TypeOK
  <2>4. PICK f : f = IF Top.kind = "drain" THEN [facade EXCEPT !.drain_depth = @ - 1]
                     ELSE facade
    OBVIOUS
  <2>5. f \in Facade
    <3>1. CASE Top.kind = "drain"
      BY <1>3, <2>4, <3>1, DepthCounts DEF TickEnds, TypeOK, Facade
    <3>2. CASE Top.kind # "drain"
      BY <2>4, <3>2 DEF TypeOK
    <3> QED
      BY <3>1, <3>2
  <2>6. \/ facade' = f
        \/ facade' = [f EXCEPT !.state = "Cleaned", !.cleanup_complete = TRUE]
    BY <1>3, <2>4 DEF TickEnds
  <2>7. facade' \in Facade
    BY <2>5, <2>6 DEF Facade
  <2> QED
    BY <1>3, <2>1, <2>2, <2>3, <2>7 DEF TickEnds, TypeOK
<1>4. CASE TickThrows
  <2>1. core' \in Core
    BY <1>4 DEF TickThrows, Detached, TypeOK, Core
  <2>2. frames' \in Seq(Frame)
    BY <1>4, DepthCounts DEF TickThrows
  <2>3. facade' \in Facade
    BY <1>4, DepthCounts DEF TickThrows, TypeOK, Facade
  <2> QED
    BY <1>4, <2>1, <2>2, <2>3 DEF TickThrows, TypeOK
<1> QED
  BY <1>1, <1>2, <1>3, <1>4 DEF Ticking

\* The ways a disposal leaves the facade.
LEMMA GoneType ==
  ASSUME NEW f \in Facade, NEW outcome \in {"none", "done", "timed_out", "threw"}
  PROVE  Gone(f, outcome) \in Facade /\ WithFallback(f) \in Facade
  BY DEF Gone, WithFallback, Facade

\* The disposal begins.
LEMMA UnloadType == ASSUME TypeOK, Unload PROVE TypeOK'
<1>1. ASSUME UnloadStarts PROVE core' \in Core
  BY <1>1 DEF UnloadStarts, Detached, TypeOK, Core
<1>2. Fallback \in Closes
  BY DEF Closes
<1>3. CASE UnloadAtOnce
  <2>1. facade' \in Facade
    <3>1. Gone(facade, "done") \in Facade
      BY GoneType DEF TypeOK
    <3> QED
      BY <1>3, <3>1 DEF UnloadAtOnce, Facade
  <2>2. ledger' \in Ledger
    BY <1>3 DEF UnloadAtOnce, TypeOK, Ledger
  <2>3. entry' \in Entry
    <3>1. [entry EXCEPT !.terminal = TRUE] \in Entry
      BY DEF TypeOK, Entry
    <3> QED
      BY <1>3, <3>1, MailboxTypes DEF UnloadAtOnce, TypeOK
  <2> QED
    BY <1>1, <1>3, <2>1, <2>2, <2>3 DEF UnloadAtOnce, TypeOK
<1>4. CASE UnloadWaits
  BY <1>1, <1>4 DEF UnloadWaits, TypeOK, Facade
<1>5. CASE UnloadCloses
  <2>1. PICK outcome \in SendOutcomes : SendClose(Fallback, outcome)
    BY <1>5 DEF UnloadCloses, SendOutcomes
  <2>2. ledger' \in Ledger /\ entry' \in Entry /\ td' \in Td
    BY <1>2, <2>1, SendTypes DEF SendClose, TypeOK
  <2>3. fate' \in [Closes -> Fates]
    BY <2>1 DEF SendClose, TypeOK, Fates
  <2>4. facade' \in Facade
    <3>1. WithFallback(facade) \in Facade
      BY GoneType DEF TypeOK
    <3> QED
      BY <1>5, <3>1 DEF UnloadCloses, Facade
  <2> QED
    BY <1>1, <1>5, <2>2, <2>3, <2>4 DEF UnloadCloses, TypeOK
<1>6. CASE UnloadCloseThrows
  <2>1. PICK outcome \in SendOutcomes :
          /\ ledger' = LedgerAfter(ledger, outcome, TRUE)
          /\ td' \in TdAfter(outcome, Fallback)
          /\ fate' = [fate EXCEPT ![Fallback] =
                        IF outcome = "throws" THEN "unsent" ELSE "uncertain"]
    BY <1>6 DEF UnloadCloseThrows, SendOutcomes
  <2>2. ledger' \in Ledger /\ td' \in Td
    BY <1>2, <2>1, SendTypes DEF TypeOK
  <2>3. fate' \in [Closes -> Fates]
    BY <2>1 DEF TypeOK, Fates
  <2>4. facade' \in Facade
    BY <1>6, GoneType DEF UnloadCloseThrows, TypeOK
  <2>5. entry' \in Entry
    BY <1>6, MailboxTypes DEF UnloadCloseThrows, TypeOK
  <2> QED
    BY <1>1, <1>6, <2>2, <2>3, <2>4, <2>5 DEF UnloadCloseThrows, TypeOK
<1> QED
  BY <1>3, <1>4, <1>5, <1>6 DEF Unload

\* The disposal waits for TDLib.
LEMMA WaitingType == ASSUME TypeOK, Waiting PROVE TypeOK'
<1>1. CASE WaitReceives
  BY <1>1, MailboxTypes DEF WaitReceives, Received, TypeOK
<1>2. CASE WaitFails \/ WaitEnds
  BY <1>2, MailboxTypes, GoneType DEF WaitFails, WaitEnds, TypeOK
<1>3. ASSUME NEW outcome \in SendOutcomes, SecondChance(outcome) PROVE TypeOK'
  <2>1. entry.mailbox # <<>>
    BY <1>3 DEF SecondChance
  <2>2. PICK f : f = AuthState(Observed(facade, Head1), Head1)
    OBVIOUS
  <2>3. PICK rejected : rejected = LedgerObserved(facade, Head1)
    OBVIOUS
  <2>4. f \in Facade /\ rejected \in Ledger /\ FateTold(Head1) \in [Closes -> Fates]
    BY <2>1, <2>2, <2>3, MailboxTypes
  <2>5. ledger' = LedgerAfter(rejected, outcome, TRUE)
    BY <1>3, <2>3 DEF SecondChance
  <2>6. ledger' \in Ledger
    BY <2>4, <2>5, SendTypes DEF Closes
  <2>7. facade' \in {WithFallback(f), Gone(WithFallback(f), "threw")}
    BY <1>3, <2>2 DEF SecondChance
  <2>8. facade' \in Facade
    BY <2>4, <2>7, GoneType
  <2>9. entry' \in Entry
    BY <1>3, SecondChanceEntry
  <2>10. td' \in Td
    BY <1>3, SendTypes DEF SecondChance, Closes
  <2>11. fate' \in [Closes -> Fates]
    BY <1>3, <2>4 DEF SecondChance, Fates
  <2> QED
    BY <1>3, <2>6, <2>8, <2>9, <2>10, <2>11 DEF SecondChance, TypeOK
<1> QED
  BY <1>1, <1>2, <1>3 DEF Waiting, WaitCloses

\* TDLib's side.
LEMMA WorldType == ASSUME TypeOK, World PROVE TypeOK'
<1>1. Observes => ledger' \in Ledger
  BY DEF Observes, TypeOK, Ledger
<1>2. [kind |-> "answer"] \in Item /\ [kind |-> "closing"] \in Item
        /\ [kind |-> "closed"] \in Item
  BY DEF Item, Update
<1>3. CASE Answers
  <2>1. td' \in Td
    BY <1>3 DEF Answers, TypeOK, Td
  <2> QED
    BY <1>1, <1>2, <1>3, <2>1, MailboxTypes DEF Answers, TypeOK
<1>4. CASE Announces
  <2>1. td' \in Td
    BY <1>4 DEF Announces, TypeOK, Td
  <2> QED
    BY <1>1, <1>2, <1>4, <2>1, MailboxTypes DEF Announces, TypeOK
<1>5. CASE Closes_Td
  <2>1. td' \in Td /\ ledger' \in Ledger
    BY <1>5 DEF Closes_Td, TypeOK, Td, Ledger
  <2>2. Published(entry, [kind |-> "closed"]) \in Entry
    BY <1>2, MailboxTypes DEF TypeOK
  <2>3. entry' \in Entry
    BY <1>5, <2>2 DEF Closes_Td, TypeOK, Entry
  <2> QED
    BY <1>5, <2>1, <2>3 DEF Closes_Td, TypeOK
<1>6. CASE ReceiverFails
  BY <1>6 DEF ReceiverFails, TypeOK, Entry
<1>7. ASSUME NEW c \in Closes, NEW ok \in BOOLEAN, Responds(c, ok) PROVE TypeOK'
  <2>1. td' \in Td
    BY <1>7 DEF Responds, TypeOK, Td
  <2>2. [kind |-> "response", id |-> c, ok |-> ok] \in Item
    BY DEF Item, Response
  <2> QED
    BY <1>1, <1>7, <2>1, <2>2, MailboxTypes DEF Responds, TypeOK
<1> QED
  BY <1>3, <1>4, <1>5, <1>6, <1>7 DEF World

-----------------------------------------------------------------------------
(***************************************************************************)
(* Shutdowns are remembered.                                               *)
(***************************************************************************)

\* Only the flags that concern shutdowns matter.
LEMMA SameSound ==
  ASSUME NEW f, NEW g, NEW ft, NEW asked, NEW mb, Sound(f, ft, asked, mb),
         g.shutdown_requests = f.shutdown_requests,
         g.shutdown_request_sent = f.shutdown_request_sent,
         g.shutdown_accepted = f.shutdown_accepted,
         g.fallback_sent = f.fallback_sent
  PROVE  Sound(g, ft, asked, mb)
<1>1. OneAnswer(g, ft, asked, mb)
  BY DEF Sound, OneAnswer
<1>2. Remembers(g, ft, asked, mb)
  BY DEF Sound, Remembers
<1>3. Believes(g, ft, asked, mb)
  BY DEF Sound, Believes
<1> QED
  BY <1>1, <1>2, <1>3 DEF Sound

\* What TDLib may have of a close after it was sent.
LEMMA SendFields ==
  ASSUME TypeOK, NEW c \in Closes, NEW outcome \in SendOutcomes,
         NEW t \in TdAfter(outcome, c)
  PROVE  /\ \/ t.asked = td.asked
            \/ t.asked = td.asked \cup {c} /\ outcome \in {"uncertain", "sent"}
         /\ \/ t.phase = td.phase
            \/ /\ td.phase = "none" /\ t.phase = "open"
               /\ outcome \in {"uncertain", "sent"}
<1>1. CASE outcome \in {"uncertain", "sent"}
  BY <1>1 DEF TdAfter, TypeOK, Td
<1>2. CASE outcome \notin {"uncertain", "sent"}
  BY <1>2 DEF TdAfter
<1> QED
  BY <1>1, <1>2

\* The application's requests.
LEMMA ApplicationSound == ASSUME Inv, Application PROVE Remembered'
<1>1. ASSUME NEW c \in Shutdowns, Shutdown(c) PROVE Remembered'
  <2>1. PICK outcome \in SendOutcomes : SendClose(c, outcome)
    BY <1>1 DEF Shutdown
  <2>2. c \in Closes
    BY DEF Closes
  <2>3. PICK x : x = CASE outcome = "sent" -> "pending" [] outcome = "uncertain" -> "uncertain"
                       [] OTHER -> "unsent"
    OBVIOUS
  <2>4. x \in {"pending", "uncertain", "unsent"} /\ fate' = [fate EXCEPT ![c] = x]
    BY <2>1, <2>3 DEF SendClose
  <2>5. td'.asked = td.asked \/ (td'.asked = td.asked \cup {c} /\ x # "unsent")
    BY <2>1, <2>2, <2>3, SendFields DEF SendClose, Inv
  <2>6. x # "unsent" => shutdownPending(ledger')
    BY <2>1, <2>3 DEF SendClose, Possible, LedgerAfter, shutdownPending, Inv, TypeOK, Ledger
  <2>7. /\ facade'.fallback_sent = facade.fallback_sent
        /\ facade'.shutdown_accepted = facade.shutdown_accepted
        /\ \/ /\ facade'.shutdown_requests = facade.shutdown_requests \cup {c}
              /\ facade'.shutdown_request_sent
           \/ /\ x = "unsent"
              /\ facade'.shutdown_requests = facade.shutdown_requests
              /\ facade'.shutdown_request_sent = facade.shutdown_request_sent
    BY <1>1, <2>6 DEF Shutdown, Inv, TypeOK, Facade
  <2>8. entry'.mailbox = entry.mailbox
    BY <2>1, <2>2, SendTypes DEF SendClose, Inv
  <2>9. fate \in [Closes -> Fates] /\ fate[c] = "unused"
          /\ Sound(facade, fate, td.asked, entry.mailbox)
    BY <1>1 DEF Shutdown, Inv, TypeOK, Remembered
  <2>10. Sound(facade', [fate EXCEPT ![c] = x], td'.asked, entry.mailbox)
    BY <2>2, <2>4, <2>5, <2>7, <2>9, SendSound
  <2> QED
    BY <2>4, <2>8, <2>10 DEF Remembered
<1>2. CASE Request
  <2>1. td'.asked = td.asked /\ UNCHANGED <<facade, fate, entry>>
    BY <1>2 DEF Request, Inv, TypeOK, Td
  <2> QED
    BY <2>1 DEF Inv, Remembered
<1> QED
  BY <1>1, <1>2 DEF Application

\* Calls that receive.
LEMMA ReceivingSound == ASSUME Inv, Receiving PROVE Remembered'
<1> USE DEF Inv
<1>1. facade \in Facade
  BY DEF TypeOK
<1>2. ASSUME NEW f \in Facade, Sound(f, fate', td'.asked, entry'.mailbox),
             facade' = [f EXCEPT !.drain_depth = @ + 1] \/ facade' = f
      PROVE  Remembered'
  <2>1. /\ facade'.shutdown_requests = f.shutdown_requests
        /\ facade'.shutdown_request_sent = f.shutdown_request_sent
        /\ facade'.shutdown_accepted = f.shutdown_accepted
        /\ facade'.fallback_sent = f.fallback_sent
    BY <1>2 DEF Facade
  <2> QED
    BY <1>2, <2>1, SameSound DEF Remembered
<1>3. CASE Dispatch \/ DispatchThrows
  <2>1. PICK g : g = AuthState(Observed(facade, Head1), Head1)
    OBVIOUS
  <2>2. entry.mailbox # <<>> /\ entry' = [entry EXCEPT !.mailbox = Tail(@)]
          /\ fate' = FateTold(Head1) /\ td' = td
    BY <1>3 DEF Dispatch, DispatchThrows, Received
  <2>3. g \in Facade
    BY <2>1, <2>2, MailboxTypes
  <2>4. Sound(g, fate', td'.asked, Tail(entry.mailbox))
    BY <2>1, <2>2, ToldSound DEF Remembered
  <2>5. entry'.mailbox = Tail(entry.mailbox)
    BY <2>2 DEF TypeOK, Entry
  <2>6. facade' = [g EXCEPT !.drain_depth = @ + 1] \/ facade' = g
    BY <1>3, <2>1 DEF Dispatch, DispatchThrows, EnterDrain
  <2> QED
    BY <1>2, <2>3, <2>4, <2>5, <2>6
<1>4. CASE ReceiveNothing \/ ReceiveFails \/ Await
  <2>1. UNCHANGED <<entry, td, fate>>
    BY <1>4 DEF ReceiveNothing, ReceiveFails, Await
  <2>2. facade' = [facade EXCEPT !.drain_depth = @ + 1] \/ facade' = facade
    BY <1>4 DEF ReceiveNothing, ReceiveFails, Await, EnterDrain
  <2> QED
    BY <1>1, <1>2, <2>1, <2>2 DEF Remembered
<1> QED
  BY <1>3, <1>4 DEF Receiving

\* Steps that only touch other members of the facade.
FlagsKept ==
  /\ td'.asked = td.asked /\ fate' = fate /\ entry'.mailbox = entry.mailbox
  /\ facade'.shutdown_requests = facade.shutdown_requests
  /\ facade'.shutdown_request_sent = facade.shutdown_request_sent
  /\ facade'.shutdown_accepted = facade.shutdown_accepted
  /\ facade'.fallback_sent = facade.fallback_sent

LEMMA StillSound == ASSUME Inv, FlagsKept PROVE Remembered'
  BY SameSound DEF Inv, Remembered, FlagsKept

\* What the end of a disposal does to the facade.
LEMMA GoneFields ==
  ASSUME NEW f \in Facade, NEW outcome
  PROVE  /\ Gone(f, outcome).shutdown_requests = f.shutdown_requests
         /\ Gone(f, outcome).shutdown_request_sent = f.shutdown_request_sent
         /\ Gone(f, outcome).shutdown_accepted = f.shutdown_accepted
         /\ Gone(f, outcome).fallback_sent = f.fallback_sent
         /\ Gone(f, outcome).drain_depth = f.drain_depth
         /\ Gone(f, outcome).pc = "gone" /\ Gone(f, outcome).outcome = outcome
         /\ WithFallback(f).shutdown_requests = f.shutdown_requests
         /\ WithFallback(f).shutdown_request_sent
         /\ WithFallback(f).shutdown_accepted = f.shutdown_accepted
         /\ WithFallback(f).fallback_sent
         /\ WithFallback(f).drain_depth = f.drain_depth
         /\ WithFallback(f).state = "Closing" /\ WithFallback(f).pc = f.pc
         /\ WithFallback(f).cleanup_complete = f.cleanup_complete
         /\ WithFallback(f).outcome = f.outcome
  BY DEF Gone, WithFallback, Facade

\* The frames that run and end.
LEMMA TickingSound == ASSUME Inv, Ticking PROVE Remembered'
<1>1. CASE TickStarts \/ TickDetaches
  BY <1>1, StillSound DEF TickStarts, TickDetaches, FlagsKept
<1>2. CASE TickEnds
  <2>1. PICK f : f = IF Top.kind = "drain" THEN [facade EXCEPT !.drain_depth = @ - 1]
                     ELSE facade
    OBVIOUS
  <2>2. facade' = f \/ facade' = [f EXCEPT !.state = "Cleaned", !.cleanup_complete = TRUE]
    BY <1>2, <2>1 DEF TickEnds
  <2>3. entry' \in {entry, Forgotten(entry)} /\ UNCHANGED <<td, fate>>
    BY <1>2 DEF TickEnds
  <2>4. entry'.mailbox = entry.mailbox
    BY <2>3, ForgottenFields DEF Inv, TypeOK
  <2>5. FlagsKept
    BY <2>1, <2>2, <2>3, <2>4 DEF Inv, TypeOK, Facade, FlagsKept
  <2> QED
    BY <2>5, StillSound
<1>3. CASE TickThrows
  <2>1. FlagsKept
    BY <1>3 DEF TickThrows, Inv, TypeOK, Facade, FlagsKept
  <2> QED
    BY <2>1, StillSound
<1> QED
  BY <1>1, <1>2, <1>3 DEF Ticking

\* The close of the disposal.
LEMMA FallbackSound ==
  ASSUME NEW f \in Facade, NEW g, NEW ft \in [Closes -> Fates], NEW asked, NEW mb,
         NEW x \in {"pending", "uncertain", "unsent"}, NEW now,
         Sound(f, ft, asked, mb), NeedsFallback(f),
         now = asked \/ (now = asked \cup {Fallback} /\ x # "unsent"),
         \/ g = WithFallback(f)
         \/ g = [WithFallback(f) EXCEPT !.pc = "wait"]
         \/ g = Gone(WithFallback(f), "threw")
  PROVE  Sound(g, [ft EXCEPT ![Fallback] = x], now, mb)
<1>1. WithFallback(f) \in Facade
  BY GoneType
<1>2. /\ g.shutdown_accepted = f.shutdown_accepted /\ g.fallback_sent
      /\ g.shutdown_request_sent /\ g.shutdown_requests = f.shutdown_requests
  <2>1. CASE g = WithFallback(f)
    BY <2>1, GoneFields
  <2>2. CASE g = [WithFallback(f) EXCEPT !.pc = "wait"]
    BY <1>1, <2>2, GoneFields DEF Facade
  <2>3. CASE g = Gone(WithFallback(f), "threw")
    BY <1>1, <2>3, GoneFields
  <2> QED
    BY <2>1, <2>2, <2>3
<1>3. ft[Fallback] = "unused"
  BY DEF NeedsFallback, Sound, OneAnswer
<1>4. Fallback \in Closes
  BY DEF Closes
<1> QED
  BY <1>2, <1>3, <1>4, SendSound

\* The disposal begins.
LEMMA UnloadSound == ASSUME Inv, Unload PROVE Remembered'
<1> USE DEF Inv
<1>1. /\ facade \in Facade /\ entry \in Entry /\ Gone(facade, "done") \in Facade
      /\ [entry EXCEPT !.terminal = TRUE] \in Entry /\ fate \in [Closes -> Fates]
      /\ Fallback \in Closes
  BY GoneType DEF TypeOK, Entry, Closes
<1>2. CASE UnloadAtOnce
  <2>1. entry' = entry \/ entry' = Forgotten([entry EXCEPT !.terminal = TRUE])
    BY <1>2 DEF UnloadAtOnce
  <2>2. entry'.mailbox = entry.mailbox
    BY <1>1, <2>1, ForgottenFields DEF Entry
  <2>3. facade' = [Gone(facade, "done") EXCEPT !.state = "Cleaned"]
    BY <1>2 DEF UnloadAtOnce
  <2>4. FlagsKept
    BY <1>1, <1>2, <2>2, <2>3, GoneFields DEF UnloadAtOnce, Facade, FlagsKept
  <2> QED
    BY <2>4, StillSound
<1>3. CASE UnloadWaits
  BY <1>1, <1>3, StillSound DEF UnloadWaits, Facade, FlagsKept
<1>4. CASE UnloadCloses
  <2>1. PICK outcome \in {"nothing", "sent"} : SendClose(Fallback, outcome)
    BY <1>4 DEF UnloadCloses
  <2>2. PICK x : x = IF outcome = "sent" THEN "pending" ELSE "unsent"
    OBVIOUS
  <2>3. x \in {"pending", "uncertain", "unsent"} /\ fate' = [fate EXCEPT ![Fallback] = x]
    BY <2>1, <2>2 DEF SendClose
  <2>4. td'.asked = td.asked \/ (td'.asked = td.asked \cup {Fallback} /\ x # "unsent")
    BY <1>1, <2>1, <2>2, SendFields DEF SendClose, SendOutcomes
  <2>5. entry'.mailbox = entry.mailbox
    BY <1>1, <2>1, SendTypes DEF SendClose, SendOutcomes
  <2>6. NeedsFallback(facade) /\ facade' = [WithFallback(facade) EXCEPT !.pc = "wait"]
    BY <1>4 DEF UnloadCloses
  <2>7. Sound(facade', [fate EXCEPT ![Fallback] = x], td'.asked, entry.mailbox)
    BY <1>1, <2>3, <2>4, <2>6, FallbackSound DEF Remembered
  <2> QED
    BY <2>3, <2>5, <2>7 DEF Remembered
<1>5. CASE UnloadCloseThrows
  <2>1. PICK outcome \in {"throws", "uncertain"} :
          /\ td' \in TdAfter(outcome, Fallback)
          /\ fate' = [fate EXCEPT ![Fallback] =
                        IF outcome = "throws" THEN "unsent" ELSE "uncertain"]
    BY <1>5 DEF UnloadCloseThrows
  <2>2. PICK x : x = IF outcome = "throws" THEN "unsent" ELSE "uncertain"
    OBVIOUS
  <2>3. x \in {"pending", "uncertain", "unsent"} /\ fate' = [fate EXCEPT ![Fallback] = x]
    BY <2>1, <2>2
  <2>4. td'.asked = td.asked \/ (td'.asked = td.asked \cup {Fallback} /\ x # "unsent")
    BY <1>1, <2>1, <2>2, SendFields DEF SendOutcomes
  <2>5. entry'.mailbox = entry.mailbox
    BY <1>1, <1>5, ForgottenFields DEF UnloadCloseThrows
  <2>6. NeedsFallback(facade) /\ facade' = Gone(WithFallback(facade), "threw")
    BY <1>5 DEF UnloadCloseThrows
  <2>7. Sound(facade', [fate EXCEPT ![Fallback] = x], td'.asked, entry.mailbox)
    BY <1>1, <2>3, <2>4, <2>6, FallbackSound DEF Remembered
  <2> QED
    BY <2>3, <2>5, <2>7 DEF Remembered
<1> QED
  BY <1>2, <1>3, <1>4, <1>5 DEF Unload

\* The disposal waits for TDLib.
LEMMA WaitingSound == ASSUME Inv, Waiting PROVE Remembered'
<1> USE DEF Inv
<1>1. facade \in Facade /\ entry \in Entry
  BY DEF TypeOK
<1>2. CASE WaitReceives
  <2>1. /\ entry.mailbox # <<>> /\ entry' = [entry EXCEPT !.mailbox = Tail(@)]
        /\ facade' = AuthState(Observed(facade, Head1), Head1)
        /\ fate' = FateTold(Head1) /\ td' = td
    BY <1>2 DEF WaitReceives, Received
  <2>2. entry'.mailbox = Tail(entry.mailbox)
    BY <1>1, <2>1 DEF Entry
  <2> QED
    BY <2>1, <2>2, ToldSound DEF Remembered
<1>3. CASE WaitFails \/ WaitEnds
  <2>1. FlagsKept
    BY <1>1, <1>3, GoneFields, ForgottenFields DEF WaitFails, WaitEnds, FlagsKept
  <2> QED
    BY <2>1, StillSound
<1>4. ASSUME NEW outcome \in SendOutcomes, SecondChance(outcome) PROVE Remembered'
  <2>1. PICK g : g = AuthState(Observed(facade, Head1), Head1)
    OBVIOUS
  <2>2. entry.mailbox # <<>> /\ NeedsFallback(g)
    BY <1>4, <2>1 DEF SecondChance
  <2>3. g \in Facade /\ FateTold(Head1) \in [Closes -> Fates]
    BY <2>1, <2>2, MailboxTypes
  <2>4. Sound(g, FateTold(Head1), td.asked, Tail(entry.mailbox))
    BY <2>1, <2>2, ToldSound DEF Remembered
  <2>5. PICK x : x = CASE outcome = "sent" -> "pending" [] outcome = "uncertain" -> "uncertain"
                       [] OTHER -> "unsent"
    OBVIOUS
  <2>6. /\ x \in {"pending", "uncertain", "unsent"}
        /\ fate' = [FateTold(Head1) EXCEPT ![Fallback] = x]
    BY <1>4, <2>5 DEF SecondChance
  <2>7. td'.asked = td.asked \/ (td'.asked = td.asked \cup {Fallback} /\ x # "unsent")
    BY <1>4, <2>5, SendFields DEF SecondChance, Closes
  <2>8. facade' = WithFallback(g) \/ facade' = Gone(WithFallback(g), "threw")
    BY <1>4, <2>1 DEF SecondChance
  <2>9. entry'.mailbox = Tail(entry.mailbox)
    BY <1>4, SecondChanceEntry
  <2>10. Sound(facade', [FateTold(Head1) EXCEPT ![Fallback] = x], td'.asked,
               Tail(entry.mailbox))
    BY <2>2, <2>3, <2>4, <2>6, <2>7, <2>8, FallbackSound
  <2> QED
    BY <2>6, <2>9, <2>10 DEF Remembered
<1> QED
  BY <1>2, <1>3, <1>4 DEF Waiting, WaitCloses

\* An item that is published, or dropped.
LEMMA PublishedMailbox ==
  ASSUME NEW e \in Entry, NEW x \in Item
  PROVE  /\ Published(e, x).mailbox \in Mailbox
         /\ Published(e, x).mailbox = e.mailbox \/ Published(e, x).mailbox = Append(e.mailbox, x)
         /\ Published(e, x).failed = e.failed /\ Published(e, x).terminal = e.terminal
         /\ Published(e, x).orphan = e.orphan
         /\ Published(e, x).lifecycle_demands = e.lifecycle_demands
  BY DEF Published, Entry, Mailbox, Item

\* An item at the end of the mailbox.
LEMMA AnswerAppend ==
  ASSUME NEW mb \in Mailbox, NEW x \in Item
  PROVE  \A i \in Nat : \A c :
           Answer(Append(mb, x), i, c) <=>
             Answer(mb, i, c) \/ (i = Len(mb) + 1 /\ x.kind = "response" /\ x.id = c)
  BY DEF Mailbox, Answer

\* TDLib's side.
LEMMA WorldSound == ASSUME Inv, World PROVE Remembered'
<1> USE DEF Inv
<1>1. entry \in Entry /\ entry.mailbox \in Mailbox
  BY DEF TypeOK, Entry, Mailbox, Item
<1>2. [kind |-> "answer"] \in Item /\ [kind |-> "closing"] \in Item
        /\ [kind |-> "closed"] \in Item
  BY DEF Item, Update
<1>3. ASSUME NEW x \in Item, x.kind # "response", td'.asked \subseteq td.asked,
             \/ entry'.mailbox = entry.mailbox
             \/ entry'.mailbox = Append(entry.mailbox, x),
             fate' = fate, facade' = facade
      PROVE  Remembered'
  <2>1. PICK next : next = entry'.mailbox
    OBVIOUS
  <2>2. ASSUME NEW i \in Nat, NEW c, Answer(next, i, c) PROVE Answer(entry.mailbox, i, c)
    <3>1. CASE next = entry.mailbox
      BY <2>2, <3>1, Zenon
    <3>2. CASE next = Append(entry.mailbox, x)
      BY <1>1, <1>3, <2>2, <3>2, AnswerAppend, Zenon
    <3> QED
      BY <1>3, <2>1, <3>1, <3>2
  <2>3. \A c \in Closes : Unanswered(td'.asked, next, c)
                            => Unanswered(td.asked, entry.mailbox, c)
    BY <1>3, <2>2 DEF Unanswered
  <2>4. \A c \in td'.asked, i \in Nat : ~Answer(next, i, c)
    BY <1>3, <2>2 DEF Remembered, Sound, OneAnswer
  <2>5. \A c \in Closes, i \in Nat, j \in Nat :
          Answer(next, i, c) /\ Answer(next, j, c) => i = j
    BY <2>2 DEF Remembered, Sound, OneAnswer
  <2>6. Sound(facade, fate, td'.asked, next)
    BY <2>3, <2>4, <2>5, FewerSound DEF Remembered
  <2> QED
    BY <1>3, <2>1, <2>6 DEF Remembered
<1>4. CASE Answers
  <2>1. td'.asked = td.asked
    BY <1>4 DEF Answers, TypeOK, Td
  <2> QED
    BY <1>1, <1>2, <1>3, <1>4, <2>1, PublishedMailbox DEF Answers
<1>5. CASE Announces
  <2>1. td'.asked = td.asked
    BY <1>5 DEF Announces, TypeOK, Td
  <2> QED
    BY <1>1, <1>2, <1>3, <1>5, <2>1, PublishedMailbox DEF Announces
<1>6. CASE Closes_Td
  <2>1. td'.asked = {}
    BY <1>6 DEF Closes_Td
  <2>2. PICK p : p = Published(entry, [kind |-> "closed"])
    OBVIOUS
  <2>3. p.mailbox = entry.mailbox \/ p.mailbox = Append(entry.mailbox, [kind |-> "closed"])
    BY <1>1, <1>2, <2>2, PublishedMailbox
  <2>4. entry'.mailbox = entry.mailbox \/ entry'.mailbox = p.mailbox
    BY <1>1, <1>2, <1>6, <2>2, MailboxTypes DEF Closes_Td, Entry
  <2> QED
    BY <1>2, <1>3, <1>6, <2>1, <2>3, <2>4 DEF Closes_Td
<1>7. CASE ReceiverFails
  BY <1>1, <1>7, StillSound DEF ReceiverFails, Entry, FlagsKept
<1>8. ASSUME NEW c \in Closes, NEW ok \in BOOLEAN, Responds(c, ok) PROVE Remembered'
  <2>1. PICK x : x = [kind |-> "response", id |-> c, ok |-> ok]
    OBVIOUS
  <2>2. x \in Item /\ x.kind = "response" /\ x.id = c
    BY <2>1 DEF Item, Response
  <2>3. c \in td.asked /\ td'.asked = td.asked \ {c} /\ UNCHANGED <<facade, fate>>
    BY <1>8 DEF Responds, TypeOK, Td
  <2>4. entry'.mailbox = entry.mailbox \/ entry'.mailbox = Append(entry.mailbox, x)
    BY <1>1, <1>8, <2>1, <2>2, PublishedMailbox DEF Responds
  <2>5. ASSUME NEW i \in Nat, NEW d, Answer(entry'.mailbox, i, d)
        PROVE  Answer(entry.mailbox, i, d) \/ (i = Len(entry.mailbox) + 1 /\ d = c)
    <3>1. CASE entry'.mailbox = entry.mailbox
      BY <2>5, <3>1, Zenon
    <3>2. CASE entry'.mailbox = Append(entry.mailbox, x)
      <4>1. Answer(Append(entry.mailbox, x), i, d)
        BY <2>5, <3>2, Zenon
      <4>2. Answer(entry.mailbox, i, d) \/ (i = Len(entry.mailbox) + 1 /\ x.id = d)
        BY <1>1, <2>2, <4>1, AnswerAppend, Zenon
      <4> QED
        BY <2>2, <4>2, Zenon
    <3> QED
      BY <2>4, <3>1, <3>2
  <2>6. \A i \in Nat : ~Answer(entry.mailbox, i, c)
    BY <2>3 DEF Remembered, Sound, OneAnswer
  <2>7. \A d \in Closes : Unanswered(td'.asked, entry'.mailbox, d)
                            => Unanswered(td.asked, entry.mailbox, d)
    BY <2>3, <2>5 DEF Unanswered
  <2>8. \A d \in td'.asked, i \in Nat : ~Answer(entry'.mailbox, i, d)
    BY <2>3, <2>5 DEF Remembered, Sound, OneAnswer
  <2>9. \A d \in Closes, i \in Nat, j \in Nat :
          Answer(entry'.mailbox, i, d) /\ Answer(entry'.mailbox, j, d) => i = j
    BY <2>5, <2>6 DEF Remembered, Sound, OneAnswer
  <2>10. Sound(facade, fate, td'.asked, entry'.mailbox)
    BY <2>7, <2>8, <2>9, FewerSound DEF Remembered
  <2> QED
    BY <2>3, <2>10 DEF Remembered
<1> QED
  BY <1>4, <1>5, <1>6, <1>7, <1>8 DEF World

-----------------------------------------------------------------------------
(***************************************************************************)
(* The frames and the terminal update.                                     *)
(***************************************************************************)

\* A frame that begins.
LEMMA EnterMatch ==
  ASSUME Inv, NEW kind \in {"drain", "failed", "tick"}, Enter(kind),
         core'.draining => core.draining,
         facade'.drain_depth =
           IF kind = "drain" THEN facade.drain_depth + 1 ELSE facade.drain_depth
  PROVE  FramesMatch'
<1>1. PICK x : x = [kind |-> kind, loop |-> FALSE]
  OBVIOUS
<1>2. x \in Frame /\ x.kind = kind /\ frames' = Append(frames, x) /\ frames \in Seq(Frame)
  BY <1>1 DEF Enter, Frame, Inv, TypeOK
<1>3. facade'.drain_depth = Cardinality(Drains(frames'))
  BY <1>2, DrainsAppend DEF Inv, FramesMatch
<1>4. \A i \in 1..Len(frames) : i \in 1..Len(frames') /\ frames'[i] = frames[i]
  BY <1>2
<1> QED
  BY <1>3, <1>4 DEF Inv, FramesMatch

LEMMA ReceivingFrames == ASSUME Inv, Receiving PROVE FramesMatch'
<1> USE DEF Inv
<1>1. CASE Dispatch \/ ReceiveNothing
  <2>1. PICK f \in Facade : f.drain_depth = facade.drain_depth /\ EnterDrain(f)
    <3>1. CASE Dispatch
      <4>1. PICK g : g = AuthState(Observed(facade, Head1), Head1)
        OBVIOUS
      <4>2. entry.mailbox # <<>> /\ EnterDrain(g)
        BY <3>1, <4>1 DEF Dispatch
      <4>3. g \in Facade /\ g.drain_depth = facade.drain_depth
        BY <4>1, <4>2, MailboxTypes, ObservedFields DEF TypeOK
      <4> QED
        BY <4>2, <4>3
    <3>2. CASE ReceiveNothing
      BY <3>2 DEF ReceiveNothing, TypeOK
    <3> QED
      BY <1>1, <3>1, <3>2
  <2>2. Enter("drain") /\ facade'.drain_depth = facade.drain_depth + 1
    BY <2>1 DEF EnterDrain, Facade
  <2>3. core'.draining = core.draining
    BY <1>1 DEF Dispatch, ReceiveNothing, TypeOK, Core
  <2> QED
    BY <2>2, <2>3, EnterMatch
<1>2. CASE ReceiveFails
  <2>1. Enter("failed") /\ core'.draining = core.draining /\ facade' = facade
    BY <1>2 DEF ReceiveFails, Detached, TypeOK, Core
  <2> QED
    BY <2>1, EnterMatch
<1>3. CASE Await
  BY <1>3, EnterMatch DEF Await
<1>4. CASE DispatchThrows
  <2>1. entry.mailbox # <<>> /\ UNCHANGED frames
          /\ facade' = AuthState(Observed(facade, Head1), Head1)
    BY <1>4 DEF DispatchThrows
  <2>2. facade'.drain_depth = facade.drain_depth
    BY <2>1, MailboxTypes, ObservedFields DEF TypeOK
  <2>3. core'.draining = core.draining
    BY <1>4 DEF DispatchThrows, Detached, TypeOK, Core
  <2> QED
    BY <1>4, <2>1, <2>2, <2>3 DEF FramesMatch
<1> QED
  BY <1>1, <1>2, <1>3, <1>4 DEF Receiving

LEMMA TickingFrames == ASSUME Inv, Ticking PROVE FramesMatch'
<1> USE DEF Inv
<1>1. CASE TickStarts
  <2>1. /\ frames \in Seq(Frame) /\ frames # <<>>
        /\ frames' = [frames EXCEPT ![Len(frames)].loop = TRUE] /\ facade' = facade
    BY <1>1 DEF TickStarts, TypeOK
  <2>2. /\ Len(frames') = Len(frames) /\ Drains(frames') = Drains(frames)
        /\ frames'[Len(frames)].loop
    BY <2>1, DrainsLoop
  <2>3. Len(frames) \in 1..Len(frames)
    BY <2>1
  <2> QED
    BY <2>1, <2>2, <2>3 DEF FramesMatch
<1>2. CASE TickDetaches
  BY <1>2 DEF TickDetaches, Detached, FramesMatch, TypeOK, Core
<1>3. CASE TickEnds \/ TickThrows
  <2>1. frames # <<>> /\ frames' = Popped
    BY <1>3 DEF TickEnds, TickThrows
  <2>2. facade'.drain_depth =
          IF Top.kind = "drain" THEN facade.drain_depth - 1 ELSE facade.drain_depth
    <3>1. PICK f : f = IF Top.kind = "drain" THEN [facade EXCEPT !.drain_depth = @ - 1]
                       ELSE facade
      OBVIOUS
    <3>2. \/ facade' = f
          \/ facade' = [f EXCEPT !.state = "Cleaned", !.cleanup_complete = TRUE]
      BY <1>3, <3>1 DEF TickEnds, TickThrows
    <3> QED
      BY <3>1, <3>2 DEF TypeOK, Facade
  <2>3. facade'.drain_depth = Cardinality(Drains(frames'))
    BY <2>1, <2>2, DepthCounts
  <2>4. core'.draining => core.draining /\ ~Top.loop
    BY <1>3 DEF TickEnds, TickThrows, Detached, TypeOK, Core
  <2>5. ASSUME core'.draining PROVE \E i \in 1..Len(frames') : frames'[i].loop
    <3>1. PICK i \in 1..Len(frames) : frames[i].loop
      BY <2>4, <2>5 DEF FramesMatch
    <3>2. i # Len(frames)
      BY <2>4, <2>5, <3>1 DEF Top
    <3>3. i \in 1..Len(Popped) /\ Popped[i] = frames[i]
      BY <2>1, <3>1, <3>2, DepthCounts DEF TypeOK
    <3> QED
      BY <2>1, <3>1, <3>3
  <2> QED
    BY <2>3, <2>5 DEF FramesMatch
<1> QED
  BY <1>1, <1>2, <1>3 DEF Ticking

\* A disposal, and TDLib, leave the frames alone.
LEMMA OtherFrames ==
  ASSUME Inv, Application \/ Unload \/ Waiting \/ World
  PROVE  FramesMatch'
<1> USE DEF Inv
<1>1. facade \in Facade /\ Gone(facade, "done") \in Facade
        /\ WithFallback(facade) \in Facade
  BY GoneType DEF TypeOK
<1>2. SUFFICES /\ UNCHANGED frames /\ core'.draining = core.draining
               /\ facade'.drain_depth = facade.drain_depth
  BY DEF FramesMatch
<1>3. CASE Application
  <2>1. ASSUME NEW c \in Shutdowns, Shutdown(c)
        PROVE  UNCHANGED <<frames, core>> /\ facade'.drain_depth = facade.drain_depth
    BY <1>1, <2>1 DEF Shutdown, Facade
  <2>2. CASE Request
    BY <2>2 DEF Request, TypeOK, Core
  <2> QED
    BY <1>3, <2>1, <2>2 DEF Application
<1>4. CASE Unload
  <2>1. UnloadStarts /\ UNCHANGED frames
    BY <1>4 DEF Unload, UnloadAtOnce, UnloadWaits, UnloadCloses, UnloadCloseThrows
  <2>2. core'.draining = core.draining
    BY <2>1 DEF UnloadStarts, Detached, TypeOK, Core
  <2>3. \/ facade' = [Gone(facade, "done") EXCEPT !.state = "Cleaned"]
        \/ facade' = [facade EXCEPT !.pc = "wait"]
        \/ facade' = [WithFallback(facade) EXCEPT !.pc = "wait"]
        \/ facade' = Gone(WithFallback(facade), "threw")
    BY <1>4 DEF Unload, UnloadAtOnce, UnloadWaits, UnloadCloses, UnloadCloseThrows
  <2>4. facade'.drain_depth = facade.drain_depth
    BY <1>1, <2>3, GoneFields DEF Facade
  <2> QED
    BY <2>1, <2>2, <2>4
<1>5. CASE Waiting
  <2>1. UNCHANGED <<core, frames>>
    BY <1>5 DEF Waiting, WaitReceives, WaitCloses, SecondChance, WaitFails, WaitEnds
  <2>2. CASE WaitFails \/ WaitEnds
    BY <1>1, <2>1, <2>2, GoneFields DEF WaitFails, WaitEnds
  <2>3. CASE WaitReceives \/ WaitCloses
    <3>1. PICK g : g = AuthState(Observed(facade, Head1), Head1)
      OBVIOUS
    <3>2. entry.mailbox # <<>>
            /\ (facade' = g \/ facade' = WithFallback(g)
                  \/ facade' = Gone(WithFallback(g), "threw"))
      BY <2>3, <3>1 DEF WaitReceives, WaitCloses, SecondChance
    <3>3. g \in Facade /\ WithFallback(g) \in Facade /\ g.drain_depth = facade.drain_depth
      BY <1>1, <3>1, <3>2, MailboxTypes, ObservedFields, GoneType
    <3> QED
      BY <2>1, <3>2, <3>3, GoneFields
  <2> QED
    BY <1>5, <2>2, <2>3 DEF Waiting
<1>6. CASE World
  BY <1>6 DEF World, Answers, Announces, Closes_Td, ReceiverFails, Responds
<1> QED
  BY <1>3, <1>4, <1>5, <1>6

\* A terminal update met while the client is used is met within a drain.
LEMMA DrainInv == ASSUME Inv, Next PROVE TerminalInDrain'
<1> USE DEF Inv
<1>1. /\ facade \in Facade /\ core \in Core /\ entry \in Entry /\ frames \in Seq(Frame)
      /\ escaped \in BOOLEAN
  BY DEF TypeOK
<1>2. CASE Application
  <2>1. ASSUME NEW c \in Shutdowns, Shutdown(c) PROVE ~Closed(facade) /\ ~Closed(facade')
    BY <1>1, <2>1 DEF Shutdown, Closed, Facade
  <2>2. ~Closed(facade')
    BY <1>2, <2>1 DEF Application, Request, Closed
  <2> QED
    BY <1>1, <2>2 DEF TerminalInDrain, Closed, Facade
<1>3. CASE Dispatch \/ DispatchThrows
  <2>1. PICK g : g = AuthState(Observed(facade, Head1), Head1)
    OBVIOUS
  <2>2. entry.mailbox # <<>> /\ ~Closed(facade) /\ LuaRuns
    BY <1>3 DEF Dispatch, DispatchThrows
  <2>3. g \in Facade /\ g.state # "Cleaned" /\ g.drain_depth = facade.drain_depth
    BY <1>1, <2>1, <2>2, MailboxTypes, ObservedFields DEF Closed
  <2>4. CASE Dispatch
    <3>1. facade' = [g EXCEPT !.drain_depth = @ + 1] /\ frames' # <<>>
      BY <1>1, <2>1, <2>4 DEF Dispatch, EnterDrain, Enter
    <3>2. facade'.state = g.state /\ facade'.drain_depth > 0
      BY <1>1, <2>3, <3>1 DEF Facade
    <3>3. g.state = "Terminal" => core'.detach_after_drain
      BY <1>1, <2>1, <2>4 DEF Dispatch, Core
    <3> QED
      BY <2>3, <3>1, <3>2, <3>3 DEF TerminalInDrain, Closed
  <2>5. CASE DispatchThrows
    <3>1. facade' = g /\ escaped'
      BY <2>1, <2>5 DEF DispatchThrows
    <3>2. g.state = "Terminal" => ~core'.pending
      BY <1>1, <2>1, <2>5 DEF DispatchThrows, Detached, Core
    <3> QED
      BY <2>3, <3>1, <3>2 DEF TerminalInDrain, Closed
  <2> QED
    BY <1>3, <2>4, <2>5
<1>4. CASE ReceiveNothing
  <2>1. /\ facade' = [facade EXCEPT !.drain_depth = @ + 1] /\ frames' # <<>>
        /\ UNCHANGED <<core, entry>> /\ LuaRuns
    BY <1>1, <1>4 DEF ReceiveNothing, EnterDrain, Enter
  <2>2. facade'.state = facade.state /\ facade'.drain_depth > 0
    BY <1>1, <2>1 DEF Facade
  <2> QED
    BY <2>1, <2>2 DEF TerminalInDrain, Closed, LuaRuns
<1>5. CASE ReceiveFails
  BY <1>1, <1>5 DEF ReceiveFails, TerminalInDrain, Closed, Facade
<1>6. CASE Await
  BY <1>1, <1>6 DEF Await, Enter, TerminalInDrain, Closed
<1>7. CASE TickStarts
  <2>1. frames' # <<>>
    BY <1>1, <1>7, DrainsLoop, EmptySeq DEF TickStarts
  <2>2. /\ core'.pending = core.pending
        /\ core'.detach_after_drain = core.detach_after_drain
        /\ UNCHANGED <<facade, entry, escaped>>
    BY <1>1, <1>7 DEF TickStarts, Core
  <2> QED
    BY <2>1, <2>2 DEF TerminalInDrain, Closed
<1>8. CASE TickDetaches
  BY <1>1, <1>8 DEF TickDetaches, Detached, Core, TerminalInDrain
<1>9. CASE TickEnds
  <2>1. PICK f : f = IF Top.kind = "drain" THEN [facade EXCEPT !.drain_depth = @ - 1]
                     ELSE facade
    OBVIOUS
  <2>2. PICK cleans \in BOOLEAN :
          /\ cleans <=> Top.kind = "drain" /\ f.drain_depth = 0 /\ f.state = "Terminal"
          /\ facade' = IF cleans THEN [f EXCEPT !.state = "Cleaned", !.cleanup_complete = TRUE]
                       ELSE f
          /\ entry' = IF cleans THEN Forgotten(entry) ELSE entry
    BY <1>9, <2>1 DEF TickEnds
  <2>3. /\ LuaRuns /\ frames # <<>> /\ frames' = Popped /\ TickCanEnd
        /\ core' = [core EXCEPT !.draining = @ /\ ~Top.loop]
        /\ escaped' = (escaped /\ ~(Top.kind = "drain" /\ Popped = <<>>))
    BY <1>9 DEF TickEnds
  <2>4. /\ f.state = facade.state
        /\ Top.kind = "drain" => f.drain_depth = facade.drain_depth - 1
        /\ Top.kind = "drain" => f.drain_depth \in Nat
        /\ Top.kind # "drain" => f = facade
    BY <1>1, <2>1, <2>3, DepthCounts DEF Facade
  <2>5. /\ core'.pending = core.pending
        /\ core'.detach_after_drain = core.detach_after_drain
    BY <1>1, <2>3 DEF Core
  <2>6. facade'.state = IF cleans THEN "Cleaned" ELSE facade.state
    BY <1>1, <2>1, <2>2, <2>4 DEF Facade
  <2>7. ASSUME facade'.state = "Terminal", ~escaped' PROVE facade'.drain_depth > 0
    <3>1. ~cleans /\ facade' = f /\ f.state = "Terminal"
      BY <2>2, <2>4, <2>6, <2>7
    <3>2. CASE Top.kind = "drain"
      BY <2>2, <2>4, <3>1, <3>2
    <3>3. CASE Top.kind # "drain"
      BY <2>3, <2>4, <2>7, <3>1, <3>3 DEF TerminalInDrain, LuaRuns
    <3> QED
      BY <3>2, <3>3
  <2>8. facade'.state = "Cleaned" => entry'.orphan
    <3>1. CASE cleans
      BY <1>1, <2>2, <3>1, ForgottenFields
    <3>2. CASE ~cleans
      BY <2>2, <2>3, <2>6, <3>2 DEF TerminalInDrain, LuaRuns
    <3> QED
      BY <3>1, <3>2
  <2>9. Closed(facade') => Closed(facade)
    BY <2>2, <2>4, <2>6 DEF Closed
  <2>10. Closed(facade') /\ core'.pending => core'.detach_after_drain
    BY <2>3, <2>5, <2>9 DEF TerminalInDrain, LuaRuns
  <2>11. ASSUME frames' = <<>> PROVE Top.loop
    <3>1. Len(frames) = 1
      BY <1>1, <2>3, <2>11, DepthCounts, EmptySeq
    <3>2. core.draining => Top.loop
      BY <3>1 DEF FramesMatch, Top
    <3> QED
      BY <2>3, <3>2 DEF TickCanEnd
  <2>12. frames' = <<>> /\ Closed(facade') /\ ~escaped' => ~core'.pending
    BY <2>3, <2>5, <2>10, <2>11 DEF TickCanEnd
  <2> QED
    BY <2>7, <2>8, <2>10, <2>12 DEF TerminalInDrain
<1>10. CASE TickThrows
  <2>1. facade'.state = facade.state /\ LuaRuns /\ UNCHANGED entry /\ escaped'
    BY <1>1, <1>10 DEF TickThrows, Facade
  <2>2. /\ core'.pending => core.pending
        /\ core'.pending /\ core.detach_after_drain => core'.detach_after_drain
    BY <1>1, <1>10 DEF TickThrows, Detached, Core
  <2> QED
    BY <2>1, <2>2 DEF TerminalInDrain, Closed, LuaRuns
<1>11. CASE Unload \/ Waiting
  <2>1. facade'.pc # "lua"
    <3>1. CASE UnloadAtOnce
      <4>1. PICK f : f = Gone(facade, "done")
        OBVIOUS
      <4>2. facade \in Facade
        BY <1>1
      <4>3. f.pc = "gone" /\ f \in Facade
        <5>1. f.pc = "gone"
          BY <4>1, <4>2, GoneFields
        <5>2. f \in Facade
          BY <4>1, <4>2, GoneType
        <5> QED
          BY <5>1, <5>2
      <4> QED
        BY <3>1, <4>1, <4>3 DEF UnloadAtOnce, Facade
    <3>2. CASE UnloadWaits \/ UnloadCloses
      BY <1>1, <3>2, GoneType DEF UnloadWaits, UnloadCloses, Facade
    <3>3. CASE UnloadCloseThrows \/ WaitFails \/ WaitEnds
      <4>1. PICK f, outcome : f \in Facade /\ facade' = Gone(f, outcome)
        BY <1>1, <3>3, GoneType DEF UnloadCloseThrows, WaitFails, WaitEnds
      <4> QED
        BY <4>1, GoneFields
    <3>4. CASE WaitReceives \/ WaitCloses
      <4>1. PICK g : g = AuthState(Observed(facade, Head1), Head1)
        OBVIOUS
      <4>2. /\ entry.mailbox # <<>> /\ facade.pc = "wait"
            /\ (facade' = g \/ facade' = WithFallback(g)
                  \/ facade' = Gone(WithFallback(g), "threw"))
        BY <3>4, <4>1 DEF WaitReceives, WaitCloses, SecondChance, Waits
      <4>3. g \in Facade /\ WithFallback(g) \in Facade /\ g.pc = "wait"
        BY <1>1, <4>1, <4>2, MailboxTypes, ObservedFields, GoneType
      <4> QED
        BY <4>2, <4>3, GoneFields
    <3> QED
      BY <1>11, <3>1, <3>2, <3>3, <3>4 DEF Unload, Waiting
  <2> QED
    BY <2>1 DEF TerminalInDrain
<1>12. CASE World
  <2>1. UNCHANGED <<facade, core, frames, escaped>>
    BY <1>12 DEF World, Answers, Announces, Closes_Td, ReceiverFails, Responds
  <2>2. entry'.orphan = entry.orphan
    <3>1. ASSUME NEW x, NEW e, e = Published(entry, x)
          PROVE  e.orphan = entry.orphan
      BY <1>1, <3>1 DEF Published, Entry
    <3>2. CASE ReceiverFails
      BY <1>1, <3>2 DEF ReceiverFails, Entry
    <3>3. CASE Closes_Td
      BY <1>1, <3>3 DEF Closes_Td, Published, Entry
    <3> QED
      BY <1>12, <3>1, <3>2, <3>3 DEF World, Answers, Announces, Responds
  <2> QED
    BY <2>1, <2>2 DEF TerminalInDrain, Closed
<1> QED
  BY <1>2, <1>3, <1>4, <1>5, <1>6, <1>7, <1>8, <1>9, <1>10, <1>11, <1>12
  DEF Next, Receiving, Ticking

-----------------------------------------------------------------------------
(***************************************************************************)
(* What is known of TDLib's client, and the demand for its end.            *)
(***************************************************************************)
Heard(mb) == \E i \in 1..Len(mb) : mb[i].kind = "closed"

\* The terminal update is met once it was published.
LEMMA HeardTail ==
  ASSUME NEW mb \in Mailbox, mb # <<>>
  PROVE  Heard(mb) <=> Head(mb).kind = "closed" \/ Heard(Tail(mb))
<1>1. /\ Len(mb) \in Nat /\ Len(mb) > 0 /\ Head(mb) = mb[1]
      /\ Len(Tail(mb)) = Len(mb) - 1
      /\ \A i \in 1..(Len(mb) - 1) : Tail(mb)[i] = mb[i + 1]
  BY DEF Mailbox
<1>2. ASSUME NEW i \in 1..Len(mb), mb[i].kind = "closed", i # 1 PROVE Heard(Tail(mb))
  <2>1. i - 1 \in 1..Len(Tail(mb)) /\ Tail(mb)[i - 1] = mb[i]
    BY <1>1, <1>2
  <2> QED
    BY <1>2, <2>1 DEF Heard
<1>3. ASSUME Heard(Tail(mb)) PROVE Heard(mb)
  <2>1. PICK i \in 1..Len(Tail(mb)) : Tail(mb)[i].kind = "closed"
    BY <1>3 DEF Heard
  <2>2. i + 1 \in 1..Len(mb) /\ mb[i + 1] = Tail(mb)[i]
    BY <1>1, <2>1
  <2> QED
    BY <2>1, <2>2 DEF Heard
<1>4. Head(mb).kind = "closed" => Heard(mb)
  BY <1>1 DEF Heard
<1> QED
  BY <1>1, <1>2, <1>3, <1>4 DEF Heard

\* Steps of the client: they send, or take what was published.
ClientSteps ==
  /\ td'.phase = td.phase \/ (td.phase = "none" /\ td'.phase = "open")
  /\ td'.phase = "open" => ledger'.materialized \/ ledger'.uncertain
  /\ ledger'.record = ledger.record \/ facade'.pc = "gone"
  /\ Heard(entry'.mailbox) => Heard(entry.mailbox)
  /\ facade'.pc # "gone" => facade.pc # "gone" /\ facade'.outcome = "none"
  /\ facade'.pc # "gone" /\ (Closed(facade') \/ facade'.cleanup_complete) =>
       Closed(facade) \/ facade.cleanup_complete \/ Heard(entry.mailbox)
  /\ facade'.outcome = "done" => td'.phase # "open"

LEMMA ClientKnows == ASSUME Inv, TypeOK', ClientSteps PROVE TdKnown' /\ UnloadLeavesNothing'
<1> USE DEF Inv, ClientSteps
<1>1. Heard(entry.mailbox) => td.phase = "closed"
  BY DEF TdKnown, Heard
<1>2. td.phase = "closed" => td'.phase = "closed"
  OBVIOUS
<1>3. \A i \in 1..Len(entry'.mailbox) :
        entry'.mailbox[i].kind = "closed" => td'.phase = "closed"
  BY <1>1, <1>2 DEF Heard
<1>4. facade'.pc # "gone" /\ (Closed(facade') \/ facade'.cleanup_complete \/ ~ledger'.record)
        => td'.phase = "closed"
  BY <1>1, <1>2 DEF TdKnown
<1>5. facade'.outcome # "none" => facade'.pc = "gone"
  OBVIOUS
<1>6. td'.phase \in {"none", "open", "closed"}
  BY DEF TypeOK, Td
<1> QED
  BY <1>3, <1>4, <1>5, <1>6 DEF TdKnown, UnloadLeavesNothing

\* What sending, and being told, do to the ledger.
LEMMA LedgerFields ==
  ASSUME TypeOK
  PROVE  /\ \A l \in Ledger, outcome \in SendOutcomes, close \in BOOLEAN :
              /\ LedgerAfter(l, outcome, close).record = l.record
              /\ l.materialized => LedgerAfter(l, outcome, close).materialized
              /\ l.uncertain => LedgerAfter(l, outcome, close).uncertain
              /\ outcome = "sent" => LedgerAfter(l, outcome, close).materialized
              /\ outcome = "uncertain" => LedgerAfter(l, outcome, close).uncertain
         /\ \A f, item : /\ LedgerObserved(f, item).record = ledger.record
                         /\ LedgerObserved(f, item).materialized = ledger.materialized
                         /\ LedgerObserved(f, item).uncertain = ledger.uncertain
<1>1. ASSUME NEW l \in Ledger, NEW outcome \in SendOutcomes, NEW close \in BOOLEAN
      PROVE  /\ LedgerAfter(l, outcome, close).record = l.record
             /\ l.materialized => LedgerAfter(l, outcome, close).materialized
             /\ l.uncertain => LedgerAfter(l, outcome, close).uncertain
             /\ outcome = "sent" => LedgerAfter(l, outcome, close).materialized
             /\ outcome = "uncertain" => LedgerAfter(l, outcome, close).uncertain
  BY DEF LedgerAfter, Ledger, SendOutcomes
<1>2. ASSUME NEW f, NEW item
      PROVE  /\ LedgerObserved(f, item).record = ledger.record
             /\ LedgerObserved(f, item).materialized = ledger.materialized
             /\ LedgerObserved(f, item).uncertain = ledger.uncertain
  BY DEF LedgerObserved, TypeOK, Ledger
<1> QED
  BY <1>1, <1>2

\* A close that is sent.
LEMMA SendKnows ==
  ASSUME Inv, NEW c \in Closes, NEW outcome \in SendOutcomes,
         ledger' = LedgerAfter(ledger, outcome, TRUE), td' \in TdAfter(outcome, c)
  PROVE  /\ td'.phase = td.phase \/ (td.phase = "none" /\ td'.phase = "open")
         /\ td'.phase = "open" => ledger'.materialized \/ ledger'.uncertain
         /\ ledger'.record = ledger.record
<1>1. \/ td'.phase = td.phase
      \/ td.phase = "none" /\ td'.phase = "open" /\ outcome \in {"uncertain", "sent"}
  BY SendFields DEF Inv
<1>2. /\ ledger'.record = ledger.record
      /\ ledger.materialized => ledger'.materialized
      /\ ledger.uncertain => ledger'.uncertain
      /\ outcome = "sent" => ledger'.materialized
      /\ outcome = "uncertain" => ledger'.uncertain
  BY LedgerFields DEF Inv, TypeOK
<1> QED
  BY <1>1, <1>2 DEF Inv, TdKnown

LEMMA ApplicationKnows == ASSUME Inv, Application PROVE ClientSteps
<1> USE DEF Inv
<1>1. facade \in Facade /\ facade.pc = "lua"
  <2>1. LuaRuns
    BY DEF Application, Shutdown, Request
  <2> QED
    BY <2>1 DEF TypeOK, LuaRuns
<1>2. facade.outcome = "none"
  BY <1>1 DEF TdKnown
<1>3. ASSUME NEW c \in Shutdowns, Shutdown(c) PROVE ClientSteps
  <2>1. PICK outcome \in SendOutcomes : SendClose(c, outcome)
    BY <1>3 DEF Shutdown
  <2>2. c \in Closes
    BY DEF Closes
  <2>3. /\ td'.phase = td.phase \/ (td.phase = "none" /\ td'.phase = "open")
        /\ td'.phase = "open" => ledger'.materialized \/ ledger'.uncertain
        /\ ledger'.record = ledger.record /\ entry'.mailbox = entry.mailbox
    BY <2>1, <2>2, SendKnows, SendTypes DEF SendClose
  <2>4. /\ facade'.pc = "lua" /\ facade'.outcome = "none" /\ ~Closed(facade')
        /\ facade'.cleanup_complete = facade.cleanup_complete
    BY <1>1, <1>2, <1>3 DEF Shutdown, Facade, Closed
  <2> QED
    BY <1>1, <2>3, <2>4 DEF ClientSteps
<1>4. CASE Request
  <2>1. /\ UNCHANGED <<facade, entry>> /\ ~Closed(facade)
        /\ td'.phase = td.phase \/ (td.phase = "none" /\ td'.phase = "open")
    BY <1>4 DEF Request, TypeOK, Td
  <2>2. /\ ledger'.record = ledger.record
        /\ td'.phase = "open" => ledger'.materialized \/ ledger'.uncertain
    <3>1. /\ ledger \in Ledger /\ ledger.record
          /\ FALSE \in BOOLEAN /\ {"sent", "uncertain"} \subseteq SendOutcomes
      BY <1>4 DEF Request, TypeOK, SendOutcomes
    <3>2. \/ ledger' = LedgerAfter(ledger, "sent", FALSE)
          \/ ledger' = LedgerAfter(ledger, "uncertain", FALSE)
      BY <1>4 DEF Request
    <3>3. CASE ledger' = LedgerAfter(ledger, "sent", FALSE)
      BY <3>1, <3>3, LedgerFields
    <3>4. CASE ledger' = LedgerAfter(ledger, "uncertain", FALSE)
      BY <3>1, <3>4, LedgerFields
    <3> QED
      BY <3>2, <3>3, <3>4
  <2> QED
    BY <1>1, <1>2, <2>1, <2>2 DEF ClientSteps, Closed
<1> QED
  BY <1>3, <1>4 DEF Application

\* Taking an item from the mailbox.
LEMMA TakeKnows ==
  ASSUME Inv, entry.mailbox # <<>>, facade.pc # "gone",
         NEW g, g = AuthState(Observed(facade, Head1), Head1)
  PROVE  /\ Heard(Tail(entry.mailbox)) => Heard(entry.mailbox)
         /\ g \in Facade /\ g.pc = facade.pc /\ g.outcome = "none"
         /\ g.cleanup_complete = facade.cleanup_complete
         /\ Closed(g) => Closed(facade) \/ Heard(entry.mailbox)
<1>1. entry.mailbox \in Mailbox /\ facade \in Facade
  BY DEF Inv, TypeOK, Entry, Mailbox, Item
<1>2. Head1 \in Item
  BY MailboxTypes DEF Inv
<1>3. /\ g \in Facade /\ g.pc = facade.pc /\ g.outcome = facade.outcome
      /\ g.cleanup_complete = facade.cleanup_complete
      /\ Closed(g) <=> Closed(facade) \/ Head1.kind = "closed"
  BY <1>1, <1>2, ObservedFields
<1>4. facade.outcome = "none"
  BY DEF Inv, TdKnown
<1> QED
  BY <1>1, <1>3, <1>4, HeardTail DEF Head1

LEMMA ReceivingKnows == ASSUME Inv, Receiving PROVE ClientSteps
<1> USE DEF Inv
<1>1. facade \in Facade /\ facade.pc = "lua" /\ entry \in Entry
  <2>1. LuaRuns
    BY DEF Receiving, Dispatch, DispatchThrows, ReceiveNothing, ReceiveFails, Await
  <2> QED
    BY <2>1 DEF TypeOK, LuaRuns
<1>2. facade.outcome = "none"
  BY <1>1 DEF TdKnown
<1>3. td' = td
  BY DEF Receiving, Dispatch, DispatchThrows, ReceiveNothing, ReceiveFails, Await
<1>4. CASE Dispatch \/ DispatchThrows
  <2>1. PICK g : g = AuthState(Observed(facade, Head1), Head1)
    OBVIOUS
  <2>2. /\ entry.mailbox # <<>> /\ entry' = [entry EXCEPT !.mailbox = Tail(@)]
        /\ ledger' = LedgerObserved(facade, Head1)
        /\ facade' = g \/ facade' = [g EXCEPT !.drain_depth = @ + 1]
    BY <1>4, <2>1 DEF Dispatch, DispatchThrows, EnterDrain, Received
  <2>3. /\ Heard(Tail(entry.mailbox)) => Heard(entry.mailbox)
        /\ g \in Facade /\ g.pc = facade.pc /\ g.outcome = "none"
        /\ g.cleanup_complete = facade.cleanup_complete
        /\ Closed(g) => Closed(facade) \/ Heard(entry.mailbox)
    BY <1>1, <2>1, <2>2, TakeKnows
  <2>4. entry'.mailbox = Tail(entry.mailbox)
    BY <1>1, <2>2 DEF Entry
  <2>5. /\ facade'.pc = g.pc /\ facade'.outcome = g.outcome
        /\ facade'.cleanup_complete = g.cleanup_complete /\ facade'.state = g.state
    BY <2>2, <2>3 DEF Facade
  <2>6. /\ ledger'.record = ledger.record
        /\ ledger'.materialized = ledger.materialized
        /\ ledger'.uncertain = ledger.uncertain
    BY <2>2, LedgerFields
  <2> QED
    BY <1>1, <1>3, <2>3, <2>4, <2>5, <2>6 DEF ClientSteps, TdKnown, Closed
<1>5. CASE ReceiveNothing \/ ReceiveFails \/ Await
  <2>1. /\ UNCHANGED <<ledger, entry>>
        /\ facade' = facade \/ facade' = [facade EXCEPT !.drain_depth = @ + 1]
    BY <1>5 DEF ReceiveNothing, ReceiveFails, Await, EnterDrain
  <2>2. /\ facade'.pc = facade.pc /\ facade'.outcome = facade.outcome
        /\ facade'.cleanup_complete = facade.cleanup_complete
        /\ facade'.state = facade.state
    BY <1>1, <2>1 DEF Facade
  <2> QED
    BY <1>1, <1>2, <1>3, <2>1, <2>2 DEF ClientSteps, TdKnown, Closed
<1> QED
  BY <1>4, <1>5 DEF Receiving

LEMMA TickingKnows == ASSUME Inv, Ticking PROVE ClientSteps
<1> USE DEF Inv
<1>1. facade \in Facade /\ facade.pc = "lua" /\ entry \in Entry
  <2>1. LuaRuns
    BY DEF Ticking, TickStarts, TickDetaches, TickEnds, TickThrows
  <2> QED
    BY <2>1 DEF TypeOK, LuaRuns
<1>2. facade.outcome = "none"
  BY <1>1 DEF TdKnown
<1>3. UNCHANGED <<td, ledger>>
  BY DEF Ticking, TickStarts, TickDetaches, TickEnds, TickThrows
<1>4. PICK f : f = [facade EXCEPT !.drain_depth = @ - 1]
  OBVIOUS
<1>5. /\ entry' = entry \/ entry' = Forgotten(entry)
      /\ \/ facade' = facade \/ facade' = f
         \/ /\ Closed(facade)
            /\ \/ facade' = [f EXCEPT !.state = "Cleaned", !.cleanup_complete = TRUE]
               \/ facade' = [facade EXCEPT !.state = "Cleaned", !.cleanup_complete = TRUE]
  BY <1>1, <1>4 DEF Ticking, TickStarts, TickDetaches, TickEnds, TickThrows, Closed, Facade
<1>6. entry'.mailbox = entry.mailbox
  BY <1>1, <1>5, ForgottenFields
<1>7. /\ facade'.pc = facade.pc /\ facade'.outcome = facade.outcome
      /\ \/ Closed(facade)
         \/ /\ facade'.cleanup_complete = facade.cleanup_complete
            /\ facade'.state = facade.state
  BY <1>1, <1>4, <1>5 DEF Facade
<1> QED
  BY <1>1, <1>2, <1>3, <1>6, <1>7 DEF ClientSteps, TdKnown, Closed

LEMMA UnloadKnows == ASSUME Inv, Unload PROVE ClientSteps
<1> USE DEF Inv
<1>1. facade \in Facade /\ facade.pc = "lua" /\ entry \in Entry /\ Fallback \in Closes
  <2>1. LuaRuns
    BY DEF Unload, UnloadAtOnce, UnloadWaits, UnloadCloses, UnloadCloseThrows, UnloadStarts
  <2> QED
    BY <2>1 DEF TypeOK, LuaRuns, Closes
<1>2. facade.outcome = "none"
  BY <1>1 DEF TdKnown
<1>3. WithFallback(facade) \in Facade /\ Gone(facade, "done") \in Facade
  BY <1>1, GoneType
<1>4. CASE UnloadAtOnce
  <2>1. /\ td' = td /\ facade' = [Gone(facade, "done") EXCEPT !.state = "Cleaned"]
        /\ entry' = entry \/ entry' = Forgotten([entry EXCEPT !.terminal = TRUE])
        /\ ledger' = ledger \/ ledger' = [ledger EXCEPT !.record = FALSE]
        /\ facade.cleanup_complete \/ retireReserved
    BY <1>4 DEF UnloadAtOnce
  <2>2. entry'.mailbox = entry.mailbox
    <3>1. [entry EXCEPT !.terminal = TRUE] \in Entry
      BY <1>1 DEF Entry
    <3> QED
      BY <1>1, <2>1, <3>1, ForgottenFields DEF Entry
  <2>3. facade'.pc = "gone" /\ facade'.outcome = "done"
    BY <1>1, <1>3, <2>1, GoneFields DEF Facade
  <2>4. /\ ledger'.materialized = ledger.materialized
        /\ ledger'.uncertain = ledger.uncertain
    BY <2>1 DEF TypeOK, Ledger
  <2>5. td.phase # "open"
    BY <1>1, <2>1 DEF TdKnown, retireReserved
  <2> QED
    BY <2>1, <2>2, <2>3, <2>4, <2>5 DEF ClientSteps
<1>5. CASE UnloadWaits
  <2>1. /\ UNCHANGED <<td, entry, ledger>> /\ facade' = [facade EXCEPT !.pc = "wait"]
    BY <1>5 DEF UnloadWaits
  <2>2. /\ facade'.pc = "wait" /\ facade'.outcome = "none"
        /\ facade'.cleanup_complete = facade.cleanup_complete
        /\ facade'.state = facade.state
    BY <1>1, <1>2, <2>1 DEF Facade
  <2> QED
    BY <1>1, <2>1, <2>2 DEF ClientSteps, TdKnown, Closed
<1>6. CASE UnloadCloses
  <2>1. PICK outcome \in SendOutcomes : SendClose(Fallback, outcome)
    BY <1>6 DEF UnloadCloses, SendOutcomes
  <2>2. /\ td'.phase = td.phase \/ (td.phase = "none" /\ td'.phase = "open")
        /\ td'.phase = "open" => ledger'.materialized \/ ledger'.uncertain
        /\ ledger'.record = ledger.record /\ entry'.mailbox = entry.mailbox
    BY <1>1, <2>1, SendKnows, SendTypes DEF SendClose
  <2>3. ~facade.cleanup_complete /\ facade' = [WithFallback(facade) EXCEPT !.pc = "wait"]
    BY <1>6 DEF UnloadCloses
  <2>4. /\ facade'.pc = "wait" /\ facade'.outcome = "none" /\ ~Closed(facade')
        /\ ~facade'.cleanup_complete
    BY <1>1, <1>2, <1>3, <2>3, GoneFields DEF Facade, Closed
  <2> QED
    BY <1>1, <2>2, <2>4 DEF ClientSteps
<1>7. CASE UnloadCloseThrows
  <2>1. PICK outcome \in SendOutcomes :
          ledger' = LedgerAfter(ledger, outcome, TRUE) /\ td' \in TdAfter(outcome, Fallback)
    BY <1>7 DEF UnloadCloseThrows, SendOutcomes
  <2>2. /\ td'.phase = td.phase \/ (td.phase = "none" /\ td'.phase = "open")
        /\ td'.phase = "open" => ledger'.materialized \/ ledger'.uncertain
    BY <1>1, <2>1, SendKnows
  <2>3. entry' = Forgotten(entry) /\ facade' = Gone(WithFallback(facade), "threw")
    BY <1>7 DEF UnloadCloseThrows
  <2>4. entry'.mailbox = entry.mailbox /\ facade'.pc = "gone" /\ facade'.outcome = "threw"
    BY <1>1, <1>3, <2>3, GoneFields, ForgottenFields
  <2> QED
    BY <1>1, <2>2, <2>4 DEF ClientSteps
<1> QED
  BY <1>4, <1>5, <1>6, <1>7 DEF Unload

LEMMA WaitingKnows == ASSUME Inv, Waiting PROVE ClientSteps
<1> USE DEF Inv
<1>1. facade \in Facade /\ facade.pc = "wait" /\ entry \in Entry /\ Fallback \in Closes
  <2>1. facade.pc = "wait"
    BY DEF Waiting, WaitReceives, WaitCloses, SecondChance, WaitFails, WaitEnds, Waits
  <2> QED
    BY <2>1 DEF TypeOK, Closes
<1>2. facade.outcome = "none"
  BY <1>1 DEF TdKnown
<1>3. CASE WaitReceives
  <2>1. /\ entry.mailbox # <<>> /\ entry' = [entry EXCEPT !.mailbox = Tail(@)]
        /\ facade' = AuthState(Observed(facade, Head1), Head1)
        /\ ledger' = LedgerObserved(facade, Head1) /\ td' = td
    BY <1>3 DEF WaitReceives, Received
  <2>2. /\ Heard(Tail(entry.mailbox)) => Heard(entry.mailbox)
        /\ facade'.pc = facade.pc /\ facade'.outcome = "none"
        /\ facade'.cleanup_complete = facade.cleanup_complete
        /\ Closed(facade') => Closed(facade) \/ Heard(entry.mailbox)
    BY <1>1, <2>1, TakeKnows
  <2>3. entry'.mailbox = Tail(entry.mailbox)
    BY <1>1, <2>1 DEF Entry
  <2>4. /\ ledger'.record = ledger.record
        /\ ledger'.materialized = ledger.materialized
        /\ ledger'.uncertain = ledger.uncertain
    BY <2>1, LedgerFields
  <2> QED
    BY <1>1, <2>1, <2>2, <2>3, <2>4 DEF ClientSteps, TdKnown
<1>4. CASE WaitFails \/ WaitEnds
  <2>1. /\ UNCHANGED <<ledger, td>> /\ entry' = Forgotten(entry)
        /\ \/ facade' = Gone(facade, IF Closed(facade) THEN "done" ELSE "timed_out")
           \/ facade' = Gone(facade, "threw")
    BY <1>4 DEF WaitFails, WaitEnds
  <2>2. entry'.mailbox = entry.mailbox /\ facade'.pc = "gone"
          /\ (facade'.outcome = "done" => Closed(facade))
    BY <1>1, <2>1, GoneFields, ForgottenFields
  <2> QED
    BY <1>1, <2>1, <2>2 DEF ClientSteps, TdKnown
<1>5. ASSUME NEW outcome \in SendOutcomes, SecondChance(outcome) PROVE ClientSteps
  <2>1. PICK g : g = AuthState(Observed(facade, Head1), Head1)
    OBVIOUS
  <2>2. PICK rejected : rejected = LedgerObserved(facade, Head1)
    OBVIOUS
  <2>3. entry.mailbox # <<>> /\ NeedsFallback(g) /\ Waits
          /\ (facade' = WithFallback(g) \/ facade' = Gone(WithFallback(g), "threw"))
    BY <1>5, <2>1 DEF SecondChance
  <2>4. /\ Heard(Tail(entry.mailbox)) => Heard(entry.mailbox)
        /\ g \in Facade /\ g.pc = facade.pc /\ g.outcome = "none"
        /\ g.cleanup_complete = facade.cleanup_complete
    BY <1>1, <2>1, <2>3, TakeKnows
  <2>5. /\ rejected \in Ledger /\ rejected.record = ledger.record
        /\ rejected.materialized = ledger.materialized
        /\ rejected.uncertain = ledger.uncertain
    BY <2>2, <2>3, LedgerFields, MailboxTypes
  <2>6. ledger' = LedgerAfter(rejected, outcome, TRUE)
    BY <1>5, <2>2 DEF SecondChance
  <2>7. /\ ledger'.record = ledger.record
        /\ ledger.materialized => ledger'.materialized
        /\ ledger.uncertain => ledger'.uncertain
        /\ outcome = "sent" => ledger'.materialized
        /\ outcome = "uncertain" => ledger'.uncertain
    BY <2>5, <2>6, LedgerFields
  <2>8. \/ td'.phase = td.phase
        \/ td.phase = "none" /\ td'.phase = "open" /\ outcome \in {"uncertain", "sent"}
    BY <1>1, <1>5, SendFields DEF SecondChance
  <2>9. td'.phase = "open" => ledger'.materialized \/ ledger'.uncertain
    BY <2>7, <2>8 DEF TdKnown
  <2>10. entry'.mailbox = Tail(entry.mailbox)
    BY <1>5, SecondChanceEntry
  <2>11. WithFallback(g) \in Facade
    BY <2>4, GoneType
  <2>12. /\ facade'.pc # "gone" => facade'.outcome = "none" /\ ~Closed(facade')
                                    /\ facade'.cleanup_complete = facade.cleanup_complete
         /\ facade'.outcome # "done"
    <3>1. CASE facade' = WithFallback(g)
      BY <2>4, <3>1, GoneFields DEF Closed
    <3>2. CASE facade' = Gone(WithFallback(g), "threw")
      BY <2>11, <3>2, GoneFields
    <3> QED
      BY <2>3, <3>1, <3>2
  <2> QED
    BY <1>1, <2>4, <2>7, <2>8, <2>9, <2>10, <2>12 DEF ClientSteps
<1> QED
  BY <1>3, <1>4, <1>5 DEF Waiting, WaitCloses

LEMMA WorldKnows == ASSUME Inv, TypeOK', World PROVE TdKnown' /\ UnloadLeavesNothing'
<1> USE DEF Inv
<1>1. /\ entry \in Entry /\ entry.mailbox \in Mailbox
      /\ facade' = facade
  BY DEF TypeOK, Entry, Mailbox, Item, World, Answers, Announces, Closes_Td,
         ReceiverFails, Responds
<1>2. CASE Closes_Td
  BY <1>1, <1>2 DEF Closes_Td, TdKnown, UnloadLeavesNothing
<1>3. CASE ReceiverFails
  BY <1>1, <1>3 DEF ReceiverFails, TdKnown, UnloadLeavesNothing, Entry, Closed
<1>4. ASSUME td.phase = "open", td'.phase = "open", Observes,
             NEW x \in Item, x.kind # "closed", entry' = Published(entry, x)
      PROVE  TdKnown' /\ UnloadLeavesNothing'
  <2>1. ledger'.record = ledger.record /\ ledger'.materialized
    BY <1>4 DEF Observes, TypeOK, Ledger
  <2>2. \/ entry'.mailbox = entry.mailbox
        \/ entry'.mailbox = Append(entry.mailbox, x)
    BY <1>1, <1>4, PublishedMailbox
  <2>3. \A i \in 1..Len(entry.mailbox) : entry.mailbox[i].kind # "closed"
    BY <1>4 DEF TdKnown
  <2>4. \A i \in 1..Len(entry'.mailbox) : entry'.mailbox[i].kind # "closed"
    <3>1. CASE entry'.mailbox = entry.mailbox
      BY <2>3, <3>1, Zenon
    <3>2. CASE entry'.mailbox = Append(entry.mailbox, x)
      <4>1. PICK mb \in Mailbox : mb = entry.mailbox
        BY <1>1
      <4>2. \A i \in 1..Len(Append(mb, x)) : Append(mb, x)[i].kind # "closed"
        BY <1>4, <2>3, <4>1 DEF Mailbox
      <4> QED
        BY <3>2, <4>1, <4>2
    <3> QED
      BY <2>2, <3>1, <3>2
  <2> QED
    BY <1>1, <1>4, <2>1, <2>4 DEF TdKnown, UnloadLeavesNothing, Closed
<1>5. CASE Answers
  <2>1. [kind |-> "answer"] \in Item
    BY DEF Item, Update
  <2>2. td'.phase = "open"
    BY <1>5 DEF Answers, TypeOK, Td
  <2> QED
    BY <1>4, <1>5, <2>1, <2>2 DEF Answers
<1>6. CASE Announces
  <2>1. [kind |-> "closing"] \in Item
    BY DEF Item, Update
  <2>2. td'.phase = "open"
    BY <1>6 DEF Announces, TypeOK, Td
  <2> QED
    BY <1>4, <1>6, <2>1, <2>2 DEF Announces
<1>7. ASSUME NEW c \in Closes, NEW ok \in BOOLEAN, Responds(c, ok)
      PROVE  TdKnown' /\ UnloadLeavesNothing'
  <2>1. PICK x : x = [kind |-> "response", id |-> c, ok |-> ok]
    OBVIOUS
  <2>2. x \in Item /\ x.kind = "response"
    BY <2>1 DEF Item, Response
  <2>3. td'.phase = "open"
    BY <1>7 DEF Responds, TypeOK, Td
  <2> QED
    BY <1>4, <1>7, <2>1, <2>2, <2>3 DEF Responds
<1> QED
  BY <1>2, <1>3, <1>5, <1>6, <1>7 DEF World

\* What is known of TDLib stays true of it.
LEMMA TdInv == ASSUME Inv, TypeOK', Next PROVE TdKnown' /\ UnloadLeavesNothing'
  BY ApplicationKnows, ReceivingKnows, TickingKnows, UnloadKnows, WaitingKnows,
     WorldKnows, ClientKnows DEF Next

Owed(ft) == \E c \in Closes : ft[c] \in {"pending", "accepted"}

\* A close that its owner hears of was owed before.
LEMMA ToldOwed ==
  ASSUME Inv, entry.mailbox # <<>>, Owed(FateTold(Head1))
  PROVE  Owed(fate)
<1>1. entry.mailbox \in Mailbox /\ fate \in [Closes -> Fates]
  BY DEF Inv, TypeOK, Entry, Mailbox, Item
<1>2. PICK c \in Closes : FateTold(Head1)[c] \in {"pending", "accepted"}
  BY DEF Owed
<1>3. CASE Head1.kind = "response" /\ Head1.id = c
  <2>1. Answer(entry.mailbox, 1, c)
    BY <1>1, <1>3, AnswerTail DEF Head1
  <2>2. fate[c] \in {"pending", "uncertain"}
    BY <2>1 DEF Inv, Remembered, Sound, OneAnswer, Unanswered
  <2>3. FateTold(Head1)[c] =
          IF ~Head1.ok THEN "rejected" ELSE IF fate[c] = "uncertain" THEN "uncertain"
                                            ELSE "accepted"
    BY <1>1, <1>3 DEF FateTold
  <2>4. fate[c] = "pending"
    BY <1>2, <2>2, <2>3
  <2> QED
    BY <2>4 DEF Owed
<1>4. CASE ~(Head1.kind = "response" /\ Head1.id = c)
  <2>1. FateTold(Head1)[c] = fate[c]
    BY <1>1, <1>4 DEF FateTold
  <2> QED
    BY <1>2, <2>1 DEF Owed
<1> QED
  BY <1>3, <1>4

\* The demand for the terminal update is kept as long as it is owed.
DemandKept ==
  ~entry'.terminal =>
    ~entry.terminal /\ entry'.lifecycle_demands = entry.lifecycle_demands

LEMMA DemandStays ==
  ASSUME Inv, Owed(fate') => Owed(fate), entry'.failed \/ ~entry.failed, DemandKept
  PROVE  ReadUntilClosed'
  BY DEF Inv, ReadUntilClosed, Owed, DemandKept

LEMMA SentDemand ==
  ASSUME Inv, NEW c \in Closes, NEW outcome \in SendOutcomes, NEW ft \in [Closes -> Fates],
         Owed(ft) => Owed(fate),
         entry'.lifecycle_demands = EntryAfter(outcome).lifecycle_demands,
         entry'.failed = entry.failed, entry'.terminal = entry.terminal,
         fate' = [ft EXCEPT ![c] =
                    CASE outcome = "sent" -> "pending" [] outcome = "uncertain" -> "uncertain"
                      [] OTHER -> "unsent"]
  PROVE  ReadUntilClosed'
<1>1. CASE outcome = "sent"
  BY <1>1 DEF EntryAfter, Inv, TypeOK, Entry, ReadUntilClosed
<1>2. CASE outcome # "sent"
  <2>1. EntryAfter(outcome) = entry
    BY <1>2 DEF EntryAfter
  <2>2. fate'[c] \notin {"pending", "accepted"} /\ \A d \in Closes : d # c => fate'[d] = ft[d]
    BY <1>2
  <2>3. Owed(fate') => Owed(fate)
    BY <2>2 DEF Owed
  <2> QED
    BY <2>1, <2>3, DemandStays DEF DemandKept
<1> QED
  BY <1>1, <1>2

LEMMA DemandInv == ASSUME Inv, Next PROVE ReadUntilClosed'
<1> USE DEF Inv
<1>1. entry \in Entry /\ fate \in [Closes -> Fates] /\ Fallback \in Closes
        /\ Shutdowns \subseteq Closes
  BY DEF TypeOK, Closes
<1>2. ASSUME NEW c \in Closes, NEW outcome \in SendOutcomes, SendClose(c, outcome)
      PROVE  ReadUntilClosed'
  <2>1. entry' = EntryAfter(outcome)
    BY <1>2 DEF SendClose
  <2>2. entry'.failed = entry.failed /\ entry'.terminal = entry.terminal
    BY <1>1, <2>1 DEF EntryAfter, Entry
  <2> QED
    BY <1>1, <1>2, <2>1, <2>2, SentDemand DEF SendClose
<1>3. ASSUME UNCHANGED fate \/ (entry.mailbox # <<>> /\ fate' = FateTold(Head1)),
             \/ entry' = entry \/ entry' = Forgotten(entry)
             \/ entry' = [entry EXCEPT !.mailbox = Tail(@)]
      PROVE  ReadUntilClosed'
  <2>1. DemandKept /\ entry'.failed = entry.failed
    BY <1>1, <1>3, ForgottenFields DEF DemandKept, Entry
  <2>2. Owed(fate') => Owed(fate)
    BY <1>3, ToldOwed
  <2> QED
    BY <2>1, <2>2, DemandStays
<1>4. CASE Application
  <2>1. ASSUME NEW c \in Shutdowns, Shutdown(c) PROVE ReadUntilClosed'
    BY <1>1, <1>2, <2>1 DEF Shutdown
  <2>2. CASE Request
    BY <1>3, <2>2 DEF Request
  <2> QED
    BY <1>4, <2>1, <2>2 DEF Application
<1>5. CASE Receiving
  BY <1>3, <1>5 DEF Receiving, Dispatch, DispatchThrows, ReceiveNothing, ReceiveFails,
                    Await, Received
<1>6. CASE Ticking
  BY <1>3, <1>6 DEF Ticking, TickStarts, TickDetaches, TickEnds, TickThrows
<1>7. CASE Unload
  <2>1. CASE UnloadAtOnce
    <3>1. CASE entry' = entry
      BY <1>3, <2>1, <3>1 DEF UnloadAtOnce
    <3>2. CASE entry' = Forgotten([entry EXCEPT !.terminal = TRUE])
      <4>1. [entry EXCEPT !.terminal = TRUE] \in Entry
        BY <1>1 DEF Entry
      <4>2. entry'.terminal
        BY <1>1, <3>2, <4>1, ForgottenFields DEF Entry
      <4> QED
        BY <4>2 DEF ReadUntilClosed
    <3> QED
      BY <2>1, <3>1, <3>2 DEF UnloadAtOnce
  <2>2. CASE UnloadWaits
    BY <1>3, <2>2 DEF UnloadWaits
  <2>3. CASE UnloadCloses
    BY <1>1, <1>2, <2>3 DEF UnloadCloses, SendOutcomes
  <2>4. CASE UnloadCloseThrows
    <3>1. PICK outcome \in {"throws", "uncertain"} :
            fate' = [fate EXCEPT ![Fallback] =
                       IF outcome = "throws" THEN "unsent" ELSE "uncertain"]
      BY <2>4 DEF UnloadCloseThrows
    <3>2. entry' = Forgotten(entry)
      BY <2>4 DEF UnloadCloseThrows
    <3>3. DemandKept /\ entry'.failed = entry.failed
      BY <1>1, <3>2, ForgottenFields DEF DemandKept
    <3>4. Owed(fate') => Owed(fate)
      BY <1>1, <3>1 DEF Owed
    <3> QED
      BY <3>3, <3>4, DemandStays
  <2> QED
    BY <1>7, <2>1, <2>2, <2>3, <2>4 DEF Unload
<1>8. CASE Waiting
  <2>1. CASE WaitReceives \/ WaitFails \/ WaitEnds
    BY <1>3, <2>1 DEF WaitReceives, WaitFails, WaitEnds, Received
  <2>2. ASSUME NEW outcome \in SendOutcomes, SecondChance(outcome) PROVE ReadUntilClosed'
    <3>1. PICK e : e = [EntryAfter(outcome) EXCEPT !.mailbox = Tail(@)]
      OBVIOUS
    <3>2. entry.mailbox # <<>>
            /\ IF outcome \in {"sent", "nothing"} THEN entry' = e ELSE entry' = Forgotten(e)
      BY <2>2, <3>1 DEF SecondChance
    <3>3. /\ e.lifecycle_demands = EntryAfter(outcome).lifecycle_demands
          /\ e.failed = entry.failed /\ e.terminal = entry.terminal
      BY <1>1, <3>1 DEF EntryAfter, Entry
    <3>4. Owed(FateTold(Head1)) => Owed(fate)
      BY <3>2, ToldOwed
    <3>5. FateTold(Head1) \in [Closes -> Fates]
      BY <3>2, MailboxTypes
    <3>6. CASE entry' = e
      <4>1. fate' = [FateTold(Head1) EXCEPT ![Fallback] =
              CASE outcome = "sent" -> "pending" [] outcome = "uncertain" -> "uncertain"
                [] OTHER -> "unsent"]
        BY <2>2 DEF SecondChance
      <4> QED
        BY <1>1, <3>3, <3>4, <3>5, <3>6, <4>1, SentDemand, Zenon
    <3>7. CASE outcome \notin {"sent", "nothing"}
      <4>1. entry' = Forgotten(e) /\ EntryAfter(outcome) = entry
        BY <3>2, <3>7 DEF EntryAfter
      <4>2. DemandKept /\ entry'.failed = entry.failed
        BY <1>1, <3>1, <3>3, <4>1 DEF DemandKept, Forgotten, Entry
      <4>3. fate'[Fallback] \notin {"pending", "accepted"}
              /\ \A d \in Closes : d # Fallback => fate'[d] = FateTold(Head1)[d]
        BY <1>1, <2>2, <3>5, <3>7 DEF SecondChance
      <4>4. Owed(fate') => Owed(fate)
        BY <3>4, <4>3 DEF Owed
      <4> QED
        BY <4>2, <4>4, DemandStays
    <3> QED
      BY <3>2, <3>6, <3>7
  <2> QED
    BY <1>8, <2>1, <2>2 DEF Waiting, WaitCloses
<1>9. CASE World
  <2>1. UNCHANGED fate
    BY <1>9 DEF World, Answers, Announces, Closes_Td, ReceiverFails, Responds
  <2>2. CASE Closes_Td
    <3>1. Published(entry, [kind |-> "closed"]) \in Entry
      BY <1>1, MailboxTypes DEF Item, Update
    <3>2. entry'.terminal
      BY <1>1, <2>2, <3>1 DEF Closes_Td, Entry
    <3> QED
      BY <3>2 DEF ReadUntilClosed
  <2>3. CASE ReceiverFails
    BY <1>1, <2>3 DEF ReceiverFails, ReadUntilClosed, Entry
  <2>4. ASSUME NEW x \in Item, entry' = Published(entry, x) PROVE ReadUntilClosed'
    BY <1>1, <2>1, <2>4, DemandStays, PublishedMailbox DEF DemandKept
  <2>5. [kind |-> "answer"] \in Item /\ [kind |-> "closing"] \in Item
    BY DEF Item, Update
  <2>6. ASSUME NEW c \in Closes, NEW ok \in BOOLEAN, Responds(c, ok) PROVE ReadUntilClosed'
    <3>1. [kind |-> "response", id |-> c, ok |-> ok] \in Item
      BY DEF Item, Response
    <3> QED
      BY <2>4, <2>6, <3>1 DEF Responds
  <2> QED
    BY <1>9, <2>2, <2>3, <2>4, <2>5, <2>6 DEF World, Answers, Announces
<1> QED
  BY <1>4, <1>5, <1>6, <1>7, <1>8, <1>9 DEF Next

-----------------------------------------------------------------------------
(***************************************************************************)
(* The theorems.                                                           *)
(***************************************************************************)
LEMMA InitInv == Init => Inv
<1> SUFFICES ASSUME Init PROVE Inv
  OBVIOUS
<1>1. TypeOK
  <2>1. facade \in Facade
    BY DEF Init, Facade
  <2>2. core \in Core /\ ledger \in Ledger /\ td \in Td
    BY DEF Init, Core, Ledger, Td
  <2>3. entry \in Entry
    BY DEF Init, Entry
  <2>4. frames \in Seq(Frame) /\ escaped \in BOOLEAN
    <3>1. frames = <<>> /\ escaped = FALSE
      BY Zenon DEF Init
    <3>2. <<>> \in Seq(Frame)
      BY EmptySeq
    <3> QED
      BY <3>1, <3>2, Zenon
  <2>5. fate = [c \in Closes |-> "unused"] /\ "unused" \in Fates
    BY DEF Init, Fates
  <2>6. fate \in [Closes -> Fates]
    BY <2>5
  <2> QED
    BY <2>1, <2>2, <2>3, <2>4, <2>6 DEF TypeOK
<1>2. Remembered
  <2>1. /\ facade.shutdown_requests = {} /\ ~facade.shutdown_request_sent
        /\ ~facade.shutdown_accepted /\ ~facade.fallback_sent
        /\ td.asked = {} /\ entry.mailbox = <<>> /\ fate = [c \in Closes |-> "unused"]
        /\ Fallback \in Closes /\ Shutdowns \subseteq Closes
    BY DEF Init, Closes
  <2>2. \A c : ~Unanswered(td.asked, entry.mailbox, c)
    BY <2>1 DEF Unanswered, Answer
  <2>3. OneAnswer(facade, fate, td.asked, entry.mailbox)
    BY <2>1, <2>2 DEF OneAnswer, Answer
  <2>4. Remembers(facade, fate, td.asked, entry.mailbox)
    BY <2>1, <2>2 DEF Remembers, Undecided
  <2>5. Believes(facade, fate, td.asked, entry.mailbox)
    BY <2>1 DEF Believes
  <2> QED
    BY <2>3, <2>4, <2>5 DEF Remembered, Sound
<1>3. TdKnown
  BY DEF Init, TdKnown, Closed
<1>4. FramesMatch
  <2>1. Drains(frames) = {} /\ facade.drain_depth = 0 /\ ~core.draining
    BY DEF Init, Drains
  <2> QED
    BY <2>1, FS_EmptySet DEF FramesMatch
<1>5. TerminalInDrain /\ ReadUntilClosed /\ UnloadLeavesNothing
  BY DEF Init, TerminalInDrain, ReadUntilClosed, UnloadLeavesNothing, Closed
<1> QED
  BY <1>1, <1>2, <1>3, <1>4, <1>5 DEF Inv

LEMMA NextInv == Inv /\ [Next]_vars => Inv'
<1> SUFFICES ASSUME Inv, [Next]_vars PROVE Inv'
  OBVIOUS
<1>1. CASE UNCHANGED vars
  BY <1>1 DEF vars, Inv, TypeOK, Remembered, TdKnown, FramesMatch, TerminalInDrain,
     ReadUntilClosed, UnloadLeavesNothing, Closed
<1>2. CASE Next
  <2>1. TypeOK'
    BY <1>2, ApplicationType, ReceivingType, TickingType, UnloadType, WaitingType,
       WorldType DEF Next, Inv
  <2>2. Remembered'
    BY <1>2, ApplicationSound, ReceivingSound, TickingSound, UnloadSound, WaitingSound,
       WorldSound DEF Next
  <2>3. FramesMatch'
    BY <1>2, ReceivingFrames, TickingFrames, OtherFrames DEF Next
  <2> QED
    BY <1>2, <2>1, <2>2, <2>3, TdInv, DrainInv, DemandInv DEF Inv
<1> QED
  BY <1>1, <1>2

\* What makes the life of a client sound, at every step.
THEOREM Invariance == Spec => []Inv
  BY InitInv, NextInv, PTL DEF Spec

\* Disposal does not wait for an answer that cannot come: closeInternal() skips its
\* own close only while an earlier one can still close the client.
THEOREM ShutdownsRetried == Spec => []RetryPossible
<1>1. Inv => RetryPossible
  BY DEF Inv, Remembered, Sound, Believes, RetryPossible
<1> QED
  BY <1>1, Invariance, PTL

\* The receiver reads on for a client that TDLib still owes its terminal update,
\* after its facade is gone.
THEOREM DemandOutlivesFacade == Spec => []ReadUntilClosed
<1>1. Inv => ReadUntilClosed
  BY DEF Inv
<1> QED
  BY <1>1, Invariance, PTL

\* At rest a closed client is cleaned up, whatever the depth of the callbacks that
\* met its terminal update, and a disposal that succeeded leaves TDLib nothing.
THEOREM ClientsEndClean == Spec => []EndsClean
<1>1. ASSUME Inv PROVE ClosedAtRest
  <2>1. SUFFICES ASSUME LuaRuns, frames = <<>>, Closed(facade), ~escaped
                 PROVE  facade.state = "Cleaned" /\ entry.orphan /\ ~core.pending
    BY DEF ClosedAtRest
  <2>2. Drains(frames) = {}
    BY <2>1 DEF Drains
  <2>3. facade.drain_depth = 0
    BY <2>2, <1>1, FS_EmptySet DEF Inv, FramesMatch
  <2>4. facade.state = "Cleaned"
    BY <1>1, <2>1, <2>3 DEF Inv, TerminalInDrain, LuaRuns, Closed
  <2> QED
    BY <1>1, <2>1, <2>4 DEF Inv, TerminalInDrain, LuaRuns
<1>2. Inv => EndsClean
  BY <1>1 DEF Inv, EndsClean
<1> QED
  BY <1>2, Invariance, PTL

\* A step that sends the close of the disposal finds no shutdown of the application
\* that TDLib may still carry out.
LEMMA FallbackAlone ==
  ASSUME Inv, Next, FallbackSent
  PROVE  \A c \in Shutdowns : fate'[c] \notin Undecided
<1> USE DEF Inv
<1>1. fate \in [Closes -> Fates] /\ Fallback \in Closes \ Shutdowns /\ Shutdowns \subseteq Closes
        /\ facade \in Facade
  BY LifecycleAssumption DEF TypeOK, Closes
<1>2. ASSUME NEW f \in Facade, NEW ft \in [Closes -> Fates], NEW asked, NEW mb,
             Sound(f, ft, asked, mb), NeedsFallback(f),
             NEW x, fate' = [ft EXCEPT ![Fallback] = x]
      PROVE  \A c \in Shutdowns : fate'[c] \notin Undecided
  <2>1. \A c \in Shutdowns : fate'[c] = ft[c]
    BY <1>1, <1>2
  <2> QED
    BY <1>2, <2>1 DEF NeedsFallback, Sound, Remembers
<1>3. ASSUME UNCHANGED fate PROVE FALSE
  BY <1>3 DEF FallbackSent
<1>4. ASSUME entry.mailbox # <<>>, fate' = FateTold(Head1) PROVE FALSE
  <2>1. fate'[Fallback] # "pending"
    BY <1>1, <1>4 DEF FateTold, FallbackSent
  <2> QED
    BY <2>1 DEF FallbackSent
<1>5. CASE Application
  <2>1. ASSUME NEW c \in Shutdowns, Shutdown(c) PROVE FALSE
    <3>1. fate'[Fallback] = fate[Fallback]
      BY <1>1, <2>1 DEF Shutdown, SendClose
    <3> QED
      BY <3>1 DEF FallbackSent
  <2> QED
    BY <1>3, <1>5, <2>1 DEF Application, Request
<1>6. CASE Receiving
  BY <1>3, <1>4, <1>6 DEF Receiving, Dispatch, DispatchThrows, ReceiveNothing,
                          ReceiveFails, Await
<1>7. CASE Ticking \/ World
  BY <1>3, <1>7 DEF Ticking, TickStarts, TickDetaches, TickEnds, TickThrows,
                    World, Answers, Announces, Closes_Td, ReceiverFails, Responds
<1>8. CASE Unload
  <2>1. CASE UnloadAtOnce \/ UnloadWaits
    BY <1>3, <2>1 DEF UnloadAtOnce, UnloadWaits
  <2>2. CASE UnloadCloses \/ UnloadCloseThrows
    <3>1. NeedsFallback(facade) /\ \E x : fate' = [fate EXCEPT ![Fallback] = x]
      BY <2>2 DEF UnloadCloses, UnloadCloseThrows, SendClose
    <3> QED
      BY <1>1, <1>2, <3>1 DEF Remembered
  <2> QED
    BY <1>8, <2>1, <2>2 DEF Unload
<1>9. CASE Waiting
  <2>1. CASE WaitReceives \/ WaitFails \/ WaitEnds
    BY <1>3, <1>4, <2>1 DEF WaitReceives, WaitFails, WaitEnds
  <2>2. CASE WaitCloses
    <3>1. PICK g : g = AuthState(Observed(facade, Head1), Head1)
      OBVIOUS
    <3>2. /\ entry.mailbox # <<>> /\ NeedsFallback(g)
          /\ \E x : fate' = [FateTold(Head1) EXCEPT ![Fallback] = x]
      BY <2>2, <3>1 DEF WaitCloses, SecondChance
    <3>3. g \in Facade /\ FateTold(Head1) \in [Closes -> Fates]
      BY <3>1, <3>2, MailboxTypes
    <3>4. Sound(g, FateTold(Head1), td.asked, Tail(entry.mailbox))
      BY <3>1, <3>2, ToldSound DEF Remembered
    <3> QED
      BY <1>2, <3>2, <3>3, <3>4
  <2> QED
    BY <1>9, <2>1, <2>2 DEF Waiting
<1> QED
  BY <1>5, <1>6, <1>7, <1>8, <1>9 DEF Next

\* closeInternal() never closes TDLib a second time.
THEOREM NeverClosedTwice == Spec => NoDuplicateClose
<1>1. ASSUME Inv, [Next]_vars
      PROVE  [FallbackSent => \A c \in Shutdowns : fate'[c] \notin Undecided]_vars
  BY <1>1, FallbackAlone
<1> QED
  BY <1>1, Invariance, PTL DEF Spec, NoDuplicateClose

-----------------------------------------------------------------------------
(***************************************************************************)
(* The calls that drive a client.                                          *)
(***************************************************************************)

-----------------------------------------------------------------------------
(***************************************************************************)
(* Types of parts.                                                         *)
(***************************************************************************)

LEMMA IdsNat == /\ Ids \subseteq Nat /\ 0 \notin Ids /\ IsFiniteSet(Ids)
                /\ \A i, j \in Ids : i < j \/ j < i \/ i = j
<1>1. /\ Ids \subseteq Nat /\ 0 \notin Ids
      /\ \A i, j \in Ids : i < j \/ j < i \/ i = j
  BY ManagedAssumption DEF Ids
<1>2. IsFiniteSet(Ids)
  BY FS_Interval, ManagedAssumption DEF Ids
<1> QED
  BY <1>1, <1>2

LEMMA StateType ==
  ASSUME NEW r \in StateRec
  PROVE  /\ r.kind \in {"none", "Future", "Task", "Update", "Raw", "PollTask", "LoopTask"}
         /\ r.client \in Clients \cup {NoClient}
         /\ r.status \in Begun \cup {"none", "pending", "taken", "dropped"}
         /\ r.dep \in {0} \cup Ids /\ r.observer \in Nat
      BY DEF StateRec

LEMMA StatusPut ==
  ASSUME NEW r \in StateRec, NEW v \in Begun \cup {"none", "pending", "taken", "dropped"}
  PROVE  LET q == [r EXCEPT !.status = v] IN
         /\ q \in StateRec /\ q.status = v /\ q.kind = r.kind /\ q.client = r.client
         /\ q.dep = r.dep /\ q.observer = r.observer
      BY DEF StateRec

LEMMA WaitPut ==
  ASSUME NEW r \in StateRec, NEW v \in {"running", "waiting"}, NEW i \in {0} \cup Ids
  PROVE  LET q == [r EXCEPT !.status = v, !.dep = i] IN
         /\ q \in StateRec /\ q.status = v /\ q.kind = r.kind /\ q.client = r.client
         /\ q.dep = i /\ q.observer = r.observer
      BY DEF StateRec, Begun, Unfinished

LEMMA DriverType ==
  ASSUME NEW d \in DriverRec
  PROVE  /\ d.pump \in BOOLEAN /\ d.consumer \in BOOLEAN /\ d.drive \in BOOLEAN
         /\ d.active \in BOOLEAN /\ d.selecting \in BOOLEAN /\ d.selected \in {0} \cup Ids
         /\ d.draining \in BOOLEAN /\ d.ready \in Seq(Ids) /\ d.errors \in Int
         /\ d.preserved \in Seq(Ids) /\ d.notifications \subseteq Ids
         /\ d.observer \in ObserverRec
      BY DEF DriverRec

LEMMA ObserverType ==
  ASSUME NEW o \in ObserverRec
  PROVE  /\ o.id \in Nat /\ o.concurrent \in BOOLEAN /\ o.active \in BOOLEAN
         /\ o.stopped \in BOOLEAN /\ o.queue \in Seq(Ids)
      BY DEF ObserverRec

LEMMA NoObserverType ==
  /\ NoObserver \in ObserverRec /\ NoObserver.id = 0 /\ NoObserver.concurrent
  /\ NoObserver.queue = <<>> /\ ~NoObserver.stopped /\ ~NoObserver.active
      BY DEF NoObserver, ObserverRec

LEMMA ManagedType ==
  ASSUME NEW x \in Managed
  PROVE  /\ x.st \in [Ids -> StateRec] /\ x.drv \in [Clients -> DriverRec]
         /\ \A i \in Ids : x.st[i] \in StateRec
         /\ \A c \in Clients : x.drv[c] \in DriverRec /\ x.drv[c].observer \in ObserverRec
      BY DEF Managed, DriverRec

\* The members of one client change, and one state, or one of them.
LEMMA PutBoth ==
  ASSUME NEW x \in Managed, NEW i \in Ids, NEW r \in StateRec, NEW c \in Clients,
         NEW d \in DriverRec
  PROVE  LET y == [st |-> [x.st EXCEPT ![i] = r], drv |-> [x.drv EXCEPT ![c] = d]] IN
         /\ y \in Managed /\ y.st[i] = r /\ y.drv[c] = d
         /\ \A j \in Ids : j # i => y.st[j] = x.st[j]
         /\ \A e \in Clients : e # c => y.drv[e] = x.drv[e]
      BY ManagedType DEF Managed

LEMMA PutState ==
  ASSUME NEW x \in Managed, NEW i \in Ids, NEW r \in StateRec
  PROVE  LET y == [x EXCEPT !.st[i] = r] IN
         /\ y \in Managed /\ y.st[i] = r /\ y.drv = x.drv
         /\ \A j \in Ids : j # i => y.st[j] = x.st[j]
      BY ManagedType DEF Managed

LEMMA PutDriver ==
  ASSUME NEW x \in Managed, NEW c \in Clients, NEW d \in DriverRec
  PROVE  LET y == [x EXCEPT !.drv[c] = d] IN
         /\ y \in Managed /\ y.drv[c] = d /\ y.st = x.st
         /\ \A e \in Clients : e # c => y.drv[e] = x.drv[e]
      BY ManagedType DEF Managed

\* One member of a client changes.
LEMMA ReadyPut ==
  ASSUME NEW d \in DriverRec, NEW q \in Seq(Ids)
  PROVE  LET e == [d EXCEPT !.ready = q] IN
         /\ e \in DriverRec
         /\ e.pump = d.pump /\ e.consumer = d.consumer /\ e.drive = d.drive
         /\ e.active = d.active /\ e.selecting = d.selecting /\ e.selected = d.selected
         /\ e.draining = d.draining /\ e.ready = q /\ e.errors = d.errors
         /\ e.preserved = d.preserved /\ e.notifications = d.notifications /\ e.observer = d.observer
      BY DEF DriverRec

LEMMA ObserverPut ==
  ASSUME NEW d \in DriverRec, NEW o \in ObserverRec
  PROVE  LET e == [d EXCEPT !.observer = o] IN
         /\ e \in DriverRec
         /\ e.pump = d.pump /\ e.consumer = d.consumer /\ e.drive = d.drive
         /\ e.active = d.active /\ e.selecting = d.selecting /\ e.selected = d.selected
         /\ e.draining = d.draining /\ e.ready = d.ready /\ e.errors = d.errors
         /\ e.preserved = d.preserved /\ e.notifications = d.notifications /\ e.observer = o
      BY DEF DriverRec

LEMMA SelectedPut ==
  ASSUME NEW d \in DriverRec, NEW i \in {0} \cup Ids
  PROVE  LET e == [d EXCEPT !.selected = i] IN
         /\ e \in DriverRec
         /\ e.pump = d.pump /\ e.consumer = d.consumer /\ e.drive = d.drive
         /\ e.active = d.active /\ e.selecting = d.selecting /\ e.selected = i
         /\ e.draining = d.draining /\ e.ready = d.ready /\ e.errors = d.errors
         /\ e.preserved = d.preserved /\ e.notifications = d.notifications /\ e.observer = d.observer
      BY DEF DriverRec

LEMMA PreservedPut ==
  ASSUME NEW d \in DriverRec, NEW q \in Seq(Ids)
  PROVE  LET e == [d EXCEPT !.preserved = q] IN
         /\ e \in DriverRec
         /\ e.pump = d.pump /\ e.consumer = d.consumer /\ e.drive = d.drive
         /\ e.active = d.active /\ e.selecting = d.selecting /\ e.selected = d.selected
         /\ e.draining = d.draining /\ e.ready = d.ready /\ e.errors = d.errors
         /\ e.preserved = q /\ e.notifications = d.notifications /\ e.observer = d.observer
      BY DEF DriverRec

LEMMA NotificationsPut ==
  ASSUME NEW d \in DriverRec, NEW S \in SUBSET Ids
  PROVE  LET e == [d EXCEPT !.notifications = S] IN
         /\ e \in DriverRec
         /\ e.pump = d.pump /\ e.consumer = d.consumer /\ e.drive = d.drive
         /\ e.active = d.active /\ e.selecting = d.selecting /\ e.selected = d.selected
         /\ e.draining = d.draining /\ e.ready = d.ready /\ e.errors = d.errors
         /\ e.preserved = d.preserved /\ e.notifications = S /\ e.observer = d.observer
      BY DEF DriverRec

LEMMA ErrorsPut ==
  ASSUME NEW d \in DriverRec, NEW i \in Int
  PROVE  LET e == [d EXCEPT !.errors = i] IN
         /\ e \in DriverRec
         /\ e.pump = d.pump /\ e.consumer = d.consumer /\ e.drive = d.drive
         /\ e.active = d.active /\ e.selecting = d.selecting /\ e.selected = d.selected
         /\ e.draining = d.draining /\ e.ready = d.ready /\ e.errors = i
         /\ e.preserved = d.preserved /\ e.notifications = d.notifications /\ e.observer = d.observer
      BY DEF DriverRec

LEMMA ConsumerPut ==
  ASSUME NEW d \in DriverRec, NEW b \in BOOLEAN
  PROVE  LET e == [d EXCEPT !.consumer = b] IN
         /\ e \in DriverRec
         /\ e.pump = d.pump /\ e.consumer = b /\ e.drive = d.drive
         /\ e.active = d.active /\ e.selecting = d.selecting /\ e.selected = d.selected
         /\ e.draining = d.draining /\ e.ready = d.ready /\ e.errors = d.errors
         /\ e.preserved = d.preserved /\ e.notifications = d.notifications /\ e.observer = d.observer
      BY DEF DriverRec

LEMMA DrivePut ==
  ASSUME NEW d \in DriverRec, NEW b \in BOOLEAN
  PROVE  LET e == [d EXCEPT !.drive = b] IN
         /\ e \in DriverRec
         /\ e.pump = d.pump /\ e.consumer = d.consumer /\ e.drive = b
         /\ e.active = d.active /\ e.selecting = d.selecting /\ e.selected = d.selected
         /\ e.draining = d.draining /\ e.ready = d.ready /\ e.errors = d.errors
         /\ e.preserved = d.preserved /\ e.notifications = d.notifications /\ e.observer = d.observer
      BY DEF DriverRec

LEMMA ActivePut ==
  ASSUME NEW d \in DriverRec, NEW b \in BOOLEAN
  PROVE  LET e == [d EXCEPT !.active = b] IN
         /\ e \in DriverRec
         /\ e.pump = d.pump /\ e.consumer = d.consumer /\ e.drive = d.drive
         /\ e.active = b /\ e.selecting = d.selecting /\ e.selected = d.selected
         /\ e.draining = d.draining /\ e.ready = d.ready /\ e.errors = d.errors
         /\ e.preserved = d.preserved /\ e.notifications = d.notifications /\ e.observer = d.observer
      BY DEF DriverRec

LEMMA DrainingPut ==
  ASSUME NEW d \in DriverRec, NEW b \in BOOLEAN
  PROVE  LET e == [d EXCEPT !.draining = b] IN
         /\ e \in DriverRec
         /\ e.pump = d.pump /\ e.consumer = d.consumer /\ e.drive = d.drive
         /\ e.active = d.active /\ e.selecting = d.selecting /\ e.selected = d.selected
         /\ e.draining = b /\ e.ready = d.ready /\ e.errors = d.errors
         /\ e.preserved = d.preserved /\ e.notifications = d.notifications /\ e.observer = d.observer
      BY DEF DriverRec

LEMMA SelectingPut ==
  ASSUME NEW d \in DriverRec, NEW b \in BOOLEAN
  PROVE  LET e == [d EXCEPT !.selecting = b] IN
         /\ e \in DriverRec
         /\ e.pump = d.pump /\ e.consumer = d.consumer /\ e.drive = d.drive
         /\ e.active = d.active /\ e.selecting = b /\ e.selected = d.selected
         /\ e.draining = d.draining /\ e.ready = d.ready /\ e.errors = d.errors
         /\ e.preserved = d.preserved /\ e.notifications = d.notifications /\ e.observer = d.observer
      BY DEF DriverRec

LEMMA HaltPut ==
  ASSUME NEW d \in DriverRec, NEW a \in BOOLEAN, NEW b \in BOOLEAN
  PROVE  LET e == [d EXCEPT !.drive = a, !.active = b] IN
         /\ e \in DriverRec
         /\ e.pump = d.pump /\ e.consumer = d.consumer /\ e.drive = a
         /\ e.active = b /\ e.selecting = d.selecting /\ e.selected = d.selected
         /\ e.draining = d.draining /\ e.ready = d.ready /\ e.errors = d.errors
         /\ e.preserved = d.preserved /\ e.notifications = d.notifications /\ e.observer = d.observer
      BY DEF DriverRec

-----------------------------------------------------------------------------
(***************************************************************************)
(* Items: what may change without disturbing who has which.                *)
(***************************************************************************)

LEMMA TurnKept ==
  ASSUME NEW d, NEW e, NEW S, NEW T, InTurn(d, T), S \subseteq T,
         e.preserved = d.preserved, e.selected = d.selected, e.observer = d.observer
  PROVE  InTurn(e, S)
      BY DEF InTurn

\* States make progress: requests are answered, Tasks begin, wait and end.
LEMMA MovesItems ==
  ASSUME NEW x, NEW y \in Managed, NEW n, NEW L, Items(x, n, L),
         \A c \in Clients : /\ y.drv[c].preserved = x.drv[c].preserved
                            /\ y.drv[c].selected = x.drv[c].selected
                            /\ y.drv[c].observer = x.drv[c].observer
                            /\ Listed(y, c),
         \A i \in Ids : /\ y.st[i].kind = x.st[i].kind /\ y.st[i].client = x.st[i].client
                        /\ y.st[i].observer = x.st[i].observer /\ Known(y, i)
                        /\ y.st[i].status = "taken" <=> x.st[i].status = "taken"
                        /\ y.st[i].kind = "LoopTask" /\ y.st[i].status \in Unfinished
                             => x.st[i].status \in Unfinished
  PROVE  /\ Items(y, n, L)
         /\ \A c \in Clients : tasks(y, c) \subseteq tasks(x, c)
<1>1. \A c \in Clients : tasks(y, c) \subseteq tasks(x, c)
  BY DEF tasks
<1>2. \A c \in Clients : taken(y, c) = taken(x, c)
  BY DEF taken
<1>3. \A c \in Clients : InTurn(y.drv[c], tasks(y, c))
  BY ZenonT(40), <1>1, TurnKept DEF Items
<1>4. \A c \in Clients : InPlace(y.drv[c], taken(y, c) \ L)
  BY <1>2 DEF Items, InPlace, isKept
<1>5. \A i \in Ids : OfLoop(y, i, n)
  BY DEF Items, OfLoop
<1>6. \A c \in Clients : Watched(y, c, n)
  BY DEF Items, Watched
<1> QED
  BY <1>1, <1>3, <1>4, <1>5, <1>6 DEF Items

\* The members that say who runs and who is called change, the items do not.
LEMMA SameItems ==
  ASSUME NEW x, NEW y \in Managed, NEW n, NEW L, Items(x, n, L),
         y.st = x.st,
         \A c \in Clients : /\ y.drv[c].preserved = x.drv[c].preserved
                            /\ y.drv[c].selected = x.drv[c].selected
                            /\ y.drv[c].observer = x.drv[c].observer
                            /\ y.drv[c].ready = x.drv[c].ready
                            /\ y.drv[c].notifications = x.drv[c].notifications
  PROVE  Items(y, n, L)
<1>1. ASSUME NEW c \in Clients PROVE Listed(y, c)
  <2>1. Listed(x, c)
    BY DEF Items
  <2>2. y.drv[c].ready = x.drv[c].ready /\ y.drv[c].notifications = x.drv[c].notifications
    OBVIOUS
  <2> QED
    BY Zenon, <2>1, <2>2 DEF Listed
<1>2. \A i \in Ids : Known(y, i)
  BY DEF Items, Known
<1> QED
  BY <1>1, <1>2, MovesItems

\* One item i of client c changes hands: what it was before is not a Task, nor has
\* anybody waited for it.
LEMMA LocalItems ==
  ASSUME NEW x, NEW y \in Managed, NEW n, NEW L, NEW K, NEW c \in Clients, NEW i \in Ids,
         Items(x, n, L),
         \A j \in Ids : j # i => y.st[j] = x.st[j],
         \A e \in Clients : e # c => y.drv[e] = x.drv[e],
         x.st[i].status \notin Begun, x.st[i].client = c \/ x.st[i].status = "none",
         y.st[i].client = c, y.st[i].kind # "none",
         \A j \in Ids : j # i => (j \in K <=> j \in L),
         Known(y, i), OfLoop(y, i, n), y.drv[c].observer.id = x.drv[c].observer.id,
         Listed(y, c), Watched(y, c, n), InTurn(y.drv[c], tasks(y, c)),
         InPlace(y.drv[c], taken(y, c) \ K)
  PROVE  Items(y, n, K)
<1>0. /\ \A j \in Ids : Known(x, j) /\ OfLoop(x, j, n)
      /\ \A e \in Clients : /\ Listed(x, e) /\ Watched(x, e, n)
                            /\ InTurn(x.drv[e], tasks(x, e))
                            /\ InPlace(x.drv[e], taken(x, e) \ L)
  BY DEF Items
<1>1. \A j \in Ids : Known(y, j)
  BY <1>0 DEF Known
<1>2. \A j \in Ids : OfLoop(y, j, n)
  BY <1>0 DEF OfLoop
<1>3. ASSUME NEW e \in Clients, e # c
      PROVE  /\ Listed(y, e) /\ Watched(y, e, n)
             /\ InTurn(y.drv[e], tasks(y, e))
             /\ InPlace(y.drv[e], taken(y, e) \ K)
  <2>1. y.drv[e] = x.drv[e]
    BY <1>3
  <2>2. x.drv[e].ready \in Seq(Ids) /\ x.drv[e].notifications \subseteq Ids
    BY Zenon, ManagedType, DriverType DEF Items
  <2>3. Listed(y, e)
    <3>1. ASSUME NEW k \in DOMAIN x.drv[e].ready
          PROVE  y.st[x.drv[e].ready[k]].status \in Due /\ y.st[x.drv[e].ready[k]].client = e
      <4>1. x.drv[e].ready[k] \in Ids
        BY <2>2
      <4>2. x.st[x.drv[e].ready[k]].status \in Due /\ x.st[x.drv[e].ready[k]].client = e
        BY <1>0 DEF Listed
      <4>3. x.drv[e].ready[k] # i
        BY <4>2 DEF Due
      <4> QED
        BY Zenon, <4>1, <4>2, <4>3
    <3>2. ASSUME NEW t \in x.drv[e].notifications
          PROVE  y.st[t].status = "waiting" /\ y.st[y.st[t].dep].client = e
      <4>1. t \in Ids /\ x.st[t].status = "waiting" /\ x.st[x.st[t].dep].client = e
        BY <1>0, <2>2 DEF Listed
      <4>2. t # i
        BY <4>1 DEF Begun, Unfinished
      <4>3. x.st[t].dep \in Ids /\ x.st[x.st[t].dep].kind # "none"
        BY <1>0, <4>1 DEF Known
      <4>4. x.st[t].dep # i
        BY <1>0, <1>3, <4>1, <4>3 DEF Known
      <4> QED
        BY Zenon, <4>1, <4>2, <4>3, <4>4
    <3> QED
      BY ZenonT(40), <1>0, <2>1, <3>1, <3>2 DEF Listed
  <2>4. tasks(y, e) = tasks(x, e)
    <3>1. i \notin tasks(x, e)
      BY DEF tasks, Begun
    <3>2. i \notin tasks(y, e)
      BY <1>2, <1>3 DEF tasks, OfLoop
    <3> QED
      BY <2>1, <3>1, <3>2 DEF tasks
  <2>5. taken(y, e) \ K = taken(x, e) \ L
    <3>1. i \notin taken(x, e) /\ i \notin taken(y, e)
      BY <1>3 DEF taken
    <3> QED
      BY <3>1 DEF taken
  <2>6. Watched(y, e, n)
    BY <1>0, <2>1 DEF Watched
  <2> QED
    BY <1>0, <2>1, <2>3, <2>4, <2>5, <2>6
<1> QED
  BY <1>1, <1>2, <1>3 DEF Items

-----------------------------------------------------------------------------
(***************************************************************************)
(* One item changes hands.                                                 *)
(***************************************************************************)

LEMMA HeldState ==
  ASSUME NEW x, NEW n, NEW c, NEW i, Held(x, n, c, i)
  PROVE  /\ x.st[i] \in StateRec /\ x.drv[c] \in DriverRec /\ x \in Managed
         /\ x.st[i].kind # "none" /\ x.st[i].status \notin Begun
         /\ Known(x, i) /\ OfLoop(x, i, n) /\ Listed(x, c) /\ Watched(x, c, n)
         /\ InTurn(x.drv[c], tasks(x, c)) /\ InPlace(x.drv[c], taken(x, c) \ {i})
         /\ ~isKept(x.drv[c], i) /\ i \notin tasks(x, c)
<1>1. x \in Managed /\ Known(x, i) /\ OfLoop(x, i, n)
  BY DEF Held, Items
<1>2. /\ Listed(x, c) /\ Watched(x, c, n)
      /\ InTurn(x.drv[c], tasks(x, c)) /\ InPlace(x.drv[c], taken(x, c) \ {i})
  BY DEF Held, Items
<1>3. x.st[i].kind # "none" /\ x.st[i].status \notin Begun
  BY <1>1 DEF Known, Held, Begun, Unfinished
<1>4. ~isKept(x.drv[c], i)
  BY <1>2 DEF Held, InPlace
<1>5. i \notin tasks(x, c)
  BY <1>3 DEF tasks, Begun
<1> QED
  BY <1>1, <1>2, <1>3, <1>4, <1>5, ManagedType DEF Held

LEMMA AppendOnce ==
  ASSUME NEW q \in Seq(Ids), NEW i, OnceEach(q), \A k \in DOMAIN q : q[k] # i
  PROVE  OnceEach(Append(q, i))
<1>1. /\ Append(q, i)[Len(q) + 1] = i /\ \A k \in 1 .. Len(q) : Append(q, i)[k] = q[k]
      /\ DOMAIN q = 1 .. Len(q) /\ DOMAIN Append(q, i) = 1 .. Len(q) + 1 /\ Len(q) \in Nat
  OBVIOUS
<1>2. \A k \in 1 .. Len(q) + 1 : k \in 1 .. Len(q) \/ k = Len(q) + 1
  BY <1>1
<1> QED
  BY <1>1, <1>2 DEF OnceEach

LEMMA ListedLocal ==
  ASSUME NEW x \in Managed, NEW y, NEW c \in Clients, NEW i \in Ids, Local(x, y, c, i),
         \A j \in Ids : Known(x, j), Listed(x, c), x.st[i].status \notin Begun,
         x.st[i].client = c \/ x.st[i].status = "none", y.st[i].client = c,
         \/ y.drv[c].ready = x.drv[c].ready
         \/ y.drv[c].ready = Append(x.drv[c].ready, i) /\ y.st[i].status \in Due,
         y.drv[c].notifications = x.drv[c].notifications
  PROVE  Listed(y, c)
<1>1. x.drv[c].ready \in Seq(Ids) /\ x.drv[c].notifications \subseteq Ids
  BY Zenon, ManagedType, DriverType
<1>2. ASSUME NEW k \in DOMAIN x.drv[c].ready
      PROVE  y.st[x.drv[c].ready[k]].status \in Due /\ y.st[x.drv[c].ready[k]].client = c /\ x.drv[c].ready[k] # i
  <2>1. x.drv[c].ready[k] \in Ids
    BY <1>1
  <2>2. x.st[x.drv[c].ready[k]].status \in Due /\ x.st[x.drv[c].ready[k]].client = c
    BY DEF Listed
  <2>3. x.drv[c].ready[k] # i
    BY <2>2 DEF Due
  <2> QED
    BY <2>1, <2>2, <2>3 DEF Local
<1>3. \A k \in DOMAIN y.drv[c].ready :
        y.st[y.drv[c].ready[k]].status \in Due /\ y.st[y.drv[c].ready[k]].client = c
  <2>1. CASE y.drv[c].ready = x.drv[c].ready
    BY Zenon, <1>2, <2>1
  <2>2. CASE y.drv[c].ready = Append(x.drv[c].ready, i) /\ y.st[i].status \in Due
    <3>1. ASSUME NEW k \in DOMAIN y.drv[c].ready
          PROVE  \/ k \in DOMAIN x.drv[c].ready /\ y.drv[c].ready[k] = x.drv[c].ready[k]
                 \/ y.drv[c].ready[k] = i
      BY <1>1, <2>2
    <3> QED
      BY <1>2, <2>2, <3>1
  <2> QED
    BY Zenon, <2>1, <2>2
<1>4. ASSUME NEW t \in y.drv[c].notifications
      PROVE  y.st[t].status = "waiting" /\ y.st[y.st[t].dep].client = c
  <2>1. t \in Ids /\ x.st[t].status = "waiting" /\ x.st[x.st[t].dep].client = c
    BY <1>1 DEF Listed
  <2>2. t # i
    BY <2>1 DEF Begun, Unfinished
  <2>3. y.st[t] = x.st[t] /\ x.st[t].dep \in Ids
    BY <2>1, <2>2 DEF Known, Local
  <2>4. CASE x.st[t].dep = i
    BY <2>1, <2>3, <2>4
  <2>5. CASE x.st[t].dep # i
    BY <2>1, <2>3, <2>5 DEF Local
  <2> QED
    BY Zenon, <2>4, <2>5
<1>5. OnceEach(y.drv[c].ready)
  <2>1. OnceEach(x.drv[c].ready)
    BY DEF Listed
  <2>2. CASE y.drv[c].ready = x.drv[c].ready
    BY Zenon, <2>1, <2>2
  <2>3. CASE y.drv[c].ready = Append(x.drv[c].ready, i)
    BY <1>1, <1>2, <2>1, <2>3, AppendOnce
  <2> QED
    BY Zenon, <2>2, <2>3
<1> QED
  BY Zenon, <1>3, <1>4, <1>5 DEF Listed

\* Whoever holds an item may put it down: what is left to show is that it is in turn
\* and in its place.
LEMMA PutDown ==
  ASSUME NEW x, NEW y, NEW n, NEW c, NEW i, NEW K, Held(x, n, c, i), Local(x, y, c, i),
         K = {} \/ K = {i},
         y.st[i].kind # "none", y.st[i].client = c,
         y.st[i].status \in {"taken", "dropped", "done", "ready"},
         OfLoop(y, i, n), y.drv[c].observer.id = x.drv[c].observer.id,
         Watched(y, c, n), ListsKept(x, y, c, i),
         InTurn(y.drv[c], tasks(y, c)), InPlace(y.drv[c], taken(y, c) \ K)
  PROVE  Items(y, n, K)
<1>0. c \in Clients /\ i \in Ids /\ Items(x, n, {i}) /\ x.st[i].client = c
  BY DEF Held
<1>1. /\ x \in Managed /\ x.st[i].status \notin Begun /\ Listed(x, c)
      /\ \A j \in Ids : Known(x, j)
  BY <1>0, HeldState DEF Items
<1>2. Listed(y, c)
  BY <1>0, <1>1, ListedLocal DEF ListsKept, Due, Begun, Unfinished
<1>3. Known(y, i)
  BY <1>0 DEF Known
<1>4. \A j \in Ids : j # i => (j \in K <=> j \in {i})
  BY <1>0
<1>5. /\ y \in Managed /\ \A j \in Ids : j # i => y.st[j] = x.st[j]
      /\ \A e \in Clients : e # c => y.drv[e] = x.drv[e]
  BY DEF Local
<1> QED
  BY <1>0, <1>1, <1>2, <1>3, <1>4, <1>5, LocalItems

LEMMA SameWatched ==
  ASSUME NEW x, NEW y, NEW n, NEW c \in Clients, Watched(x, c, n),
         \A e \in Clients \ {c} : y.drv[e].observer.id = x.drv[e].observer.id,
         y.drv[c].observer = x.drv[c].observer
  PROVE  Watched(y, c, n)
      BY DEF Watched

LEMMA SameOfLoop ==
  ASSUME NEW x, NEW y, NEW n, NEW i, OfLoop(x, i, n),
         \A e \in Clients : y.drv[e].observer.id = x.drv[e].observer.id,
         \/ y.st[i].kind # "LoopTask"
         \/ /\ y.st[i].kind = x.st[i].kind /\ y.st[i].observer = x.st[i].observer
            /\ y.st[i].client = x.st[i].client
  PROVE  OfLoop(y, i, n)
      BY DEF OfLoop

\* The Tasks of the loop and the items of the client, but for i.
LEMMA LocalSets ==
  ASSUME NEW x, NEW y, NEW c, NEW i, NEW n, Held(x, n, c, i), Local(x, y, c, i),
         y.drv[c].observer.id = x.drv[c].observer.id
  PROVE  /\ tasks(x, c) \subseteq tasks(y, c) /\ tasks(y, c) \subseteq tasks(x, c) \cup {i}
         /\ y.st[i].status = "ready" /\ y.st[i].kind = "LoopTask"
              /\ y.st[i].observer = y.drv[c].observer.id => i \in tasks(y, c)
         /\ (y.st[i].kind # "LoopTask" \/ y.st[i].status \notin Unfinished) => tasks(y, c) = tasks(x, c)
         /\ taken(x, c) \ {i} = taken(y, c) \ {i}
         /\ y.st[i].status # "taken" => taken(y, c) = taken(x, c) \ {i}
         /\ y.st[i].status = "taken" /\ y.st[i].client = c => taken(y, c) = taken(x, c)
<1>1. i \notin tasks(x, c) /\ i \in Ids
  BY HeldState DEF Held
<1>2. \A j \in Ids : j # i => y.st[j] = x.st[j]
  BY DEF Local
<1>3. \A j \in Ids : j # i => (j \in tasks(y, c) <=> j \in tasks(x, c))
  BY <1>2 DEF tasks
<1>4. \A j \in Ids : j # i => (j \in taken(y, c) <=> j \in taken(x, c))
  BY <1>2 DEF taken
<1>5. i \in taken(x, c)
  BY <1>1 DEF taken, Held
<1>6. tasks(x, c) \subseteq Ids /\ tasks(y, c) \subseteq Ids
      /\ taken(x, c) \subseteq Ids /\ taken(y, c) \subseteq Ids
  BY DEF tasks, taken
<1>7. i \in taken(y, c) <=> y.st[i].status = "taken" /\ y.st[i].client = c
  BY <1>1 DEF taken
<1>8. i \in tasks(y, c) <=> /\ y.st[i].kind = "LoopTask" /\ y.st[i].observer = y.drv[c].observer.id
                            /\ y.st[i].status \in Unfinished
  BY <1>1 DEF tasks
<1>9. "ready" \in Unfinished
  BY DEF Unfinished
<1> HIDE DEF tasks, taken, Unfinished
<1> QED
  BY <1>1, <1>3, <1>4, <1>5, <1>6, <1>7, <1>8, <1>9

\* Dropped, handed to the caller of poll(), or to a Task of a poll.
LEMMA GiveItems ==
  ASSUME NEW x, NEW y, NEW n, NEW c, NEW i, Held(x, n, c, i), Local(x, y, c, i),
         y.st[i].kind # "none", y.st[i].client = c,
         y.st[i].status \in {"dropped", "done", "ready"},
         y.st[i].kind = "LoopTask"
           => y.st[i].status # "ready" /\ x.st[i].kind = "LoopTask" /\ y.st[i].observer = x.st[i].observer,
         y.drv[c].preserved = x.drv[c].preserved, y.drv[c].selected = x.drv[c].selected,
         y.drv[c].observer = x.drv[c].observer,
         ListsKept(x, y, c, i)
  PROVE  Items(y, n, {})
<1>0. c \in Clients /\ i \in Ids /\ x.st[i].client = c
  BY DEF Held
<1>1. /\ OfLoop(x, i, n) /\ Watched(x, c, n) /\ InTurn(x.drv[c], tasks(x, c))
      /\ InPlace(x.drv[c], taken(x, c) \ {i})
  BY HeldState
<1>2. \A e \in Clients : y.drv[e].observer = x.drv[e].observer
  BY DEF Local
<1>3. OfLoop(y, i, n)
  BY <1>0, <1>1, <1>2, SameOfLoop
<1>4. Watched(y, c, n)
  BY <1>0, <1>1, <1>2, SameWatched
<1>5. tasks(y, c) = tasks(x, c) /\ taken(y, c) = taken(x, c) \ {i}
  BY <1>2, <1>0, LocalSets DEF Unfinished
<1>6. InTurn(y.drv[c], tasks(y, c))
  BY <1>1, <1>5, TurnKept
<1>7. InPlace(y.drv[c], taken(y, c) \ {})
  BY <1>1, <1>5 DEF InPlace, isKept
<1> QED
  BY <1>0, <1>2, <1>3, <1>4, <1>6, <1>7, PutDown

LEMMA AppendHas ==
  ASSUME NEW q \in Seq(Ids), NEW i \in Ids
  PROVE  \A j : has(Append(q, i), j) <=> has(q, j) \/ j = i
<1>1. /\ Len(Append(q, i)) = Len(q) + 1 /\ Append(q, i)[Len(q) + 1] = i
      /\ \A k \in 1 .. Len(q) : Append(q, i)[k] = q[k]
      /\ DOMAIN q = 1 .. Len(q) /\ DOMAIN Append(q, i) = 1 .. Len(q) + 1 /\ Len(q) \in Nat
  OBVIOUS
<1>2. \A k \in 1 .. Len(q) + 1 : k \in 1 .. Len(q) \/ k = Len(q) + 1
  BY <1>1
<1>3. 1 .. Len(q) \subseteq 1 .. Len(q) + 1 /\ Len(q) + 1 \in 1 .. Len(q) + 1
  BY <1>1
<1> QED
  BY <1>1, <1>2, <1>3 DEF has

LEMMA AppendRises ==
  ASSUME NEW q \in Seq(Ids), NEW i \in Ids, Rises(q), \A j \in Ids : has(q, j) => j < i
  PROVE  Rises(Append(q, i))
<1>1. /\ Append(q, i)[Len(q) + 1] = i /\ \A k \in 1 .. Len(q) : Append(q, i)[k] = q[k]
      /\ DOMAIN q = 1 .. Len(q) /\ DOMAIN Append(q, i) = 1 .. Len(q) + 1 /\ Len(q) \in Nat
      /\ \A k \in 1 .. Len(q) : q[k] \in Ids
  OBVIOUS
<1>2. \A k \in 1 .. Len(q) : q[k] < i
  BY <1>1 DEF has
<1>3. ASSUME NEW j \in 1 .. Len(q) + 1, NEW k \in 1 .. Len(q) + 1, j < k
      PROVE  Append(q, i)[j] < Append(q, i)[k]
  <2>1. j \in 1 .. Len(q)
    BY <1>1, <1>3
  <2>2. CASE k \in 1 .. Len(q)
    BY <1>1, <1>3, <2>1, <2>2 DEF Rises
  <2>3. CASE k = Len(q) + 1
    BY <1>1, <1>2, <2>1, <2>3
  <2> QED
    BY <1>1, <2>2, <2>3
<1> QED
  BY <1>1, <1>3 DEF Rises

LEMMA AppendAbove ==
  ASSUME NEW q \in Seq(Ids), NEW i \in Ids, NEW j \in Ids
  PROVE  Above(j, Append(q, i)) <=> Above(j, q) /\ j < i
<1>1. /\ Append(q, i)[Len(q) + 1] = i /\ \A k \in 1 .. Len(q) : Append(q, i)[k] = q[k]
      /\ DOMAIN q = 1 .. Len(q) /\ DOMAIN Append(q, i) = 1 .. Len(q) + 1 /\ Len(q) \in Nat
  OBVIOUS
<1>2. \A k \in 1 .. Len(q) + 1 : k \in 1 .. Len(q) \/ k = Len(q) + 1
  BY <1>1
<1>3. 1 .. Len(q) \subseteq 1 .. Len(q) + 1 /\ Len(q) + 1 \in 1 .. Len(q) + 1
  BY <1>1
<1> QED
  BY <1>1, <1>2, <1>3 DEF Above

LEMMA AboveHas ==
  ASSUME NEW q \in Seq(Ids), NEW i \in Ids
  PROVE  Above(i, q) <=> \A j \in Ids : has(q, j) => i < j
      BY DEF Above, has

LEMMA EmptyHas == \A j : ~has(<<>>, j)
      BY DEF has

\* A fresh raw response that nobody wants yet is kept behind all others.
LEMMA PreserveItems ==
  ASSUME NEW x, NEW y, NEW n, NEW c, NEW i, Held(x, n, c, i), Local(x, y, c, i),
         y.st[i] = x.st[i], x.st[i].kind # "LoopTask",
         y.drv[c].preserved = Append(x.drv[c].preserved, i),
         y.drv[c].selected = x.drv[c].selected, y.drv[c].observer = x.drv[c].observer,
         ListsKept(x, y, c, i),
         \A j \in Ids : isKept(x.drv[c], j) \/ j \in tasks(x, c) => j < i
  PROVE  Items(y, n, {})
<1> DEFINE d == x.drv[c]
           e == y.drv[c]
<1>0. c \in Clients /\ i \in Ids /\ x.st[i].client = c /\ x.st[i].status = "taken"
  BY DEF Held
<1>1. /\ OfLoop(x, i, n) /\ Watched(x, c, n) /\ InTurn(d, tasks(x, c))
      /\ InPlace(d, taken(x, c) \ {i}) /\ ~isKept(d, i) /\ x.st[i].kind # "none"
      /\ d.preserved \in Seq(Ids) /\ d.selected \in {0} \cup Ids
  BY HeldState, DriverType
<1>2. \A b \in Clients : y.drv[b].observer = x.drv[b].observer
  BY DEF Local
<1>3. OfLoop(y, i, n)
  BY <1>0, <1>1, <1>2, SameOfLoop
<1>4. Watched(y, c, n)
  BY <1>0, <1>1, <1>2, SameWatched
<1>5. tasks(y, c) = tasks(x, c) /\ taken(y, c) = taken(x, c) /\ i \in taken(x, c)
  BY <1>2, <1>0, LocalSets DEF Unfinished, taken
<1>6. InTurn(e, tasks(y, c))
  <2>1. Rises(e.preserved)
    BY <1>0, <1>1, AppendRises DEF InTurn, isKept
  <2>2. d.selected # 0 => d.selected < i
    BY <1>1 DEF isKept
  <2>3. d.selected # 0 => Above(d.selected, e.preserved)
    BY <1>0, <1>1, <2>2, AppendAbove DEF InTurn
  <2>4. ~d.observer.concurrent /\ ~d.observer.stopped
          => /\ \A j \in tasks(x, c) : Above(j, e.preserved)
             /\ \A j \in Ids : has(d.observer.queue, j) => Above(j, e.preserved)
    <3>1. tasks(x, c) \subseteq Ids
      BY DEF tasks
    <3>2. ASSUME NEW j \in Ids, j < i, Above(j, d.preserved) PROVE Above(j, e.preserved)
      BY <1>0, <1>1, <3>2, AppendAbove
    <3> QED
      BY <1>1, <3>1, <3>2 DEF InTurn, isKept
  <2>5. /\ Rises(d.observer.queue) /\ e.selected = d.selected /\ e.observer = d.observer
        /\ ~d.observer.concurrent =>
             /\ \A j, k \in tasks(x, c) : j = k
             /\ \A j \in tasks(x, c) : Above(j, d.observer.queue)
             /\ ~d.observer.active => tasks(x, c) = {} /\ d.observer.queue = <<>>
    BY <1>1 DEF InTurn
  <2> HIDE DEF d, e
  <2> QED
    BY <1>5, <2>1, <2>3, <2>4, <2>5 DEF InTurn
<1>7. InPlace(e, taken(y, c) \ {})
  <2>1. \A j : has(e.preserved, j) <=> has(d.preserved, j) \/ j = i
    BY <1>0, <1>1, AppendHas
  <2>2. e.selected = d.selected /\ e.observer = d.observer
    OBVIOUS
  <2> HIDE DEF d, e
  <2> QED
    BY <1>0, <1>1, <1>5, <2>1, <2>2 DEF InPlace, isKept
<1> QED
  BY <1>0, <1>1, <1>2, <1>3, <1>4, <1>6, <1>7, PutDown

\* A poll that has none takes the eldest item.
LEMMA SelectItems ==
  ASSUME NEW x, NEW y, NEW n, NEW c, NEW i, Held(x, n, c, i), Local(x, y, c, i),
         y.st[i] = x.st[i],
         y.drv[c].preserved = x.drv[c].preserved,
         x.drv[c].selected = 0, y.drv[c].selected = i,
         y.drv[c].observer = x.drv[c].observer,
         ListsKept(x, y, c, i),
         NextInLine(x.drv[c], tasks(x, c), i)
  PROVE  Items(y, n, {})
<1> DEFINE d == x.drv[c]
           e == y.drv[c]
<1>0. c \in Clients /\ i \in Ids /\ x.st[i].client = c /\ x.st[i].status = "taken" /\ i # 0
  BY IdsNat DEF Held
<1>1. /\ OfLoop(x, i, n) /\ Watched(x, c, n) /\ InTurn(d, tasks(x, c))
      /\ InPlace(d, taken(x, c) \ {i}) /\ ~isKept(d, i) /\ x.st[i].kind # "none"
  BY HeldState
<1>2. \A b \in Clients : y.drv[b].observer = x.drv[b].observer
  BY DEF Local
<1>3. OfLoop(y, i, n)
  BY <1>0, <1>1, <1>2, SameOfLoop
<1>4. Watched(y, c, n)
  BY <1>0, <1>1, <1>2, SameWatched
<1>5. tasks(y, c) = tasks(x, c) /\ taken(y, c) = taken(x, c) /\ i \in taken(x, c)
  <2>1. y.st = x.st \/ \A j \in Ids : y.st[j] = x.st[j]
    BY DEF Local
  <2> QED
    BY <1>0, <1>2, <2>1 DEF tasks, taken
<1>6. InTurn(e, tasks(y, c))
  BY <1>0, <1>1, <1>5 DEF InTurn, NextInLine
<1>7. InPlace(e, taken(y, c) \ {})
  <2>1. e.preserved = d.preserved /\ e.selected = i /\ e.observer = d.observer /\ d.selected = 0
    OBVIOUS
  <2>2. 0 \notin Ids
    BY Zenon, IdsNat
  <2> HIDE DEF d, e
  <2> QED
    BY <1>0, <1>1, <1>5, <2>1, <2>2 DEF InPlace, isKept
<1> QED
  BY <1>0, <1>1, <1>2, <1>3, <1>4, <1>6, <1>7, PutDown

\* A serial loop at work queues the item behind the others.
LEMMA QueueItems ==
  ASSUME NEW x, NEW y, NEW n, NEW c, NEW i, Held(x, n, c, i), Local(x, y, c, i),
         y.st[i] = x.st[i],
         y.drv[c].preserved = x.drv[c].preserved, y.drv[c].selected = x.drv[c].selected,
         y.drv[c].observer.id = x.drv[c].observer.id,
         ~y.drv[c].observer.concurrent, y.drv[c].observer.active, ~y.drv[c].observer.stopped,
         y.drv[c].observer.queue = Append(x.drv[c].observer.queue, i),
         ~x.drv[c].observer.concurrent, x.drv[c].observer.active,
         ~x.drv[c].observer.stopped, x.drv[c].observer.id # 0,
         ListsKept(x, y, c, i),
         NextInLine(x.drv[c], tasks(x, c), i)
  PROVE  Items(y, n, {})
<1> DEFINE d == x.drv[c]
           e == y.drv[c]
           o == d.observer
           p == e.observer
<1>0. c \in Clients /\ i \in Ids /\ x.st[i].client = c /\ x.st[i].status = "taken" /\ i # 0
  BY Zenon, IdsNat DEF Held
<1>1. /\ OfLoop(x, i, n) /\ Watched(x, c, n) /\ InTurn(d, tasks(x, c))
      /\ InPlace(d, taken(x, c) \ {i}) /\ ~isKept(d, i) /\ x.st[i].kind # "none"
  BY HeldState
<1>2. /\ o \in ObserverRec /\ o.queue \in Seq(Ids) /\ o.id \in Nat
      /\ d.preserved \in Seq(Ids)
  BY HeldState, DriverType, ObserverType
<1>3. /\ p.id = o.id /\ ~p.concurrent /\ p.active /\ ~o.concurrent /\ ~o.stopped /\ o.id # 0
      /\ ~p.stopped /\ p.queue = Append(o.queue, i)
  BY Zenon
<1>4. \A b \in Clients : y.drv[b].observer.id = x.drv[b].observer.id
  BY Zenon, <1>3 DEF Local
<1>5. OfLoop(y, i, n)
  BY Zenon, <1>0, <1>1, <1>4, SameOfLoop
<1>6. Watched(y, c, n)
  <2>1. /\ \A b \in Clients \ {c} : x.drv[b].observer.id = o.id => o.id = 0
        /\ o.id <= n /\ o.id # 0
    BY Zenon, <1>1 DEF Watched
  <2>2. ~p.stopped /\ ~p.concurrent /\ p.id <= n /\ p.id # 0
    BY Zenon, <1>3, <2>1
  <2>3. \A b \in Clients \ {c} : y.drv[b].observer.id = p.id => p.id = 0
    BY Zenon, <1>3, <1>4, <2>1
  <2> QED
    BY Zenon, <2>2, <2>3 DEF Watched
<1>7. tasks(y, c) = tasks(x, c) /\ taken(y, c) = taken(x, c) /\ i \in taken(x, c)
      /\ tasks(x, c) \subseteq Ids
  <2>1. \A j \in Ids : y.st[j] = x.st[j]
    BY Zenon DEF Local
  <2> QED
    <3>1. tasks(y, c) = tasks(x, c)
      BY Zenon, <1>0, <1>4, <2>1 DEF tasks
    <3>2. taken(y, c) = taken(x, c)
      BY Zenon, <2>1 DEF taken
    <3>3. i \in taken(x, c)
      BY Zenon, <1>0 DEF taken
    <3>4. tasks(x, c) \subseteq Ids
      BY Zenon DEF tasks
    <3> QED
      BY Zenon, <3>1, <3>2, <3>3, <3>4
<1>8. \A j : has(p.queue, j) <=> has(o.queue, j) \/ j = i
  <2>1. \A j : has(Append(o.queue, i), j) <=> has(o.queue, j) \/ j = i
    BY Zenon, <1>0, <1>2, AppendHas
  <2> QED
    BY Zenon, <1>3, <2>1
<1>9. InTurn(e, tasks(y, c))
  <2>1. Rises(p.queue)
    BY Zenon, <1>0, <1>1, <1>2, <1>3, AppendRises DEF InTurn, NextInLine
  <2>2. ASSUME NEW j \in tasks(x, c) PROVE Above(j, p.queue)
    <3>1. Above(j, o.queue) /\ j < i /\ j \in Ids
      BY Zenon, <1>1, <1>3, <1>7 DEF InTurn, NextInLine
    <3>2. Above(j, Append(o.queue, i))
      BY Zenon, <1>0, <1>2, <3>1, AppendAbove
    <3> QED
      BY Zenon, <1>3, <3>2
  <2>3. \A j \in Ids : has(p.queue, j) => Above(j, d.preserved)
    BY Zenon, <1>1, <1>8 DEF InTurn, NextInLine
  <2>4. /\ Rises(d.preserved) /\ (d.selected # 0 => Above(d.selected, d.preserved))
        /\ \A j, k \in tasks(x, c) : j = k
        /\ \A j \in tasks(x, c) : Above(j, d.preserved)
    BY Zenon, <1>1 DEF InTurn
  <2>5. e.preserved = d.preserved /\ e.selected = d.selected
    BY Zenon
  <2>6. p.active /\ ~p.concurrent
    BY Zenon, <1>3
  <2>7. e.observer = p
    BY Zenon
  <2> HIDE DEF d, e, o, p
  <2> QED
    BY Zenon, <1>7, <2>1, <2>2, <2>3, <2>4, <2>5, <2>6, <2>7 DEF InTurn
<1>10. InPlace(e, taken(y, c) \ {})
  <2>1. e.preserved = d.preserved /\ e.selected = d.selected /\ e.observer = p /\ d.observer = o
    BY Zenon
  <2> HIDE DEF d, e, o, p
  <2> QED
    BY Zenon, <1>0, <1>1, <1>7, <1>8, <2>1 DEF InPlace, isKept
<1>11. y.drv[c].observer.id = x.drv[c].observer.id
  BY Zenon, <1>3
<1>12. y.st[i].kind # "none" /\ y.st[i].client = c /\ y.st[i].status \in {"taken", "ready"}
  BY <1>0, <1>1
<1> QED
  BY <1>0, <1>1, <1>5, <1>6, <1>9, <1>10, <1>11, <1>12, PutDown

\* A loop begins a Task for the item; a serial one has none and queues none before it.
LEMMA BeginItems ==
  ASSUME NEW x, NEW y, NEW n, NEW c, NEW i, Held(x, n, c, i), Local(x, y, c, i),
         y.st[i].kind = "LoopTask", y.st[i].client = c, y.st[i].status = "ready",
         y.st[i].observer = x.drv[c].observer.id,
         y.drv[c].preserved = x.drv[c].preserved, y.drv[c].selected = x.drv[c].selected,
         y.drv[c].observer.id = x.drv[c].observer.id,
         y.drv[c].observer.concurrent = x.drv[c].observer.concurrent,
         y.drv[c].observer.active, ~y.drv[c].observer.stopped,
         y.drv[c].observer.queue = x.drv[c].observer.queue,
         ~x.drv[c].observer.stopped, x.drv[c].observer.id # 0,
         ~x.drv[c].observer.concurrent => tasks(x, c) = {} /\ Above(i, x.drv[c].observer.queue),
         ListsKept(x, y, c, i),
         Above(i, x.drv[c].preserved)
  PROVE  Items(y, n, {})
<1> DEFINE d == x.drv[c]
           e == y.drv[c]
           o == d.observer
           p == e.observer
<1>0. c \in Clients /\ i \in Ids /\ x.st[i].client = c /\ x.st[i].status = "taken" /\ i # 0
  BY IdsNat DEF Held
<1>1. /\ OfLoop(x, i, n) /\ Watched(x, c, n) /\ InTurn(d, tasks(x, c))
      /\ InPlace(d, taken(x, c) \ {i}) /\ ~isKept(d, i) /\ x.st[i].kind # "none"
  BY HeldState
<1>2. /\ o \in ObserverRec /\ o.queue \in Seq(Ids) /\ o.id \in Nat
      /\ d.preserved \in Seq(Ids) /\ n \in Nat
  BY HeldState, DriverType, ObserverType DEF Held, Items
<1>3. /\ p.id = o.id /\ p.concurrent = o.concurrent /\ p.active
      /\ ~p.stopped /\ ~o.stopped /\ p.queue = o.queue
  OBVIOUS
<1>4. \A b \in Clients : y.drv[b].observer.id = x.drv[b].observer.id
  BY <1>3 DEF Local
<1>5a. /\ \A b \in Clients \ {c} : x.drv[b].observer.id = o.id => o.id = 0
       /\ o.id <= n /\ o.id # 0
       /\ o.stopped \/ o.concurrent => o.queue = <<>>
  BY <1>1 DEF Watched
<1>5. OfLoop(y, i, n)
  BY <1>0, <1>2, <1>4, <1>5a DEF OfLoop
<1>6. Watched(y, c, n)
  <2>2. (p.stopped \/ p.concurrent => p.queue = <<>>) /\ p.id <= n /\ p.id # 0
    BY <1>3, <1>5a
  <2>3. \A b \in Clients \ {c} : y.drv[b].observer.id = p.id => p.id = 0
    BY <1>3, <1>4, <1>5a
  <2> QED
    BY <2>2, <2>3 DEF Watched
<1>7. /\ tasks(y, c) \subseteq tasks(x, c) \cup {i} /\ taken(y, c) = taken(x, c) \ {i}
  <2>1. y.drv[c].observer.id = x.drv[c].observer.id /\ y.st[i].status # "taken"
    BY <1>3
  <2> QED
    BY <2>1, LocalSets
<1>9. InTurn(e, tasks(y, c))
  <2>1. /\ Rises(d.preserved) /\ (d.selected # 0 => Above(d.selected, d.preserved))
        /\ Rises(o.queue)
        /\ ~o.concurrent /\ ~o.stopped => \A j \in Ids : has(o.queue, j) => Above(j, d.preserved)
    BY <1>1 DEF InTurn
  <2>2. ~o.concurrent => /\ tasks(y, c) \subseteq {i} /\ Above(i, o.queue)
    BY <1>7
  <2>3. Above(i, d.preserved)
    OBVIOUS
  <2>4. ~o.concurrent => /\ \A j, k \in tasks(y, c) : j = k
                         /\ \A j \in tasks(y, c) : Above(j, o.queue) /\ Above(j, d.preserved)
    BY <2>2, <2>3
  <2>5. e.preserved = d.preserved /\ e.selected = d.selected /\ e.observer = p
    OBVIOUS
  <2> HIDE DEF d, e, o, p
  <2> QED
    BY <1>3, <2>1, <2>4, <2>5 DEF InTurn
<1>10. InPlace(e, taken(y, c) \ {})
  <2>1. e.preserved = d.preserved /\ e.selected = d.selected /\ e.observer = p /\ d.observer = o
    OBVIOUS
  <2> HIDE DEF d, e, o, p
  <2> QED
    BY <1>0, <1>1, <1>3, <1>7, <2>1 DEF InPlace, isKept
<1>11. y.drv[c].observer.id = x.drv[c].observer.id
  BY <1>3
<1>12. y.st[i].kind # "none" /\ y.st[i].client = c /\ y.st[i].status \in {"taken", "ready"}
  BY <1>0, <1>1
<1> QED
  BY <1>0, <1>1, <1>5, <1>6, <1>9, <1>10, <1>11, <1>12, PutDown

-----------------------------------------------------------------------------
(***************************************************************************)
(* An item is picked up, or comes into being.                              *)
(***************************************************************************)

LEMMA TailHas ==
  ASSUME NEW q \in Seq(Ids), q # <<>>, Rises(q)
  PROVE  /\ Head(q) \in Ids /\ Tail(q) \in Seq(Ids) /\ has(q, Head(q))
         /\ \A j : has(q, j) <=> j = Head(q) \/ has(Tail(q), j)
         /\ Rises(Tail(q)) /\ Above(Head(q), Tail(q)) /\ ~has(Tail(q), Head(q))
<1>1. /\ Len(q) \in Nat \ {0} /\ DOMAIN q = 1 .. Len(q) /\ Head(q) = q[1]
      /\ Tail(q) \in Seq(Ids) /\ DOMAIN Tail(q) = 1 .. Len(q) - 1
      /\ \A k \in 1 .. Len(q) - 1 : Tail(q)[k] = q[k + 1]
      /\ \A k \in 1 .. Len(q) : q[k] \in Ids
  OBVIOUS
<1>2. \A k \in 1 .. Len(q) - 1 : k + 1 \in 1 .. Len(q) /\ 1 < k + 1
  BY <1>1
<1>3. \A k \in 1 .. Len(q) : k = 1 \/ (k - 1 \in 1 .. Len(q) - 1 /\ Tail(q)[k - 1] = q[k])
  BY <1>1
<1>4. 1 \in 1 .. Len(q)
  BY <1>1
<1>5. Head(q) \in Ids /\ has(q, Head(q))
  BY <1>1, <1>4 DEF has
<1>6. \A j : has(q, j) <=> j = Head(q) \/ has(Tail(q), j)
  BY <1>1, <1>2, <1>3, <1>4 DEF has
<1>7. Rises(Tail(q))
  <2>1. ASSUME NEW j \in 1 .. Len(q) - 1, NEW k \in 1 .. Len(q) - 1, j < k
        PROVE  Tail(q)[j] < Tail(q)[k]
    <3>1. j + 1 \in 1 .. Len(q) /\ k + 1 \in 1 .. Len(q) /\ j + 1 < k + 1
      BY <1>1, <2>1
    <3> QED
      BY <1>1, <3>1 DEF Rises
  <2> QED
    BY <1>1, <2>1 DEF Rises
<1>8. \A k \in 1 .. Len(q) - 1 : Head(q) < Tail(q)[k]
  BY <1>1, <1>2, <1>4 DEF Rises
<1>9. Above(Head(q), Tail(q))
  BY <1>1, <1>8 DEF Above
<1>10. ~has(Tail(q), Head(q))
  <2>1. Head(q) \in Nat
    <3>1. PICK h : h = Head(q)
      OBVIOUS
    <3>2. h \in Nat
      BY <1>5, <3>1, IdsNat
    <3> QED
      BY <3>1, <3>2
  <2>2. \A k \in 1 .. Len(q) - 1 : Tail(q)[k] # Head(q)
    BY <1>8, <2>1
  <2> QED
    BY <1>1, <2>2 DEF has
<1> QED
  BY <1>1, <1>5, <1>6, <1>7, <1>9, <1>10

\* What is picked up leaves its place.
LEMMA PickUp ==
  ASSUME NEW x, NEW y \in Managed, NEW n, NEW c \in Clients, NEW i \in Ids, Items(x, n, {}),
         y.st = x.st, \A e \in Clients : e # c => y.drv[e] = x.drv[e],
         x.st[i].status = "taken", x.st[i].client = c,
         y.drv[c].observer.id = x.drv[c].observer.id,
         y.drv[c].ready = x.drv[c].ready, y.drv[c].notifications = x.drv[c].notifications,
         Watched(y, c, n), InTurn(y.drv[c], tasks(x, c)),
         InPlace(y.drv[c], taken(x, c) \ {i})
  PROVE  Held(y, n, c, i) /\ tasks(y, c) = tasks(x, c)
<1>0. /\ OfLoop(x, i, n) /\ Known(x, i) /\ Listed(x, c) /\ x \in Managed
      /\ \A j \in Ids : Known(x, j)
  BY DEF Items
<1>1. x.st[i].kind # "none" /\ x.st[i].status \notin Begun
  BY <1>0 DEF Known, Begun, Unfinished
<1>2. OfLoop(y, i, n)
  BY <1>0 DEF OfLoop
<1>3. Known(y, i)
  BY Zenon, <1>0 DEF Known
<1>4. Listed(y, c)
  BY <1>0, <1>1, ListedLocal DEF Local
<1>5. tasks(y, c) = tasks(x, c)
  BY DEF tasks
<1>6. taken(y, c) = taken(x, c)
  BY DEF taken
<1>7. \A j \in Ids : j # i => (j \in {i} <=> j \in {})
  OBVIOUS
<1>8. /\ InTurn(y.drv[c], tasks(y, c)) /\ InPlace(y.drv[c], taken(y, c) \ {i})
  BY <1>5, <1>6
<1>9. Items(y, n, {i})
  <2>1. y.st[i].client = c /\ y.st[i].kind # "none" /\ (x.st[i].client = c \/ x.st[i].status = "none")
    BY <1>1
  <2>2. \A j \in Ids : j # i => y.st[j] = x.st[j]
    OBVIOUS
  <2>3. PICK K, L : K = {i} /\ L = {}
    OBVIOUS
  <2>4. Items(x, n, L) /\ (\A j \in Ids : j # i => (j \in K <=> j \in L))
        /\ InPlace(y.drv[c], taken(y, c) \ K)
    BY <1>7, <1>8, <2>3
  <2>5. Items(y, n, K)
    BY <1>1, <1>2, <1>3, <1>4, <1>8, <2>1, <2>2, <2>4, LocalItems
  <2> QED
    BY <2>3, <2>5
<1> QED
  BY <1>5, <1>9 DEF Held

LEMMA KeptTaken ==
  ASSUME NEW x, NEW n, NEW c \in Clients, NEW i \in Ids, Items(x, n, {}), isKept(x.drv[c], i)
  PROVE  x.st[i].status = "taken" /\ x.st[i].client = c
<1>1. InPlace(x.drv[c], taken(x, c) \ {})
  BY DEF Items
<1>2. i \in taken(x, c) \ {}
  BY <1>1 DEF InPlace
<1> QED
  BY <1>2 DEF taken

\* The first preserved response.
LEMMA TakePreserved ==
  ASSUME NEW x, NEW y \in Managed, NEW n, NEW c \in Clients, Items(x, n, {}),
         x.drv[c].preserved # <<>>,
         y.st = x.st, \A e \in Clients : e # c => y.drv[e] = x.drv[e],
         y.drv[c].preserved = Tail(x.drv[c].preserved),
         y.drv[c].selected = x.drv[c].selected, y.drv[c].observer = x.drv[c].observer,
         y.drv[c].ready = x.drv[c].ready, y.drv[c].notifications = x.drv[c].notifications
  PROVE  LET i == Head(x.drv[c].preserved) IN
         Held(y, n, c, i) /\ NextInLine(y.drv[c], tasks(y, c), i)
<1> DEFINE d == x.drv[c]
           e == y.drv[c]
<1>1. PICK q : q = d.preserved
  OBVIOUS
<1>2. PICK i : i = Head(q)
  OBVIOUS
<1>3. /\ InTurn(d, tasks(x, c)) /\ InPlace(d, taken(x, c) \ {}) /\ Watched(x, c, n)
      /\ q \in Seq(Ids) /\ d.selected \in {0} \cup Ids
  BY <1>1, ManagedType, DriverType DEF Items
<1>4. /\ i \in Ids /\ has(q, i) /\ \A j : has(q, j) <=> j = i \/ has(e.preserved, j)
      /\ Rises(e.preserved) /\ Above(i, e.preserved) /\ ~has(e.preserved, i)
      /\ e.preserved \in Seq(Ids)
  BY <1>1, <1>2, <1>3, TailHas DEF InTurn
<1>5. x.st[i].status = "taken" /\ x.st[i].client = c
  BY <1>1, <1>4, KeptTaken DEF isKept
<1>6. Watched(y, c, n)
  BY <1>3, SameWatched
<1>7. \A j \in Ids : Above(j, q) => Above(j, e.preserved) /\ j < i
  BY <1>3, <1>4, AboveHas
<1>8. InTurn(e, tasks(x, c))
  <2>1. tasks(x, c) \subseteq Ids
    BY DEF tasks
  <2> QED
    BY <1>1, <1>3, <1>4, <1>7, <2>1 DEF InTurn
<1>9. InPlace(e, taken(x, c) \ {i})
  <2>1. e.selected = d.selected /\ e.observer = d.observer
    OBVIOUS
  <2> HIDE DEF d, e
  <2> QED
    BY <1>1, <1>3, <1>4, <2>1 DEF InPlace, isKept
<1>10. Held(y, n, c, i) /\ tasks(y, c) = tasks(x, c)
  BY <1>4, <1>5, <1>6, <1>8, <1>9, PickUp
<1>11. NextInLine(e, tasks(x, c), i)
  <2>1. tasks(x, c) \subseteq Ids
    BY DEF tasks
  <2> QED
    BY <1>1, <1>3, <1>4, <1>7, <2>1 DEF InTurn, NextInLine
<1> QED
  BY <1>1, <1>2, <1>10, <1>11

\* The selected update.
LEMMA TakeSelected ==
  ASSUME NEW x, NEW y \in Managed, NEW n, NEW c \in Clients, Items(x, n, {}),
         x.drv[c].selected # 0,
         y.st = x.st, \A e \in Clients : e # c => y.drv[e] = x.drv[e],
         y.drv[c].preserved = x.drv[c].preserved,
         y.drv[c].selected = 0, y.drv[c].observer = x.drv[c].observer,
         y.drv[c].ready = x.drv[c].ready, y.drv[c].notifications = x.drv[c].notifications
  PROVE  LET i == x.drv[c].selected IN
         Held(y, n, c, i) /\ Above(i, y.drv[c].preserved)
<1> DEFINE d == x.drv[c]
           e == y.drv[c]
<1>1. PICK i : i = d.selected
  OBVIOUS
<1>3. /\ InTurn(d, tasks(x, c)) /\ InPlace(d, taken(x, c) \ {}) /\ Watched(x, c, n)
      /\ i \in Ids
  BY <1>1, ManagedType, DriverType DEF Items
<1>5. x.st[i].status = "taken" /\ x.st[i].client = c
  BY <1>1, <1>3, KeptTaken DEF isKept
<1>6. Watched(y, c, n)
  BY <1>3, SameWatched
<1>8. InTurn(e, tasks(x, c))
  BY <1>3 DEF InTurn
<1>9. InPlace(e, taken(x, c) \ {i})
  <2>1. e.selected = 0 /\ e.preserved = d.preserved /\ e.observer = d.observer /\ 0 \notin Ids
    BY IdsNat
  <2> HIDE DEF d, e
  <2> QED
    BY <1>1, <1>3, <2>1 DEF InPlace, isKept
<1>10. Held(y, n, c, i) /\ tasks(y, c) = tasks(x, c)
  BY Zenon, <1>3, <1>5, <1>6, <1>8, <1>9, PickUp
<1> QED
  BY <1>1, <1>3, <1>10 DEF InTurn

\* The first item that a serial loop has queued, when no Task of the loop is left.
LEMMA TakeQueued ==
  ASSUME NEW x, NEW y \in Managed, NEW n, NEW c \in Clients, Items(x, n, {}),
         x.drv[c].observer.queue # <<>>, tasks(x, c) = {},
         ~x.drv[c].observer.concurrent, ~x.drv[c].observer.stopped,
         y.st = x.st, \A e \in Clients : e # c => y.drv[e] = x.drv[e],
         y.drv[c].preserved = x.drv[c].preserved, y.drv[c].selected = x.drv[c].selected,
         y.drv[c].observer.queue = Tail(x.drv[c].observer.queue),
         y.drv[c].observer.id = x.drv[c].observer.id,
         ~y.drv[c].observer.concurrent, ~y.drv[c].observer.stopped, y.drv[c].observer.active,
         y.drv[c].ready = x.drv[c].ready, y.drv[c].notifications = x.drv[c].notifications
  PROVE  LET i == Head(x.drv[c].observer.queue) IN
         /\ Held(y, n, c, i) /\ tasks(y, c) = {} /\ y.drv[c].observer.id # 0
         /\ Above(i, y.drv[c].preserved) /\ Above(i, y.drv[c].observer.queue)
<1> DEFINE d == x.drv[c]
           e == y.drv[c]
<1>1. PICK q : q = d.observer.queue
  OBVIOUS
<1>2. PICK i : i = Head(q)
  OBVIOUS
<1>3. /\ InTurn(d, tasks(x, c)) /\ InPlace(d, taken(x, c) \ {}) /\ Watched(x, c, n)
      /\ q \in Seq(Ids)
  BY <1>1, ManagedType, ObserverType DEF Items
<1>4. /\ i \in Ids /\ has(q, i) /\ \A j : has(q, j) <=> j = i \/ has(e.observer.queue, j)
      /\ Rises(e.observer.queue) /\ Above(i, e.observer.queue) /\ ~has(e.observer.queue, i)
  BY <1>1, <1>2, <1>3, TailHas DEF InTurn
<1>5. x.st[i].status = "taken" /\ x.st[i].client = c
  BY <1>1, <1>4, KeptTaken DEF isKept
<1>6. Watched(y, c, n)
  <2>1. /\ d.observer.id <= n /\ d.observer.id # 0
        /\ \A b \in Clients \ {c} : x.drv[b].observer.id = d.observer.id => d.observer.id = 0
    BY <1>3, NoObserverType DEF Watched
  <2>2. \A b \in Clients \ {c} : y.drv[b].observer.id = d.observer.id => d.observer.id = 0
    BY <2>1
  <2> QED
    BY <2>1, <2>2 DEF Watched
<1>7. y.drv[c].observer.id # 0
  BY Zenon, <1>3, NoObserverType DEF Watched
<1>8. InTurn(e, tasks(x, c))
  <2>1. \A j \in Ids : has(e.observer.queue, j) => Above(j, d.preserved)
    BY <1>1, <1>3, <1>4 DEF InTurn
  <2> QED
    BY Zenon, <1>3, <1>4, <2>1 DEF InTurn
<1>9. InPlace(e, taken(x, c) \ {i})
  <2>1. e.selected = d.selected /\ e.preserved = d.preserved
    OBVIOUS
  <2> HIDE DEF d, e
  <2> QED
    BY <1>1, <1>3, <1>4, <2>1 DEF InPlace, isKept
<1>10. Held(y, n, c, i) /\ tasks(y, c) = tasks(x, c)
  BY <1>4, <1>5, <1>6, <1>8, <1>9, PickUp
<1>11. Above(i, d.preserved)
  BY Zenon, <1>1, <1>3, <1>4 DEF InTurn
<1> QED
  BY <1>1, <1>2, <1>4, <1>7, <1>10, <1>11

\* What comes into being is younger than all others.
LEMMA FreshFields ==
  ASSUME NEW x, NEW n, NEW i \in Ids, NEW c \in Clients, Items(x, n, {}), Fresh(x, i),
         NEW kind \in {"Future", "Task", "Update", "Raw"}, NEW status \in {"pending", "taken"}
  PROVE  LET y == Put(x, i, kind, c, status) IN
         /\ Local(x, y, c, i) /\ y.drv = x.drv
         /\ y.st[i].kind = kind /\ y.st[i].client = c /\ y.st[i].status = status
         /\ x.st[i].status = "none"
         /\ \A j \in Ids : isKept(x.drv[c], j) \/ j \in tasks(x, c) => j < i
<1>1. PICK r : r = [NoState EXCEPT !.kind = kind, !.client = c, !.status = status]
  OBVIOUS
<1>2. r \in StateRec /\ r.kind = kind /\ r.client = c /\ r.status = status
  BY <1>1 DEF NoState, StateRec
<1>3. PICK y : y = Put(x, i, kind, c, status)
  OBVIOUS
<1>4. x \in Managed /\ \A j \in Ids : Known(x, j)
  BY DEF Items
<1>5. y = [x EXCEPT !.st[i] = r]
  BY <1>1, <1>3 DEF Put
<1>6. /\ y \in Managed /\ y.st[i] = r /\ y.drv = x.drv
      /\ \A j \in Ids : j # i => y.st[j] = x.st[j]
  BY <1>2, <1>4, <1>5, PutState
<1>7. x.st[i].status = "none"
  <2>1. ~(i < i)
    BY IdsNat
  <2> QED
    BY <1>4, <2>1 DEF Fresh, Known
<1>8. ASSUME NEW j \in Ids, isKept(x.drv[c], j) \/ j \in tasks(x, c)
      PROVE  j < i
  <2>1. x.st[j].status # "none"
    BY <1>8, KeptTaken DEF tasks, Unfinished
  <2> QED
    BY <1>4, <2>1 DEF Fresh, Known
<1> QED
  BY <1>2, <1>3, <1>6, <1>7, <1>8 DEF Local

LEMMA FreshItems ==
  ASSUME NEW x, NEW n, NEW i \in Ids, NEW c \in Clients, Items(x, n, {}), Fresh(x, i),
         NEW kind \in {"Future", "Task", "Update", "Raw"}, NEW status \in {"pending", "taken"},
         status = "pending" <=> kind \in {"Future", "Task"}
  PROVE  LET y == Put(x, i, kind, c, status) IN
         /\ status = "pending" => Items(y, n, {})
         /\ status = "taken" => Held(y, n, c, i)
         /\ x.drv[c].preserved = <<>> => NextInLine(y.drv[c], tasks(y, c), i)
         /\ tasks(y, c) = tasks(x, c)
<1>1. PICK y : y = Put(x, i, kind, c, status)
  OBVIOUS
<1>2. /\ Local(x, y, c, i) /\ y.drv = x.drv
      /\ y.st[i].kind = kind /\ y.st[i].client = c /\ y.st[i].status = status
      /\ x.st[i].status = "none"
      /\ \A j \in Ids : isKept(x.drv[c], j) \/ j \in tasks(x, c) => j < i
  BY <1>1, FreshFields
<1>3. PICK K, L : L = {} /\ K = IF status = "taken" THEN {i} ELSE {}
  OBVIOUS
<1>4. /\ x \in Managed /\ Items(x, n, L) /\ \A j \in Ids : Known(x, j) /\ OfLoop(x, j, n)
      /\ Listed(x, c) /\ Watched(x, c, n) /\ InTurn(x.drv[c], tasks(x, c))
      /\ InPlace(x.drv[c], taken(x, c) \ {})
  BY <1>3 DEF Items
<1>5. /\ y \in Managed /\ \A j \in Ids : j # i => y.st[j] = x.st[j]
      /\ \A e \in Clients : y.drv[e] = x.drv[e]
  BY <1>2 DEF Local
<1>6. \A j \in Ids : j # i => (j \in K <=> j \in L)
  BY <1>3
<1>7. x.st[i].status \notin Begun
  BY <1>2 DEF Begun, Unfinished
<1>8. Known(y, i) /\ OfLoop(y, i, n)
  BY <1>2 DEF Known, OfLoop
<1>9. Listed(y, c)
  BY <1>2, <1>4, <1>5, <1>7, ListedLocal
<1>10. Watched(y, c, n)
  BY <1>4, <1>5, SameWatched
<1>11. tasks(y, c) = tasks(x, c)
  <2>1. i \notin tasks(x, c) /\ i \notin tasks(y, c)
    BY <1>2, <1>7 DEF tasks, Begun
  <2> QED
    BY <1>5, <2>1 DEF tasks
<1>12. taken(y, c) \ K = taken(x, c) \ {}
  <2>1. i \notin taken(x, c) /\ (status # "taken" => i \notin taken(y, c))
    BY <1>2 DEF taken
  <2>2. \A j \in Ids : j # i => (j \in taken(y, c) <=> j \in taken(x, c))
    BY <1>5 DEF taken
  <2>3. taken(x, c) \subseteq Ids /\ taken(y, c) \subseteq Ids
    BY DEF taken
  <2> HIDE DEF taken
  <2> QED
    BY <1>3, <2>1, <2>2, <2>3
<1>13. InTurn(y.drv[c], tasks(y, c)) /\ InPlace(y.drv[c], taken(y, c) \ K)
  BY <1>4, <1>5, <1>11, <1>12
<1>14. y.st[i].client = c /\ y.st[i].kind # "none" /\ (x.st[i].client = c \/ x.st[i].status = "none")
  BY <1>2
<1>15. y.drv[c].observer.id = x.drv[c].observer.id
  BY <1>5
<1>16. Items(y, n, K)
  <2>1. \A e \in Clients : e # c => y.drv[e] = x.drv[e]
    BY <1>5
  <2>2. Items(x, n, L) /\ y \in Managed /\ \A j \in Ids : j # i => y.st[j] = x.st[j]
    BY <1>4, <1>5
  <2> QED
    BY ZenonT(60), <1>6, <1>7, <1>8, <1>9, <1>10, <1>13, <1>14, <1>15, <2>1, <2>2, LocalItems
<1>17. ASSUME x.drv[c].preserved = <<>> PROVE NextInLine(y.drv[c], tasks(y, c), i)
  <2>1. Above(i, x.drv[c].preserved)
    BY <1>17 DEF Above
  <2>2. \A j \in tasks(x, c) : j < i
    BY <1>2 DEF tasks
  <2>3. \A j \in Ids : has(x.drv[c].observer.queue, j) => j < i
    BY <1>2 DEF isKept
  <2> QED
    BY <1>5, <1>11, <2>1, <2>2, <2>3 DEF NextInLine
<1> QED
  BY <1>1, <1>2, <1>3, <1>11, <1>16, <1>17 DEF Held

-----------------------------------------------------------------------------
(***************************************************************************)
(* Loops begin, are told to stop, and end.                                 *)
(***************************************************************************)

LEMMA WithdrawItems ==
  ASSUME NEW x, NEW y \in Managed, NEW n, NEW C \in SUBSET Clients, NEW W, Items(x, n, {}),
         Withdrawn(x, y, C, W)
  PROVE  Items(y, n, {})
<1>w. /\ \A i \in Ids : i \in W <=> \E c \in C : has(x.drv[c].observer.queue, i)
      /\ \A i \in Ids : i \notin W => y.st[i] = x.st[i]
      /\ \A i \in Ids : i \in W => y.st[i] = [x.st[i] EXCEPT !.status = "dropped"]
      /\ \A c \in Clients : /\ y.drv[c].preserved = x.drv[c].preserved
                            /\ y.drv[c].selected = x.drv[c].selected
                            /\ y.drv[c].ready = x.drv[c].ready
                            /\ y.drv[c].notifications = x.drv[c].notifications
                            /\ c \notin C => y.drv[c].observer = x.drv[c].observer
      /\ \A c \in C : \/ y.drv[c].observer = NoObserver
                      \/ /\ y.drv[c].observer.id = x.drv[c].observer.id
                         /\ y.drv[c].observer.id # 0
                         /\ y.drv[c].observer.concurrent = x.drv[c].observer.concurrent
                         /\ y.drv[c].observer.active = x.drv[c].observer.active
                         /\ y.drv[c].observer.stopped /\ y.drv[c].observer.queue = <<>>
  BY DEF Withdrawn
<1> USE <1>w
<1>0. /\ x \in Managed /\ n \in Nat
      /\ \A i \in Ids : Known(x, i) /\ OfLoop(x, i, n) /\ x.st[i] \in StateRec
      /\ \A c \in Clients : /\ Listed(x, c) /\ Watched(x, c, n)
                            /\ InTurn(x.drv[c], tasks(x, c))
                            /\ InPlace(x.drv[c], taken(x, c) \ {})
  BY ManagedType DEF Items
<1>1. \A i \in Ids : /\ y.st[i].kind = x.st[i].kind /\ y.st[i].client = x.st[i].client
                     /\ y.st[i].observer = x.st[i].observer /\ y.st[i].dep = x.st[i].dep
                     /\ y.st[i].status = IF i \in W THEN "dropped" ELSE x.st[i].status
  <2>1. ASSUME NEW i \in Ids, i \in W
        PROVE  /\ y.st[i].kind = x.st[i].kind /\ y.st[i].client = x.st[i].client
               /\ y.st[i].observer = x.st[i].observer /\ y.st[i].dep = x.st[i].dep
               /\ y.st[i].status = "dropped"
    <3>1. x.st[i] \in StateRec /\ y.st[i] = [x.st[i] EXCEPT !.status = "dropped"]
      BY <1>0, <2>1
    <3> QED
      BY <3>1, StatusPut
  <2> QED
    BY <2>1
<1>2. \A i \in Ids : \A c \in C :
        has(x.drv[c].observer.queue, i) => x.st[i].status = "taken" /\ x.st[i].client = c
  BY KeptTaken DEF isKept
<1>3. \A i \in Ids : i \in W => x.st[i].status = "taken"
  BY <1>2
<1>4. ASSUME NEW i \in Ids PROVE Known(y, i)
  <2>1. Known(x, i) /\ (i \in W => x.st[i].status = "taken")
    BY <1>0, <1>3
  <2> QED
    BY <1>1, <2>1 DEF Known
<1>5. \A c \in Clients : y.drv[c].observer.id = x.drv[c].observer.id \/ y.drv[c].observer.id = 0
  BY NoObserverType
<1>6. ASSUME NEW i \in Ids PROVE OfLoop(y, i, n)
  <2>1. OfLoop(x, i, n)
    BY <1>0
  <2>2. x.st[i].kind = "LoopTask" => x.st[i].observer # 0
    BY <1>0, <2>1 DEF OfLoop
  <2> QED
    BY <1>1, <1>5, <2>1, <2>2 DEF OfLoop
<1>7. ASSUME NEW c \in Clients PROVE Listed(y, c)
  <2>1. /\ x.drv[c].ready \in Seq(Ids) /\ x.drv[c].notifications \subseteq Ids
        /\ y.drv[c].ready = x.drv[c].ready /\ y.drv[c].notifications = x.drv[c].notifications
    BY Zenon, <1>0, ManagedType, DriverType
  <2>2. ASSUME NEW k \in DOMAIN x.drv[c].ready
        PROVE  y.st[x.drv[c].ready[k]].status \in Due /\ y.st[x.drv[c].ready[k]].client = c
    <3>1. x.drv[c].ready[k] \in Ids
      BY <2>1
    <3>2. x.st[x.drv[c].ready[k]].status \in Due /\ x.st[x.drv[c].ready[k]].client = c
      BY Zenon, <1>0 DEF Listed
    <3>3. x.drv[c].ready[k] \notin W
      BY <1>3, <3>1, <3>2 DEF Due, Begun, Unfinished
    <3> QED
      BY <1>1, <3>1, <3>2, <3>3
  <2>3. ASSUME NEW t \in x.drv[c].notifications
        PROVE  y.st[t].status = "waiting" /\ y.st[y.st[t].dep].client = c
    <3>1. t \in Ids /\ x.st[t].status = "waiting" /\ x.st[x.st[t].dep].client = c
      BY <1>0, <2>1 DEF Listed
    <3>2. t \notin W /\ x.st[t].dep \in Ids
      BY <1>0, <1>3, <3>1 DEF Known
    <3>3. y.st[t].status = x.st[t].status /\ y.st[t].dep = x.st[t].dep
      BY Zenon, <1>1, <3>1, <3>2
    <3>4. y.st[x.st[t].dep].client = x.st[x.st[t].dep].client
      BY Zenon, <1>1, <3>2
    <3> QED
      BY Zenon, <3>1, <3>3, <3>4
  <2>4. OnceEach(y.drv[c].ready)
    BY Zenon, <1>0, <2>1 DEF Listed
  <2> QED
    BY ZenonT(40), <2>1, <2>2, <2>3, <2>4 DEF Listed
<1>8. ASSUME NEW c \in Clients PROVE Watched(y, c, n)
  <2>1. Watched(x, c, n)
    BY <1>0
  <2>2. /\ y.drv[c].observer.id <= n
        /\ y.drv[c].observer.id = 0 => y.drv[c].observer = NoObserver
        /\ y.drv[c].observer.stopped \/ y.drv[c].observer.concurrent
             => y.drv[c].observer.queue = <<>>
    <3>1. CASE c \notin C
      BY <2>1, <3>1 DEF Watched
    <3>2. CASE c \in C /\ y.drv[c].observer = NoObserver
      BY <1>0, <3>2, NoObserverType
    <3>3. CASE c \in C /\ y.drv[c].observer # NoObserver
      BY <2>1, <3>3 DEF Watched
    <3> QED
      BY <3>1, <3>2, <3>3
  <2>3. \A e \in Clients \ {c} : y.drv[e].observer.id = y.drv[c].observer.id => y.drv[c].observer.id = 0
    BY <1>5, <2>1 DEF Watched
  <2> QED
    BY <2>2, <2>3 DEF Watched
<1>9. ASSUME NEW c \in Clients PROVE tasks(y, c) \subseteq tasks(x, c)
  <2>1. ASSUME NEW i \in tasks(y, c) PROVE i \in tasks(x, c)
    <3>1. /\ i \in Ids /\ y.st[i].kind = "LoopTask" /\ y.st[i].status \in Unfinished
          /\ y.st[i].observer = y.drv[c].observer.id
      BY DEF tasks
    <3>2. i \notin W
      BY <1>1, <3>1 DEF Unfinished
    <3>3. x.st[i].observer # 0
      BY <1>0, <1>1, <3>1 DEF OfLoop
    <3>4. x.st[i].observer = x.drv[c].observer.id
      BY <1>1, <1>5, <3>1, <3>3
    <3> QED
      BY <1>1, <3>1, <3>2, <3>4 DEF tasks
  <2> QED
    BY <2>1
<1>10. ASSUME NEW c \in Clients PROVE InTurn(y.drv[c], tasks(y, c))
  <2>1. InTurn(x.drv[c], tasks(x, c)) /\ tasks(y, c) \subseteq tasks(x, c)
    BY <1>0, <1>9
  <2>2. CASE c \notin C
    BY <2>1, <2>2, TurnKept
  <2>3. Rises(<<>>) /\ \A i : Above(i, <<>>)
    BY DEF Rises, Above
  <2>4. /\ Rises(x.drv[c].preserved) /\ y.drv[c].preserved = x.drv[c].preserved
        /\ y.drv[c].selected = x.drv[c].selected
        /\ (x.drv[c].selected # 0 => Above(x.drv[c].selected, x.drv[c].preserved))
    BY <2>1 DEF InTurn
  <2>5. CASE c \in C /\ y.drv[c].observer = NoObserver
    <3>1. y.drv[c].observer.concurrent /\ y.drv[c].observer.queue = <<>>
      BY <2>5, NoObserverType
    <3> QED
      BY <2>3, <2>4, <3>1 DEF InTurn
  <2>6. CASE c \in C /\ y.drv[c].observer # NoObserver
    <3>1. /\ y.drv[c].observer.concurrent = x.drv[c].observer.concurrent
          /\ y.drv[c].observer.active = x.drv[c].observer.active
          /\ y.drv[c].observer.stopped /\ y.drv[c].observer.queue = <<>>
      BY <2>6
    <3>2. ~x.drv[c].observer.concurrent
            => /\ \A i, j \in tasks(y, c) : i = j
               /\ ~x.drv[c].observer.active => tasks(y, c) = {}
      BY <2>1 DEF InTurn
    <3> HIDE DEF tasks
    <3> QED
      BY <2>3, <2>4, <3>1, <3>2 DEF InTurn
  <2> QED
    BY <2>2, <2>5, <2>6
<1>11. ASSUME NEW c \in Clients PROVE InPlace(y.drv[c], taken(y, c) \ {})
  <2>1. InPlace(x.drv[c], taken(x, c) \ {})
    BY <1>0
  <2>2. /\ y.drv[c].preserved = x.drv[c].preserved /\ y.drv[c].selected = x.drv[c].selected
    OBVIOUS
  <2>3. \A i \in Ids : i \in taken(y, c) <=> i \in taken(x, c) /\ i \notin W
    BY <1>1 DEF taken
  <2>4. \A i \in Ids : i \in taken(x, c) => (i \in W <=> c \in C /\ has(x.drv[c].observer.queue, i))
    BY <1>2 DEF taken
  <2>5. \A i \in Ids : has(y.drv[c].observer.queue, i) <=> (has(x.drv[c].observer.queue, i) /\ c \notin C)
    BY EmptyHas, NoObserverType
  <2> HIDE DEF taken
  <2> QED
    BY <2>1, <2>2, <2>3, <2>4, <2>5 DEF InPlace, isKept
<1> QED
  BY <1>0, <1>4, <1>6, <1>7, <1>8, <1>10, <1>11 DEF Items

\* A loop with a callback begins; nobody has been given its number.
LEMMA LoopItems ==
  ASSUME NEW x, NEW y \in Managed, NEW n, NEW c \in Clients, Items(x, n, {}),
         x.drv[c].observer.id = 0, y.st = x.st,
         \A e \in Clients : e # c => y.drv[e].observer = x.drv[e].observer,
         \A e \in Clients : /\ y.drv[e].preserved = x.drv[e].preserved
                            /\ y.drv[e].selected = x.drv[e].selected
                            /\ y.drv[e].ready = x.drv[e].ready
                            /\ y.drv[e].notifications = x.drv[e].notifications,
         y.drv[c].observer.id = n + 1, ~y.drv[c].observer.active,
         ~y.drv[c].observer.stopped, y.drv[c].observer.queue = <<>>
  PROVE  Items(y, n + 1, {}) /\ tasks(y, c) = {}
<1>0. /\ x \in Managed /\ n \in Nat
      /\ \A i \in Ids : Known(x, i) /\ OfLoop(x, i, n) /\ x.st[i] \in StateRec
      /\ \A e \in Clients : /\ Listed(x, e) /\ Watched(x, e, n)
                            /\ InTurn(x.drv[e], tasks(x, e))
                            /\ InPlace(x.drv[e], taken(x, e) \ {})
                            /\ x.drv[e].observer.id \in Nat
  BY ManagedType, ObserverType DEF Items
<1>1. \A i \in Ids : Known(y, i)
  BY <1>0 DEF Known
<1>2. \A i \in Ids : OfLoop(y, i, n + 1)
  <2>1. ASSUME NEW i \in Ids, x.st[i].kind = "LoopTask"
        PROVE  /\ x.st[i].observer \in 1 .. n /\ x.st[i].observer # n + 1
               /\ \A e \in Clients : x.st[i].observer = x.drv[e].observer.id => x.st[i].client = e
    <3>1. OfLoop(x, i, n)
      BY <1>0
    <3> QED
      BY <1>0, <2>1, <3>1 DEF OfLoop
  <2>2. 1 .. n \subseteq 1 .. n + 1
    BY <1>0
  <2> QED
    BY <2>1, <2>2 DEF OfLoop
<1>3. \A e \in Clients : Listed(y, e)
  <2>1. ASSUME NEW e \in Clients PROVE Listed(y, e)
    <3>1. Listed(x, e) /\ y.drv[e].ready = x.drv[e].ready
          /\ y.drv[e].notifications = x.drv[e].notifications
      BY <1>0
    <3> QED
      BY <3>1 DEF Listed
  <2> QED
    BY Zenon, <2>1
<1>4. ASSUME NEW e \in Clients PROVE Watched(y, e, n + 1)
  <2>1. \A b \in Clients : Watched(x, b, n) /\ x.drv[b].observer.id <= n
    BY <1>0 DEF Watched
  <2>2. CASE e = c
    BY <1>0, <2>1, <2>2 DEF Watched
  <2>3. CASE e # c
    <3>1. /\ x.drv[e].observer.id <= n + 1 /\ x.drv[e].observer.id # n + 1
      BY <1>0, <2>1
    <3>2. Watched(x, e, n)
      BY <1>0
    <3> QED
      BY <2>3, <3>1, <3>2 DEF Watched
  <2> QED
    BY <2>2, <2>3
<1>5. tasks(y, c) = {}
  <2>1. ASSUME NEW i \in Ids, x.st[i].kind = "LoopTask" PROVE x.st[i].observer # n + 1
    <3>1. OfLoop(x, i, n)
      BY <1>0
    <3> QED
      BY <1>0, <2>1, <3>1 DEF OfLoop
  <2> QED
    BY <2>1 DEF tasks
<1>6. ASSUME NEW e \in Clients PROVE InTurn(y.drv[e], tasks(y, e))
  <2>0. InTurn(x.drv[e], tasks(x, e))
    BY <1>0
  <2>1. CASE e # c
    <3>1. tasks(y, e) = tasks(x, e)
      BY <2>1 DEF tasks
    <3> QED
      BY <2>0, <2>1, <3>1, TurnKept
  <2>2. CASE e = c
    <3>1. Rises(<<>>) /\ (\A i : Above(i, <<>>)) /\ (\A i : ~has(<<>>, i))
      BY EmptyHas DEF Rises, Above
    <3>2. /\ Rises(x.drv[c].preserved)
          /\ (x.drv[c].selected # 0 => Above(x.drv[c].selected, x.drv[c].preserved))
      BY <2>0, <2>2 DEF InTurn
    <3>3. y.drv[c].preserved = x.drv[c].preserved /\ y.drv[c].selected = x.drv[c].selected
      OBVIOUS
    <3> HIDE DEF tasks
    <3> QED
      BY <1>5, <2>2, <3>1, <3>2, <3>3 DEF InTurn
  <2> QED
    BY <2>1, <2>2
<1>7. ASSUME NEW e \in Clients PROVE InPlace(y.drv[e], taken(y, e) \ {})
  <2>1. InPlace(x.drv[e], taken(x, e) \ {}) /\ taken(y, e) = taken(x, e)
    BY <1>0 DEF taken
  <2>2. y.drv[e].preserved = x.drv[e].preserved /\ y.drv[e].selected = x.drv[e].selected
    OBVIOUS
  <2>3. y.drv[e].observer.queue = x.drv[e].observer.queue
    <3>1. CASE e = c
      <4>1. x.drv[c].observer = NoObserver
        BY <1>0 DEF Watched
      <4> QED
        BY <3>1, <4>1, NoObserverType
    <3> QED
      BY <3>1
  <2> QED
    BY <2>1, <2>2, <2>3 DEF InPlace, isKept
<1> QED
  BY <1>0, <1>1, <1>2, <1>3, <1>4, <1>5, <1>6, <1>7 DEF Items

-----------------------------------------------------------------------------
(***************************************************************************)
(* The operations on items.                                                *)
(***************************************************************************)

LEMMA KeepsTrans ==
  ASSUME NEW x, NEW y, NEW z, Keeps(x, y), Keeps(y, z)
  PROVE  Keeps(x, z)
      BY DEF Keeps, SameFlags

LEMMA LocalKeeps ==
  ASSUME NEW x, NEW y, NEW c \in Clients, NEW i \in Ids, Local(x, y, c, i),
         x.st[i].status \notin Begun, SameFlags(y.drv[c], x.drv[c])
  PROVE  Keeps(x, y)
<1>1. ASSUME NEW e \in Clients PROVE SameFlags(y.drv[e], x.drv[e])
  <2>1. CASE e = c
    BY <2>1
  <2>2. CASE e # c
    BY <2>2 DEF Local, SameFlags
  <2> QED
    BY <2>1, <2>2
<1>2. \A j \in Ids : x.st[j].status \in Entered => y.st[j].status \in Entered
  BY DEF Local, Begun, Unfinished, Entered
<1> QED
  BY <1>1, <1>2 DEF Keeps

LEMMA CreateFields ==
  ASSUME NEW x \in Managed, NEW c \in Clients, NEW i \in Ids, NEW kind \in {"PollTask", "LoopTask"}
  PROVE  LET y == createUpdateTask(x, kind, c, i) IN
         /\ Local(x, y, c, i) /\ ListsKept(x, y, c, i)
         /\ y.st[i].kind = kind /\ y.st[i].client = x.st[i].client /\ y.st[i].status = "ready"
         /\ y.st[i].observer = IF kind = "LoopTask" THEN x.drv[c].observer.id ELSE 0
         /\ y.drv[c].preserved = x.drv[c].preserved /\ y.drv[c].selected = x.drv[c].selected
         /\ y.drv[c].observer = x.drv[c].observer /\ SameFlags(y.drv[c], x.drv[c])
<1>1. PICK o : o = IF kind = "LoopTask" THEN x.drv[c].observer.id ELSE 0
  OBVIOUS
<1>2. o \in Nat
  BY <1>1, ManagedType, ObserverType
<1>3. PICK r : r = [x.st[i] EXCEPT !.kind = kind, !.status = "ready", !.observer = o]
  OBVIOUS
<1>4. /\ r \in StateRec /\ r.kind = kind /\ r.client = x.st[i].client /\ r.status = "ready"
      /\ r.observer = o
  <2>1. x.st[i] \in StateRec
    BY ManagedType
  <2> QED
    BY <1>2, <1>3, <2>1 DEF StateRec, Begun, Unfinished
<1>5. PICK d : d = [x.drv[c] EXCEPT !.ready = Append(@, i)]
  OBVIOUS
<1>6. /\ d \in DriverRec /\ d.ready = Append(x.drv[c].ready, i)
      /\ d.notifications = x.drv[c].notifications
      /\ d.preserved = x.drv[c].preserved /\ d.selected = x.drv[c].selected
      /\ d.observer = x.drv[c].observer /\ d.consumer = x.drv[c].consumer
      /\ d.drive = x.drv[c].drive /\ d.active = x.drv[c].active
      /\ d.draining = x.drv[c].draining /\ d.selecting = x.drv[c].selecting
  <2>1. x.drv[c] \in DriverRec /\ Append(x.drv[c].ready, i) \in Seq(Ids)
    BY ManagedType, DriverType
  <2> QED
    BY <1>5, <2>1, ReadyPut
<1>7. PICK y : y = createUpdateTask(x, kind, c, i)
  OBVIOUS
<1>8. y = [st |-> [x.st EXCEPT ![i] = r], drv |-> [x.drv EXCEPT ![c] = d]]
  BY <1>1, <1>3, <1>5, <1>7 DEF createUpdateTask, Managed
<1>9. /\ y \in Managed /\ y.st[i] = r /\ y.drv[c] = d
      /\ \A j \in Ids : j # i => y.st[j] = x.st[j]
      /\ \A e \in Clients : e # c => y.drv[e] = x.drv[e]
  BY <1>4, <1>6, <1>8, PutBoth
<1> QED
  BY <1>1, <1>4, <1>6, <1>7, <1>9 DEF Local, ListsKept, SameFlags

LEMMA PollTaskItems ==
  ASSUME NEW x, NEW n, NEW c, NEW i, Held(x, n, c, i)
  PROVE  LET y == createUpdateTask(x, "PollTask", c, i) IN Items(y, n, {}) /\ Keeps(x, y)
<1>1. PICK y : y = createUpdateTask(x, "PollTask", c, i)
  OBVIOUS
<1>2. x \in Managed /\ c \in Clients /\ i \in Ids /\ x.st[i].client = c
  BY HeldState DEF Held
<1>3. /\ Local(x, y, c, i) /\ ListsKept(x, y, c, i)
      /\ y.st[i].kind = "PollTask" /\ y.st[i].client = c /\ y.st[i].status = "ready"
      /\ y.drv[c].preserved = x.drv[c].preserved /\ y.drv[c].selected = x.drv[c].selected
      /\ y.drv[c].observer = x.drv[c].observer /\ SameFlags(y.drv[c], x.drv[c])
  BY <1>1, <1>2, CreateFields
<1>4. Items(y, n, {})
  BY <1>3, GiveItems
<1>5. Keeps(x, y)
  BY <1>2, <1>3, HeldState, LocalKeeps
<1> QED
  BY <1>1, <1>4, <1>5

LEMMA LoopTaskItems ==
  ASSUME NEW x, NEW n, NEW c, NEW i, Held(x, n, c, i),
         ~x.drv[c].observer.stopped, x.drv[c].observer.id # 0,
         ~x.drv[c].observer.concurrent => tasks(x, c) = {} /\ Above(i, x.drv[c].observer.queue),
         Above(i, x.drv[c].preserved)
  PROVE  LET y == createUpdateTask([x EXCEPT !.drv[c].observer.active = TRUE], "LoopTask", c, i)
         IN Items(y, n, {}) /\ Keeps(x, y)
<1>1. PICK z : z = [x EXCEPT !.drv[c].observer.active = TRUE]
  OBVIOUS
<1>2. PICK y : y = createUpdateTask(z, "LoopTask", c, i)
  OBVIOUS
<1>3. x \in Managed /\ c \in Clients /\ i \in Ids /\ x.st[i].client = c
  BY HeldState DEF Held
<1>4. PICK o : o = [x.drv[c].observer EXCEPT !.active = TRUE]
  OBVIOUS
<1>5. /\ o \in ObserverRec /\ o.id = x.drv[c].observer.id /\ o.active
      /\ o.concurrent = x.drv[c].observer.concurrent /\ o.stopped = x.drv[c].observer.stopped
      /\ o.queue = x.drv[c].observer.queue
  <2>1. x.drv[c].observer \in ObserverRec
    BY <1>3, ManagedType, DriverType
  <2> QED
    BY <1>4, <2>1 DEF ObserverRec
<1>6. PICK d : d = [x.drv[c] EXCEPT !.observer = o]
  OBVIOUS
<1>7. /\ d \in DriverRec /\ d.ready = x.drv[c].ready
      /\ d.notifications = x.drv[c].notifications
      /\ d.preserved = x.drv[c].preserved /\ d.selected = x.drv[c].selected
      /\ d.observer = o /\ d.consumer = x.drv[c].consumer
      /\ d.drive = x.drv[c].drive /\ d.active = x.drv[c].active
      /\ d.draining = x.drv[c].draining /\ d.selecting = x.drv[c].selecting
  <2>1. x.drv[c] \in DriverRec
    BY <1>3, ManagedType
  <2> QED
    BY <1>5, <1>6, <2>1, ObserverPut
<1>8. z = [x EXCEPT !.drv[c] = d]
  BY <1>1, <1>4, <1>6
<1>9. /\ z \in Managed /\ z.drv[c] = d /\ z.st = x.st
      /\ \A e \in Clients : e # c => z.drv[e] = x.drv[e]
  BY <1>3, <1>7, <1>8, PutDriver
<1>10. /\ Local(z, y, c, i) /\ ListsKept(z, y, c, i)
       /\ y.st[i].kind = "LoopTask" /\ y.st[i].client = z.st[i].client /\ y.st[i].status = "ready"
       /\ y.st[i].observer = z.drv[c].observer.id
       /\ y.drv[c].preserved = z.drv[c].preserved /\ y.drv[c].selected = z.drv[c].selected
       /\ y.drv[c].observer = z.drv[c].observer /\ SameFlags(y.drv[c], z.drv[c])
  BY <1>2, <1>3, <1>9, CreateFields
<1>11. Local(x, y, c, i)
  BY <1>9, <1>10 DEF Local
<1>12. ListsKept(x, y, c, i)
  BY <1>7, <1>9, <1>10 DEF ListsKept
<1>13. SameFlags(y.drv[c], x.drv[c])
  BY <1>5, <1>7, <1>9, <1>10 DEF SameFlags
<1>14. /\ y.drv[c].preserved = x.drv[c].preserved /\ y.drv[c].selected = x.drv[c].selected
       /\ y.drv[c].observer = o
       /\ y.st[i].client = c /\ y.st[i].observer = x.drv[c].observer.id
  BY <1>3, <1>5, <1>7, <1>9, <1>10
<1>15. Items(y, n, {})
  BY <1>5, <1>10, <1>11, <1>12, <1>14, BeginItems
<1>16. Keeps(x, y)
  BY <1>3, <1>11, <1>13, HeldState, LocalKeeps
<1> QED
  BY <1>1, <1>2, <1>15, <1>16

LEMMA StatusSame == ASSUME NEW r \in StateRec PROVE [r EXCEPT !.status = r.status] = r
      BY DEF StateRec

LEMMA DropItems ==
  ASSUME NEW x, NEW n, NEW c, NEW i, Held(x, n, c, i), NEW status \in {"dropped", "done"}
  PROVE  LET y == [x EXCEPT !.st[i].status = status] IN
         Items(y, n, {}) /\ Keeps(x, y) /\ y.drv = x.drv
<1>1. PICK y : y = [x EXCEPT !.st[i].status = status]
  OBVIOUS
<1>2. x \in Managed /\ c \in Clients /\ i \in Ids /\ x.st[i].client = c
      /\ x.st[i].kind # "none" /\ x.st[i].status \notin Begun /\ x.st[i] \in StateRec
  BY HeldState DEF Held
<1>3. PICK r : r = [x.st[i] EXCEPT !.status = status]
  OBVIOUS
<1>4. /\ r \in StateRec /\ r.status = status /\ r.kind = x.st[i].kind
      /\ r.client = x.st[i].client /\ r.observer = x.st[i].observer
  BY <1>2, <1>3, StatusPut DEF Begun
<1>5. y = [x EXCEPT !.st[i] = r]
  BY <1>1, <1>3
<1>6. /\ y \in Managed /\ y.st[i] = r /\ y.drv = x.drv
      /\ \A j \in Ids : j # i => y.st[j] = x.st[j]
  BY <1>2, <1>4, <1>5, PutState
<1>7. Local(x, y, c, i) /\ ListsKept(x, y, c, i) /\ SameFlags(y.drv[c], x.drv[c])
  BY <1>6 DEF Local, ListsKept, SameFlags
<1>8. Items(y, n, {})
  <2>1. /\ y.st[i].kind # "none" /\ y.st[i].client = c
        /\ y.st[i].status \in {"dropped", "done", "ready"}
        /\ (y.st[i].kind = "LoopTask"
             => y.st[i].status # "ready" /\ x.st[i].kind = "LoopTask" /\ y.st[i].observer = x.st[i].observer)
    BY <1>2, <1>4, <1>6
  <2>2. /\ y.drv[c].preserved = x.drv[c].preserved /\ y.drv[c].selected = x.drv[c].selected
        /\ y.drv[c].observer = x.drv[c].observer
    BY <1>6
  <2> QED
    BY <1>7, <2>1, <2>2, GiveItems
<1>9. Keeps(x, y)
  BY <1>2, <1>7, LocalKeeps
<1> QED
  BY <1>1, <1>6, <1>8, <1>9

LEMMA PreserveStep ==
  ASSUME NEW x, NEW n, NEW c, NEW i, Held(x, n, c, i), x.st[i].kind # "LoopTask",
         \A j \in Ids : isKept(x.drv[c], j) \/ j \in tasks(x, c) => j < i
  PROVE  LET y == [x EXCEPT !.drv[c].preserved = Append(@, i)] IN
         Items(y, n, {}) /\ Keeps(x, y)
<1>1. PICK y : y = [x EXCEPT !.drv[c].preserved = Append(@, i)]
  OBVIOUS
<1>2. x \in Managed /\ c \in Clients /\ i \in Ids /\ x.st[i].status \notin Begun
  BY HeldState DEF Held
<1>3. PICK q : q = Append(x.drv[c].preserved, i)
  OBVIOUS
<1>4. PICK d : d = [x.drv[c] EXCEPT !.preserved = q]
  OBVIOUS
<1>5. x.drv[c] \in DriverRec /\ q \in Seq(Ids)
  BY <1>2, <1>3, ManagedType, DriverType
<1>6. /\ d \in DriverRec /\ d.ready = x.drv[c].ready /\ d.notifications = x.drv[c].notifications
      /\ d.preserved = q /\ d.selected = x.drv[c].selected
      /\ d.observer = x.drv[c].observer /\ d.consumer = x.drv[c].consumer
      /\ d.drive = x.drv[c].drive /\ d.active = x.drv[c].active
      /\ d.draining = x.drv[c].draining /\ d.selecting = x.drv[c].selecting
  BY <1>4, <1>5, PreservedPut
<1>7. y = [x EXCEPT !.drv[c] = d]
  BY <1>1, <1>3, <1>4
<1>8. /\ y \in Managed /\ y.drv[c] = d /\ y.st = x.st
      /\ \A e \in Clients : e # c => y.drv[e] = x.drv[e]
  BY <1>2, <1>6, <1>7, PutDriver
<1>9. Local(x, y, c, i) /\ ListsKept(x, y, c, i) /\ SameFlags(y.drv[c], x.drv[c])
  BY Zenon, <1>6, <1>8 DEF Local, ListsKept, SameFlags
<1>10. Items(y, n, {})
  BY <1>3, <1>6, <1>8, <1>9, PreserveItems
<1>11. Keeps(x, y)
  BY <1>2, <1>9, LocalKeeps
<1> QED
  BY <1>1, <1>10, <1>11

LEMMA SelectStep ==
  ASSUME NEW x, NEW n, NEW c, NEW i, Held(x, n, c, i), x.drv[c].selected = 0,
         NextInLine(x.drv[c], tasks(x, c), i)
  PROVE  LET y == [x EXCEPT !.drv[c].selected = i, !.st[i].status = "taken"] IN
         Items(y, n, {}) /\ Keeps(x, y)
<1>1. PICK y : y = [x EXCEPT !.drv[c].selected = i, !.st[i].status = "taken"]
  OBVIOUS
<1>2. /\ x \in Managed /\ c \in Clients /\ i \in Ids /\ x.st[i].status \notin Begun
      /\ x.st[i] \in StateRec /\ x.drv[c] \in DriverRec /\ x.st[i].status = "taken"
  BY HeldState DEF Held
<1>3. PICK r : r = [x.st[i] EXCEPT !.status = "taken"]
  OBVIOUS
<1>4. r = x.st[i]
  BY <1>2, <1>3, StatusSame
<1>5. PICK d : d = [x.drv[c] EXCEPT !.selected = i]
  OBVIOUS
<1>6. /\ d \in DriverRec /\ d.ready = x.drv[c].ready /\ d.notifications = x.drv[c].notifications
      /\ d.preserved = x.drv[c].preserved /\ d.selected = i
      /\ d.observer = x.drv[c].observer /\ d.consumer = x.drv[c].consumer
      /\ d.drive = x.drv[c].drive /\ d.active = x.drv[c].active
      /\ d.draining = x.drv[c].draining /\ d.selecting = x.drv[c].selecting
  BY <1>2, <1>5, SelectedPut
<1>7. y = [st |-> [x.st EXCEPT ![i] = r], drv |-> [x.drv EXCEPT ![c] = d]]
  BY <1>1, <1>2, <1>3, <1>5 DEF Managed
<1>8. /\ y \in Managed /\ y.drv[c] = d /\ y.st[i] = r
      /\ \A j \in Ids : j # i => y.st[j] = x.st[j]
      /\ \A e \in Clients : e # c => y.drv[e] = x.drv[e]
  BY <1>2, <1>4, <1>6, <1>7, PutBoth
<1>9. Local(x, y, c, i) /\ ListsKept(x, y, c, i) /\ SameFlags(y.drv[c], x.drv[c])
  BY <1>6, <1>8 DEF Local, ListsKept, SameFlags
<1>10. Items(y, n, {})
  BY <1>4, <1>6, <1>8, <1>9, SelectItems
<1>11. Keeps(x, y)
  BY <1>2, <1>9, LocalKeeps
<1> QED
  BY <1>1, <1>10, <1>11

LEMMA QueueStep ==
  ASSUME NEW x, NEW n, NEW c, NEW i, Held(x, n, c, i),
         ~x.drv[c].observer.concurrent, x.drv[c].observer.active,
         ~x.drv[c].observer.stopped, x.drv[c].observer.id # 0,
         NextInLine(x.drv[c], tasks(x, c), i)
  PROVE  LET y == [x EXCEPT !.drv[c].observer.queue = Append(@, i), !.st[i].status = "taken"] IN
         Items(y, n, {}) /\ Keeps(x, y)
<1>1. PICK y : y = [x EXCEPT !.drv[c].observer.queue = Append(@, i), !.st[i].status = "taken"]
  OBVIOUS
<1>2. /\ x \in Managed /\ c \in Clients /\ i \in Ids /\ x.st[i].status \notin Begun
      /\ x.st[i] \in StateRec /\ x.drv[c] \in DriverRec /\ x.st[i].status = "taken"
      /\ x.drv[c].observer \in ObserverRec
  BY HeldState, ManagedType DEF Held
<1>3. PICK r : r = [x.st[i] EXCEPT !.status = "taken"]
  OBVIOUS
<1>4. r = x.st[i]
  BY <1>2, <1>3, StatusSame
<1>5. PICK q : q = Append(x.drv[c].observer.queue, i)
  OBVIOUS
<1>6. PICK o : o = [x.drv[c].observer EXCEPT !.queue = q]
  OBVIOUS
<1>7. q \in Seq(Ids)
  BY <1>2, <1>5, ObserverType
<1>8. /\ o \in ObserverRec /\ o.id = x.drv[c].observer.id /\ o.active /\ ~o.concurrent
      /\ ~o.stopped /\ o.queue = q
  BY <1>2, <1>6, <1>7 DEF ObserverRec
<1>9. PICK d : d = [x.drv[c] EXCEPT !.observer = o]
  OBVIOUS
<1>10. /\ d \in DriverRec /\ d.ready = x.drv[c].ready /\ d.notifications = x.drv[c].notifications
       /\ d.preserved = x.drv[c].preserved /\ d.selected = x.drv[c].selected
       /\ d.observer = o /\ d.consumer = x.drv[c].consumer
       /\ d.drive = x.drv[c].drive /\ d.active = x.drv[c].active
       /\ d.draining = x.drv[c].draining /\ d.selecting = x.drv[c].selecting
  BY <1>2, <1>8, <1>9, ObserverPut
<1>11. y = [st |-> [x.st EXCEPT ![i] = r], drv |-> [x.drv EXCEPT ![c] = d]]
  BY <1>1, <1>2, <1>3, <1>5, <1>6, <1>9 DEF Managed
<1>12. /\ y \in Managed /\ y.drv[c] = d /\ y.st[i] = r
       /\ \A j \in Ids : j # i => y.st[j] = x.st[j]
       /\ \A e \in Clients : e # c => y.drv[e] = x.drv[e]
  BY <1>2, <1>4, <1>10, <1>11, PutBoth
<1>13. Local(x, y, c, i) /\ ListsKept(x, y, c, i) /\ SameFlags(y.drv[c], x.drv[c])
  BY Zenon, <1>8, <1>10, <1>12 DEF Local, ListsKept, SameFlags
<1>14. Items(y, n, {})
  BY <1>4, <1>5, <1>8, <1>10, <1>12, <1>13, QueueItems
<1>15. Keeps(x, y)
  BY <1>2, <1>13, LocalKeeps
<1> QED
  BY <1>1, <1>14, <1>15

LEMMA ScheduleItems ==
  ASSUME NEW x, NEW n, NEW c, NEW i, Held(x, n, c, i), Observing(x, c),
         NextInLine(x.drv[c], tasks(x, c), i)
  PROVE  LET y == queueOrScheduleLoopUpdate(x, c, i) IN Items(y, n, {}) /\ Keeps(x, y)
<1>1. ~x.drv[c].observer.stopped /\ x.drv[c].observer.id # 0 /\ Above(i, x.drv[c].preserved)
  BY DEF Observing, NextInLine
<1>2. CASE ~x.drv[c].observer.concurrent /\ x.drv[c].observer.active
  <2>1. queueOrScheduleLoopUpdate(x, c, i)
          = [x EXCEPT !.drv[c].observer.queue = Append(@, i), !.st[i].status = "taken"]
    BY <1>2 DEF queueOrScheduleLoopUpdate
  <2>8. PICK y : y = [x EXCEPT !.drv[c].observer.queue = Append(@, i), !.st[i].status = "taken"]
    OBVIOUS
  <2>9. Items(y, n, {}) /\ Keeps(x, y)
    BY Zenon, <2>8, <1>1, <1>2, QueueStep
  <2> QED
    BY <2>1, <2>8, <2>9
<1>3. CASE ~(~x.drv[c].observer.concurrent /\ x.drv[c].observer.active)
  <2>1. queueOrScheduleLoopUpdate(x, c, i)
          = createUpdateTask([x EXCEPT !.drv[c].observer.active = TRUE], "LoopTask", c, i)
    BY <1>3 DEF queueOrScheduleLoopUpdate
  <2>2. ~x.drv[c].observer.concurrent => tasks(x, c) = {} /\ x.drv[c].observer.queue = <<>>
    BY <1>3, HeldState DEF InTurn
  <2>3. Above(i, <<>>)
    BY DEF Above
  <2> QED
    BY <1>1, <2>1, <2>2, <2>3, LoopTaskItems
<1> QED
  BY <1>2, <1>3

LEMMA ObserveItems ==
  ASSUME NEW x, NEW n, NEW c, NEW i, Held(x, n, c, i),
         hasGenericPumpConsumer(x, c) => NextInLine(x.drv[c], tasks(x, c), i)
  PROVE  LET y == observeManagedUpdate(x, c, i) IN Items(y, n, {}) /\ Keeps(x, y)
<1>1. CASE x.drv[c].selecting /\ x.drv[c].selected = 0
  <2>1. observeManagedUpdate(x, c, i) = [x EXCEPT !.drv[c].selected = i, !.st[i].status = "taken"]
    BY <1>1 DEF observeManagedUpdate
  <2>8. PICK y : y = [x EXCEPT !.drv[c].selected = i, !.st[i].status = "taken"]
    OBVIOUS
  <2>9. Items(y, n, {}) /\ Keeps(x, y)
    BY Zenon, <2>8, <1>1, SelectStep DEF hasGenericPumpConsumer
  <2> QED
    BY <2>1, <2>8, <2>9
<1>2. CASE ~(x.drv[c].selecting /\ x.drv[c].selected = 0) /\ Observing(x, c)
  <2>1. observeManagedUpdate(x, c, i) = queueOrScheduleLoopUpdate(x, c, i)
    BY <1>2 DEF observeManagedUpdate
  <2> QED
    BY <1>2, <2>1, ScheduleItems DEF hasGenericPumpConsumer
<1>3. CASE ~(x.drv[c].selecting /\ x.drv[c].selected = 0) /\ ~Observing(x, c)
  <2>1. observeManagedUpdate(x, c, i) = [x EXCEPT !.st[i].status = "dropped"]
    BY <1>3 DEF observeManagedUpdate
  <2>8. PICK y : y = [x EXCEPT !.st[i].status = "dropped"]
    OBVIOUS
  <2>9. Items(y, n, {}) /\ Keeps(x, y)
    BY <2>8, DropItems
  <2> QED
    BY <2>1, <2>8, <2>9
<1> QED
  BY <1>1, <1>2, <1>3

-----------------------------------------------------------------------------
(***************************************************************************)
(* A Task is over, and its loop with it or after it.                       *)
(***************************************************************************)

\* Of the members of c only those change that say how far its loop is.
LEMMA ObserverItems ==
  ASSUME NEW x, NEW y \in Managed, NEW n, NEW c \in Clients, Items(x, n, {}),
         y.st = x.st, \A e \in Clients : e # c => y.drv[e] = x.drv[e],
         y.drv[c].observer.id = x.drv[c].observer.id,
         y.drv[c].ready = x.drv[c].ready, y.drv[c].notifications = x.drv[c].notifications,
         Watched(y, c, n), InTurn(y.drv[c], tasks(x, c)),
         InPlace(y.drv[c], taken(x, c) \ {})
  PROVE  Items(y, n, {})
<1>0. /\ x \in Managed /\ n \in Nat
      /\ \A i \in Ids : Known(x, i) /\ OfLoop(x, i, n)
      /\ \A e \in Clients : /\ Listed(x, e) /\ Watched(x, e, n)
                            /\ InTurn(x.drv[e], tasks(x, e))
                            /\ InPlace(x.drv[e], taken(x, e) \ {})
  BY DEF Items
<1>1. \A i \in Ids : Known(y, i) /\ OfLoop(y, i, n)
  <2>1. \A i \in Ids : Known(y, i)
    BY <1>0 DEF Known
  <2>2. \A i \in Ids : OfLoop(y, i, n)
    BY <1>0 DEF OfLoop
  <2> QED
    BY <2>1, <2>2
<1>2. ASSUME NEW e \in Clients
      PROVE  Listed(y, e) /\ tasks(y, e) = tasks(x, e) /\ taken(y, e) = taken(x, e)
  <2>1. Listed(x, e)
    BY Zenon, <1>0
  <2>2. Listed(y, e)
    BY <2>1 DEF Listed
  <2>3. y.drv[e].observer.id = x.drv[e].observer.id
    OBVIOUS
  <2>4. tasks(y, e) = tasks(x, e) /\ taken(y, e) = taken(x, e)
    BY <2>3 DEF tasks, taken
  <2> QED
    BY <2>2, <2>4
<1>3. ASSUME NEW e \in Clients, e # c
      PROVE  /\ Watched(y, e, n) /\ InTurn(y.drv[e], tasks(y, e))
             /\ InPlace(y.drv[e], taken(y, e) \ {})
  <2>1. Watched(x, e, n) /\ y.drv[e] = x.drv[e]
    BY <1>0, <1>3
  <2>2. Watched(y, e, n)
    BY <2>1 DEF Watched
  <2>3. tasks(y, e) = tasks(x, e) /\ taken(y, e) = taken(x, e)
    BY <1>2
  <2> QED
    BY <1>0, <2>1, <2>2, <2>3
<1>4. InTurn(y.drv[c], tasks(y, c)) /\ InPlace(y.drv[c], taken(y, c) \ {})
  BY <1>2
<1> QED
  BY <1>0, <1>1, <1>2, <1>3, <1>4 DEF Items

LEMMA StopItems ==
  ASSUME NEW x, NEW n, NEW c \in Clients, Items(x, n, {}), x.drv[c].observer.id # 0
  PROVE  LET y == requestLoopStop(x, c) IN
         Items(y, n, {}) /\ Keeps(x, y) /\ y.drv[c].observer.stopped
<1>1. PICK y : y = requestLoopStop(x, c)
  OBVIOUS
<1>2. PICK W : W = ToSet(x.drv[c].observer.queue)
  OBVIOUS
<1>3. x \in Managed /\ x.drv[c] \in DriverRec /\ x.drv[c].observer \in ObserverRec
  BY ManagedType DEF Items
<1>4. PICK o : o = [x.drv[c].observer EXCEPT !.stopped = TRUE, !.queue = <<>>]
  OBVIOUS
<1>5. /\ o \in ObserverRec /\ o.id = x.drv[c].observer.id /\ o.stopped /\ o.queue = <<>>
      /\ o.concurrent = x.drv[c].observer.concurrent /\ o.active = x.drv[c].observer.active
  <2>1. PICK w : w = x.drv[c].observer
    OBVIOUS
  <2>2. w \in ObserverRec /\ o = [w EXCEPT !.stopped = TRUE, !.queue = <<>>] /\ <<>> \in Seq(Ids)
    BY <1>3, <1>4, <2>1
  <2> QED
    BY <2>1, <2>2 DEF ObserverRec
<1>6. PICK d : d = [x.drv[c] EXCEPT !.observer = o]
  OBVIOUS
<1>7. /\ d \in DriverRec /\ d.ready = x.drv[c].ready /\ d.notifications = x.drv[c].notifications
      /\ d.preserved = x.drv[c].preserved /\ d.selected = x.drv[c].selected
      /\ d.observer = o /\ d.consumer = x.drv[c].consumer
      /\ d.drive = x.drv[c].drive /\ d.active = x.drv[c].active
      /\ d.draining = x.drv[c].draining /\ d.selecting = x.drv[c].selecting
  BY <1>3, <1>5, <1>6, ObserverPut
<1>8. PICK st : st = [i \in Ids |-> IF i \in W THEN [x.st[i] EXCEPT !.status = "dropped"] ELSE x.st[i]]
  OBVIOUS
<1>9. /\ \A i \in Ids : i \notin W => st[i] = x.st[i]
      /\ \A i \in Ids : i \in W => st[i] = [x.st[i] EXCEPT !.status = "dropped"]
  BY <1>8
<1>10. st \in [Ids -> StateRec]
  <2>1. \A i \in Ids : [x.st[i] EXCEPT !.status = "dropped"] \in StateRec
    BY <1>3, ManagedType, StatusPut DEF Begun
  <2>2. \A i \in Ids : x.st[i] \in StateRec
    BY <1>3, ManagedType
  <2> QED
    BY <1>8, <2>1, <2>2
<1>11. y = [st |-> st, drv |-> [x.drv EXCEPT ![c] = d]]
  <2>1. y = [x EXCEPT !.drv[c].observer.stopped = TRUE, !.drv[c].observer.queue = <<>>, !.st = st]
    BY <1>1, <1>2, <1>8 DEF requestLoopStop
  <2>2. y = [x EXCEPT !.drv[c] = d, !.st = st]
    <3>1. d = [x.drv[c] EXCEPT !.observer.stopped = TRUE, !.observer.queue = <<>>]
      BY <1>4, <1>6
    <3>2. [x.drv EXCEPT ![c].observer.stopped = TRUE, ![c].observer.queue = <<>>] = [x.drv EXCEPT ![c] = d]
      BY <1>3, <3>1 DEF Managed
    <3> QED
      BY <1>3, <2>1, <3>2 DEF Managed
  <2> QED
    BY <1>3, <2>2 DEF Managed
<1>12. /\ y \in Managed /\ y.st = st /\ y.drv[c] = d
       /\ \A e \in Clients : e # c => y.drv[e] = x.drv[e]
  BY <1>3, <1>7, <1>10, <1>11, ManagedType DEF Managed
<1>13. \A i \in Ids : i \in W <=> \E e \in {c} : has(x.drv[e].observer.queue, i)
  BY <1>2 DEF ToSet, has
<1>14. \A e \in Clients : /\ y.drv[e].preserved = x.drv[e].preserved
                          /\ y.drv[e].selected = x.drv[e].selected
                          /\ y.drv[e].ready = x.drv[e].ready
                          /\ y.drv[e].notifications = x.drv[e].notifications
                          /\ e \notin {c} => y.drv[e].observer = x.drv[e].observer
  BY <1>7, <1>12
<1>15. Items(y, n, {})
  <2>1. PICK C : C = {c}
    OBVIOUS
  <2>2. \A e \in C : \/ y.drv[e].observer = NoObserver
                     \/ /\ y.drv[e].observer.id = x.drv[e].observer.id
                        /\ y.drv[e].observer.id # 0
                        /\ y.drv[e].observer.concurrent = x.drv[e].observer.concurrent
                        /\ y.drv[e].observer.active = x.drv[e].observer.active
                        /\ y.drv[e].observer.stopped /\ y.drv[e].observer.queue = <<>>
    BY <1>5, <1>7, <1>12, <2>1
  <2>3. /\ C \in SUBSET Clients /\ \A i \in Ids : i \in W <=> \E e \in C : has(x.drv[e].observer.queue, i)
        /\ \A e \in Clients : /\ y.drv[e].preserved = x.drv[e].preserved
                              /\ y.drv[e].selected = x.drv[e].selected
                              /\ y.drv[e].ready = x.drv[e].ready
                              /\ y.drv[e].notifications = x.drv[e].notifications
                              /\ e \notin C => y.drv[e].observer = x.drv[e].observer
    BY <1>13, <1>14, <2>1
  <2>4. /\ \A i \in Ids : i \notin W => y.st[i] = x.st[i]
        /\ \A i \in Ids : i \in W => y.st[i] = [x.st[i] EXCEPT !.status = "dropped"]
    BY <1>9, <1>12
  <2>5. Withdrawn(x, y, C, W)
    BY <2>2, <2>3, <2>4 DEF Withdrawn
  <2> QED
    BY <1>12, <2>3, <2>5, WithdrawItems
<1>16. Keeps(x, y)
  <2>1. \A e \in Clients : SameFlags(y.drv[e], x.drv[e])
    BY <1>5, <1>7, <1>12 DEF SameFlags
  <2>2. ASSUME NEW i \in Ids, x.st[i].status \in Entered PROVE y.st[i].status \in Entered
    <3>1. i \notin W
      <4>1. i \in W => x.st[i].status = "taken"
        BY <1>13, KeptTaken DEF isKept
      <4> QED
        BY <2>2, <4>1 DEF Entered
    <3> QED
      BY <1>9, <1>12, <2>2, <3>1
  <2> QED
    BY <2>1, <2>2 DEF Keeps
<1> QED
  BY <1>1, <1>5, <1>7, <1>12, <1>15, <1>16

LEMMA ActiveSame ==
  ASSUME NEW x \in Managed, NEW c \in Clients, x.drv[c].observer.active
  PROVE  [x EXCEPT !.drv[c].observer.active = TRUE] = x
<1>1. x.drv[c] \in DriverRec /\ x.drv[c].observer \in ObserverRec
  BY ManagedType
<1>2. ASSUME NEW o \in ObserverRec, o.active PROVE [o EXCEPT !.active = TRUE] = o
  BY <1>2 DEF ObserverRec
<1>3. ASSUME NEW d \in DriverRec PROVE [d EXCEPT !.observer = d.observer] = d
  BY DEF DriverRec
<1>4. [x.drv[c] EXCEPT !.observer.active = TRUE] = x.drv[c]
  BY <1>1, <1>2, <1>3
<1>5. [x.drv EXCEPT ![c].observer.active = TRUE] = x.drv
  BY <1>4 DEF Managed
<1> QED
  BY <1>5 DEF Managed

\* The state of a serial loop with nothing to do.
LEMMA IdleItems ==
  ASSUME NEW x, NEW n, NEW c \in Clients, Items(x, n, {}), x.drv[c].observer.id # 0,
         tasks(x, c) = {}, x.drv[c].observer.queue = <<>>
  PROVE  LET y == [x EXCEPT !.drv[c].observer.active = FALSE] IN Items(y, n, {}) /\ Keeps(x, y)
<1>1. PICK y : y = [x EXCEPT !.drv[c].observer.active = FALSE]
  OBVIOUS
<1>3. x \in Managed /\ x.drv[c] \in DriverRec /\ x.drv[c].observer \in ObserverRec
  BY ManagedType DEF Items
<1>4. PICK o : o = [x.drv[c].observer EXCEPT !.active = FALSE]
  OBVIOUS
<1>5. /\ o \in ObserverRec /\ o.id = x.drv[c].observer.id /\ ~o.active /\ o.queue = <<>>
      /\ o.concurrent = x.drv[c].observer.concurrent /\ o.stopped = x.drv[c].observer.stopped
  BY <1>3, <1>4 DEF ObserverRec
<1>6. PICK d : d = [x.drv[c] EXCEPT !.observer = o]
  OBVIOUS
<1>7. /\ d \in DriverRec /\ d.ready = x.drv[c].ready /\ d.notifications = x.drv[c].notifications
      /\ d.preserved = x.drv[c].preserved /\ d.selected = x.drv[c].selected
      /\ d.observer = o /\ d.consumer = x.drv[c].consumer
      /\ d.drive = x.drv[c].drive /\ d.active = x.drv[c].active
      /\ d.draining = x.drv[c].draining /\ d.selecting = x.drv[c].selecting
  BY <1>3, <1>5, <1>6, ObserverPut
<1>8. y = [x EXCEPT !.drv[c] = d]
  BY <1>1, <1>4, <1>6
<1>9. /\ y \in Managed /\ y.drv[c] = d /\ y.st = x.st
      /\ \A e \in Clients : e # c => y.drv[e] = x.drv[e]
  BY <1>3, <1>7, <1>8, PutDriver
<1>10. /\ Watched(x, c, n) /\ InTurn(x.drv[c], {}) /\ InPlace(x.drv[c], taken(x, c) \ {})
  BY DEF Items
<1>11. Watched(y, c, n)
  <2>1. \A e \in Clients \ {c} : y.drv[e].observer.id = o.id => o.id = 0
    BY <1>5, <1>9, <1>10 DEF Watched
  <2> QED
    BY <1>5, <1>7, <1>9, <1>10, <2>1 DEF Watched
<1>12. InTurn(d, {})
  BY <1>5, <1>7, <1>10 DEF InTurn
<1>13. InPlace(d, taken(x, c) \ {})
  BY <1>5, <1>7, <1>10 DEF InPlace, isKept
<1>14. Items(y, n, {})
  BY <1>5, <1>7, <1>9, <1>11, <1>12, <1>13, ObserverItems
<1>15. Keeps(x, y)
  BY <1>5, <1>7, <1>9 DEF Keeps, SameFlags
<1> QED
  BY <1>1, <1>14, <1>15

\* The next Task of a serial loop.
LEMMA NextItems ==
  ASSUME NEW x, NEW n, NEW c \in Clients, Items(x, n, {}), x.drv[c].observer.id # 0,
         tasks(x, c) = {}, x.drv[c].observer.queue # <<>>,
         ~x.drv[c].observer.concurrent, ~x.drv[c].observer.stopped
  PROVE  LET q == x.drv[c].observer.queue
             y == createUpdateTask([[x EXCEPT !.drv[c].observer.active = FALSE]
                                      EXCEPT !.drv[c].observer.queue = Tail(@),
                                             !.drv[c].observer.active = TRUE],
                                   "LoopTask", c, Head(q))
         IN Items(y, n, {}) /\ Keeps(x, y)
<1>1. PICK q : q = x.drv[c].observer.queue
  OBVIOUS
<1>2. PICK w : w = [[x EXCEPT !.drv[c].observer.active = FALSE]
                      EXCEPT !.drv[c].observer.queue = Tail(@), !.drv[c].observer.active = TRUE]
  OBVIOUS
<1>3. x \in Managed /\ x.drv[c] \in DriverRec /\ x.drv[c].observer \in ObserverRec
  BY ManagedType DEF Items
<1>4. PICK o : o = [x.drv[c].observer EXCEPT !.active = TRUE, !.queue = Tail(q)]
  OBVIOUS
<1>5. Tail(q) \in Seq(Ids)
  BY <1>1, <1>3, ObserverType
<1>6. /\ o \in ObserverRec /\ o.id = x.drv[c].observer.id /\ o.active /\ o.queue = Tail(q)
      /\ o.concurrent = x.drv[c].observer.concurrent /\ o.stopped = x.drv[c].observer.stopped
  <2>1. PICK v, p : v = x.drv[c].observer /\ p = Tail(q)
    OBVIOUS
  <2>2. v \in ObserverRec /\ p \in Seq(Ids) /\ o = [v EXCEPT !.active = TRUE, !.queue = p]
    BY <1>3, <1>4, <1>5, <2>1
  <2> QED
    BY <2>1, <2>2 DEF ObserverRec
<1>7. PICK d : d = [x.drv[c] EXCEPT !.observer = o]
  OBVIOUS
<1>8. /\ d \in DriverRec /\ d.ready = x.drv[c].ready /\ d.notifications = x.drv[c].notifications
      /\ d.preserved = x.drv[c].preserved /\ d.selected = x.drv[c].selected
      /\ d.observer = o /\ d.consumer = x.drv[c].consumer
      /\ d.drive = x.drv[c].drive /\ d.active = x.drv[c].active
      /\ d.draining = x.drv[c].draining /\ d.selecting = x.drv[c].selecting
  BY <1>3, <1>6, <1>7, ObserverPut
<1>9. w = [x EXCEPT !.drv[c] = d]
  <2>1. PICK p : p = [x.drv[c].observer EXCEPT !.active = FALSE]
    OBVIOUS
  <2>2. p.queue = q /\ [p EXCEPT !.queue = Tail(q), !.active = TRUE] = o
    BY <1>1, <1>3, <1>4, <2>1 DEF ObserverRec
  <2>3. PICK b : b = [x.drv[c] EXCEPT !.observer = p]
    OBVIOUS
  <2>4. b.observer = p /\ [b EXCEPT !.observer = o] = d
    BY <1>3, <1>7, <2>3 DEF DriverRec
  <2>5. PICK z : z = [x EXCEPT !.drv[c] = b]
    OBVIOUS
  <2>6. z.drv[c] = b /\ [z EXCEPT !.drv[c] = d] = [x EXCEPT !.drv[c] = d]
    BY <1>3, <2>5 DEF Managed
  <2>7. [x EXCEPT !.drv[c].observer.active = FALSE] = z
    BY <2>1, <2>3, <2>5
  <2>8. w = [z EXCEPT !.drv[c].observer.queue = Tail(@), !.drv[c].observer.active = TRUE]
    BY <1>2, <2>7
  <2>9. [p EXCEPT !.queue = Tail(@), !.active = TRUE] = o
    BY <2>2
  <2>10. [b EXCEPT !.observer.queue = Tail(@), !.observer.active = TRUE] = d
    BY <2>4, <2>9
  <2>11. [z.drv EXCEPT ![c].observer.queue = Tail(@), ![c].observer.active = TRUE]
           = [z.drv EXCEPT ![c] = d]
    <3>1. z.drv \in [Clients -> DriverRec]
      <4>1. p \in ObserverRec
        BY <1>3, <2>1 DEF ObserverRec
      <4>2. b \in DriverRec
        BY <1>3, <2>3, <4>1, ObserverPut
      <4> QED
        BY <1>3, <2>5, <4>2, PutDriver, ManagedType
    <3>2. d = [z.drv[c] EXCEPT !.observer.queue = Tail(@), !.observer.active = TRUE]
      BY <2>6, <2>10
    <3>3. PICK f : f = z.drv
      OBVIOUS
    <3>4. f \in [Clients -> DriverRec]
          /\ d = [f[c] EXCEPT !.observer.queue = Tail(@), !.observer.active = TRUE]
      BY <3>1, <3>2, <3>3
    <3>5. [f EXCEPT ![c].observer.queue = Tail(@), ![c].observer.active = TRUE] = [f EXCEPT ![c] = d]
      BY <3>4
    <3> QED
      BY <3>3, <3>5
  <2>12. w = [z EXCEPT !.drv[c] = d]
    BY <2>8, <2>11
  <2> QED
    BY <2>6, <2>12
<1>10. /\ w \in Managed /\ w.drv[c] = d /\ w.st = x.st
       /\ \A e \in Clients : e # c => w.drv[e] = x.drv[e]
  BY <1>3, <1>8, <1>9, PutDriver
<1>11. PICK i : i = Head(q)
  BY Zenon
<1>12. /\ Held(w, n, c, i) /\ tasks(w, c) = {} /\ w.drv[c].observer.id # 0
       /\ Above(i, w.drv[c].preserved) /\ Above(i, w.drv[c].observer.queue)
  BY <1>1, <1>6, <1>8, <1>10, <1>11, TakeQueued
<1>13. [w EXCEPT !.drv[c].observer.active = TRUE] = w
  BY <1>6, <1>8, <1>10, ActiveSame
<1>14. PICK y : y = createUpdateTask([w EXCEPT !.drv[c].observer.active = TRUE], "LoopTask", c, i)
  OBVIOUS
<1>15. ~w.drv[c].observer.stopped
  BY <1>6, <1>8, <1>10
<1>16. Items(y, n, {}) /\ Keeps(w, y)
  BY <1>12, <1>14, <1>15, LoopTaskItems
<1>17. Keeps(x, w)
  BY <1>6, <1>8, <1>10 DEF Keeps, SameFlags
<1>18. Keeps(x, y)
  BY <1>16, <1>17, KeepsTrans
<1> QED
  BY Zenon, <1>1, <1>2, <1>11, <1>13, <1>14, <1>16, <1>18

LEMMA KeepsSame == ASSUME NEW x PROVE Keeps(x, x)
      BY DEF Keeps, SameFlags

LEMMA FinishItems ==
  ASSUME NEW x, NEW n, NEW t \in Ids, NEW stop \in BOOLEAN, Items(x, n, {}),
         x.st[t].kind = "LoopTask" /\ x.st[t].observer = x.drv[x.st[t].client].observer.id
           /\ ~x.drv[x.st[t].client].observer.concurrent => tasks(x, x.st[t].client) = {}
  PROVE  LET y == finishLoopTask(x, t, stop) IN Items(y, n, {}) /\ Keeps(x, y)
<1>1. PICK c : c = x.st[t].client
  OBVIOUS
<1>2. CASE x.st[t].kind # "LoopTask" \/ x.st[t].observer # x.drv[c].observer.id
  <2>1. finishLoopTask(x, t, stop) = x
    BY Zenon, <1>1, <1>2 DEF finishLoopTask
  <2> QED
    BY <2>1, KeepsSame
<1>3. CASE ~(x.st[t].kind # "LoopTask" \/ x.st[t].observer # x.drv[c].observer.id)
  <2>1. Known(x, t) /\ OfLoop(x, t, n) /\ x \in Managed
    BY DEF Items
  <2>2. c \in Clients /\ x.drv[c].observer.id # 0
    BY <1>1, <1>3, <2>1 DEF Known, OfLoop
  <2>3. CASE stop \/ x.st[t].status = "failed"
    <3>1. PICK y : y = requestLoopStop(x, c)
      OBVIOUS
    <3>2. Items(y, n, {}) /\ Keeps(x, y) /\ y.drv[c].observer.stopped
      BY <2>2, <3>1, StopItems
    <3>3. finishLoopTask(x, t, stop) = y
      BY Zenon, <1>1, <1>3, <2>3, <3>1, <3>2 DEF finishLoopTask
    <3> QED
      BY <3>2, <3>3
  <2>4. CASE ~(stop \/ x.st[t].status = "failed")
    <3>1. CASE x.drv[c].observer.stopped \/ x.drv[c].observer.concurrent
      <4>1. finishLoopTask(x, t, stop) = x
        BY Zenon, <1>1, <1>3, <2>4, <3>1 DEF finishLoopTask
      <4> QED
        BY <4>1, KeepsSame
    <3>2. CASE /\ ~(x.drv[c].observer.stopped \/ x.drv[c].observer.concurrent)
               /\ x.drv[c].observer.queue = <<>>
      <4>1. finishLoopTask(x, t, stop) = [x EXCEPT !.drv[c].observer.active = FALSE]
        BY Zenon, <1>1, <1>3, <2>4, <3>2 DEF finishLoopTask
      <4>2. PICK y : y = [x EXCEPT !.drv[c].observer.active = FALSE]
        OBVIOUS
      <4>3. Items(y, n, {}) /\ Keeps(x, y)
        BY <1>1, <1>3, <2>2, <3>2, <4>2, IdleItems
      <4> QED
        BY <4>1, <4>2, <4>3
    <3>3. CASE /\ ~(x.drv[c].observer.stopped \/ x.drv[c].observer.concurrent)
               /\ x.drv[c].observer.queue # <<>>
      <4>1. PICK y : y = createUpdateTask([[x EXCEPT !.drv[c].observer.active = FALSE]
                                            EXCEPT !.drv[c].observer.queue = Tail(@),
                                                   !.drv[c].observer.active = TRUE],
                                          "LoopTask", c, Head(x.drv[c].observer.queue))
        OBVIOUS
      <4>2. finishLoopTask(x, t, stop) = y
        BY Zenon, <1>1, <1>3, <2>4, <3>3, <4>1 DEF finishLoopTask
      <4>3. Items(y, n, {}) /\ Keeps(x, y)
        BY Zenon, <1>1, <1>3, <2>2, <3>3, <4>1, NextItems
      <4> QED
        BY <4>2, <4>3
    <3> QED
      BY <3>1, <3>2, <3>3
  <2> QED
    BY <2>3, <2>4
<1> QED
  BY <1>2, <1>3

-----------------------------------------------------------------------------
(***************************************************************************)
(* Requests are answered, Tasks run, wait and end.                         *)
(***************************************************************************)

LEMMA MoveItems ==
  ASSUME NEW x, NEW y \in Managed, NEW n, NEW t \in Ids, Items(x, n, {}),
         \A j \in Ids : j # t => y.st[j] = x.st[j],
         y.st[t].kind = x.st[t].kind, y.st[t].client = x.st[t].client,
         y.st[t].observer = x.st[t].observer,
         x.st[t].status \in Begun \cup {"pending"}, y.st[t].status \in Begun,
         y.st[t].kind = "LoopTask" /\ y.st[t].status \in Unfinished => x.st[t].status \in Unfinished,
         y.st[t].status = "waiting" => y.st[t].dep \in Ids /\ x.st[y.st[t].dep].kind # "none",
         \A c \in Clients : Relisted(x, y, c, t)
  PROVE  /\ Items(y, n, {}) /\ \A c \in Clients : tasks(y, c) \subseteq tasks(x, c)
         /\ (\A c \in Clients : SameFlags(y.drv[c], x.drv[c]))
              /\ (x.st[t].status \in Entered => y.st[t].status \in Entered)
            => Keeps(x, y)
<1>0. /\ x \in Managed /\ \A i \in Ids : Known(x, i)
      /\ \A c \in Clients : Listed(x, c)
  BY DEF Items
<1>1. ASSUME NEW i \in Ids
      PROVE  /\ y.st[i].kind = x.st[i].kind /\ y.st[i].client = x.st[i].client
             /\ y.st[i].observer = x.st[i].observer
             /\ (y.st[i].status = "taken" <=> x.st[i].status = "taken")
             /\ (y.st[i].kind = "LoopTask" /\ y.st[i].status \in Unfinished
                   => x.st[i].status \in Unfinished)
  <2>1. CASE i = t
    BY <2>1 DEF Begun, Unfinished
  <2>2. CASE i # t
    BY <2>2
  <2> QED
    BY <2>1, <2>2
<1>2. ASSUME NEW i \in Ids PROVE Known(y, i)
  <2>1. CASE i = t
    <3>1. Known(x, t)
      BY <1>0
    <3> QED
      BY <1>1, <2>1, <3>1 DEF Known, Begun, Unfinished
  <2>2. CASE i # t
    <3>1. Known(x, i) /\ y.st[i] = x.st[i]
      BY Zenon, <1>0, <2>2
    <3> QED
      BY <1>1, <3>1 DEF Known
  <2> QED
    BY <2>1, <2>2
<1>3. ASSUME NEW c \in Clients PROVE Listed(y, c)
  <2>0. /\ x.drv[c].ready \in Seq(Ids) /\ x.drv[c].notifications \subseteq Ids
        /\ Listed(x, c) /\ Relisted(x, y, c, t)
    BY Zenon, <1>0, ManagedType, DriverType
  <2>1. ASSUME NEW k \in DOMAIN y.drv[c].ready
        PROVE  y.st[y.drv[c].ready[k]].status \in Due /\ y.st[y.drv[c].ready[k]].client = c
    <3>1. CASE y.drv[c].ready[k] = t
      BY <2>0, <3>1 DEF Relisted
    <3>2. CASE y.drv[c].ready[k] # t
      <4>1. PICK j \in DOMAIN x.drv[c].ready : x.drv[c].ready[j] = y.drv[c].ready[k]
        BY Zenon, <2>0, <3>2 DEF Relisted, has
      <4>2. /\ x.drv[c].ready[j] \in Ids /\ x.st[x.drv[c].ready[j]].status \in Due
            /\ x.st[x.drv[c].ready[j]].client = c
        BY <2>0 DEF Listed
      <4> QED
        BY <3>2, <4>1, <4>2
    <3> QED
      BY <3>1, <3>2
  <2>2. ASSUME NEW j \in y.drv[c].notifications
        PROVE  y.st[j].status = "waiting" /\ y.st[y.st[j].dep].client = c
    <3>1. j # t /\ j \in x.drv[c].notifications /\ j \in Ids
      BY Zenon, <2>0 DEF Relisted
    <3>2. x.st[j].status = "waiting" /\ x.st[x.st[j].dep].client = c
      BY <2>0, <3>1 DEF Listed
    <3>3. x.st[j].dep \in Ids
      BY <1>0, <3>1, <3>2 DEF Known
    <3> QED
      BY <1>1, <3>1, <3>2, <3>3
  <2> QED
    BY <2>0, <2>1, <2>2 DEF Listed, Relisted
<1>4. \A c \in Clients : /\ y.drv[c].preserved = x.drv[c].preserved
                         /\ y.drv[c].selected = x.drv[c].selected
                         /\ y.drv[c].observer = x.drv[c].observer
                         /\ Listed(y, c)
  BY <1>3 DEF Relisted
<1>5. Items(y, n, {}) /\ \A c \in Clients : tasks(y, c) \subseteq tasks(x, c)
  BY <1>1, <1>2, <1>4, MovesItems
<1>6. ASSUME x.st[t].status \in Entered => y.st[t].status \in Entered
      PROVE  \A i \in Ids : x.st[i].status \in Entered => y.st[i].status \in Entered
  BY Zenon, <1>6
<1> QED
  BY <1>5, <1>6 DEF Keeps

\* Nothing but state t and members that do not matter here.
LEMMA SameListed ==
  ASSUME NEW x, NEW y, NEW n, NEW t, NEW c \in Clients, Items(x, n, {}),
         y.drv[c].preserved = x.drv[c].preserved, y.drv[c].selected = x.drv[c].selected,
         y.drv[c].observer = x.drv[c].observer, y.drv[c].ready = x.drv[c].ready,
         \/ t \notin x.drv[c].notifications /\ y.drv[c].notifications = x.drv[c].notifications
         \/ y.drv[c].notifications = x.drv[c].notifications \ {t},
         x.st[t].status \notin Due \/ y.st[t].status \in Due, y.st[t].client = x.st[t].client
  PROVE  Relisted(x, y, c, t)
<1>1. Listed(x, c)
  BY Zenon DEF Items
<1>2. \A k \in DOMAIN x.drv[c].ready : x.drv[c].ready[k] = t => y.st[t].status \in Due /\ y.st[t].client = c
  BY <1>1 DEF Listed
<1> QED
  BY <1>1, <1>2 DEF Listed, Relisted, has

\* Whoever does not wait is not to be called.
LEMMA NotNotified ==
  ASSUME NEW x, NEW n, NEW t, Items(x, n, {}), x.st[t].status # "waiting"
  PROVE  \A c \in Clients : t \notin x.drv[c].notifications
      BY DEF Items, Listed

LEMMA OverItems ==
  ASSUME NEW x \in Managed, NEW n, NEW t \in Ids, NEW c \in Clients, Items(x, n, {}),
         x.st[t].status = "running", NEW status \in {"done", "failed"}, NEW e \in Int
  PROVE  LET y == [x EXCEPT !.st[t].status = status, !.drv[c].errors = e] IN
         Items(y, n, {}) /\ Keeps(x, y) /\ Over(x, y, t)
<1>1. PICK y : y = [x EXCEPT !.st[t].status = status, !.drv[c].errors = e]
  OBVIOUS
<1>2. x \in Managed /\ x.st[t] \in StateRec /\ x.drv[c] \in DriverRec
  BY ManagedType DEF Items
<1>3. PICK r : r = [x.st[t] EXCEPT !.status = status]
  OBVIOUS
<1>4. /\ r \in StateRec /\ r.status = status /\ r.kind = x.st[t].kind
      /\ r.client = x.st[t].client /\ r.observer = x.st[t].observer
  BY <1>2, <1>3, StatusPut DEF Begun
<1>5. PICK d : d = [x.drv[c] EXCEPT !.errors = e]
  OBVIOUS
<1>6. /\ d \in DriverRec /\ d.ready = x.drv[c].ready /\ d.notifications = x.drv[c].notifications
      /\ d.preserved = x.drv[c].preserved /\ d.selected = x.drv[c].selected
      /\ d.observer = x.drv[c].observer /\ d.consumer = x.drv[c].consumer
      /\ d.drive = x.drv[c].drive /\ d.active = x.drv[c].active
      /\ d.draining = x.drv[c].draining /\ d.selecting = x.drv[c].selecting
  BY <1>2, <1>5, ErrorsPut
<1>7. y = [st |-> [x.st EXCEPT ![t] = r], drv |-> [x.drv EXCEPT ![c] = d]]
  BY <1>1, <1>2, <1>3, <1>5 DEF Managed
<1>8. /\ y \in Managed /\ y.st[t] = r /\ y.drv[c] = d
      /\ \A j \in Ids : j # t => y.st[j] = x.st[j]
      /\ \A b \in Clients : b # c => y.drv[b] = x.drv[b]
  BY <1>2, <1>4, <1>6, <1>7, PutBoth
<1>9. \A b \in Clients : Relisted(x, y, b, t)
  <2>1. \A b \in Clients : t \notin x.drv[b].notifications
    BY NotNotified
  <2>2. y.st[t].status \in Due /\ y.st[t].client = x.st[t].client
    BY <1>4, <1>8 DEF Due, Begun
  <2> QED
    BY <1>6, <1>8, <2>1, <2>2, SameListed
<1>10. \A b \in Clients : SameFlags(y.drv[b], x.drv[b]) /\ y.drv[b].observer = x.drv[b].observer
  BY <1>6, <1>8 DEF SameFlags
<1>11. /\ x.st[t].status \in Begun \cup {"pending"} /\ y.st[t].status \in Begun
       /\ y.st[t].status \notin Unfinished /\ y.st[t].status # "waiting"
       /\ y.st[t].status \in Entered
  BY <1>4, <1>8 DEF Begun, Unfinished, Entered
<1>12. Items(y, n, {}) /\ Keeps(x, y) /\ \A b \in Clients : tasks(y, b) \subseteq tasks(x, b)
  BY <1>4, <1>8, <1>9, <1>10, <1>11, MoveItems
<1>13. \A b \in Clients : t \notin tasks(y, b)
  BY <1>11 DEF tasks
<1>14. x.st[t].client \in Clients
  <2>1. Known(x, t)
    BY DEF Items
  <2> QED
    BY <2>1 DEF Known
<1>15. Over(x, y, t)
  BY <1>4, <1>8, <1>10, <1>12, <1>13, <1>14 DEF Over
<1> QED
  BY <1>1, <1>12, <1>15

LEMMA TailOnce ==
  ASSUME NEW q \in Seq(Ids), q # <<>>, OnceEach(q)
  PROVE  /\ Head(q) \in Ids /\ Tail(q) \in Seq(Ids) /\ has(q, Head(q)) /\ OnceEach(Tail(q))
         /\ \A k \in DOMAIN Tail(q) : has(q, Tail(q)[k]) /\ Tail(q)[k] # Head(q)
<1>1. /\ Len(q) \in Nat \ {0} /\ DOMAIN q = 1 .. Len(q) /\ Head(q) = q[1]
      /\ Tail(q) \in Seq(Ids) /\ DOMAIN Tail(q) = 1 .. Len(q) - 1
      /\ \A k \in 1 .. Len(q) - 1 : Tail(q)[k] = q[k + 1]
      /\ \A k \in 1 .. Len(q) : q[k] \in Ids
  OBVIOUS
<1>2. \A k \in 1 .. Len(q) - 1 : k + 1 \in 1 .. Len(q) /\ k + 1 # 1
  BY <1>1
<1>3. \A j, k \in 1 .. Len(q) - 1 : j + 1 = k + 1 => j = k
  BY <1>1
<1>4. 1 \in 1 .. Len(q)
  BY <1>1
<1>5. OnceEach(Tail(q))
  BY <1>1, <1>2, <1>3 DEF OnceEach
<1>6. \A k \in DOMAIN Tail(q) : has(q, Tail(q)[k]) /\ Tail(q)[k] # Head(q)
  BY <1>1, <1>2, <1>4 DEF OnceEach, has
<1> QED
  BY <1>1, <1>4, <1>5, <1>6 DEF has

\* What is ready is taken from the list; a Task begins to run.
LEMMA RunItems ==
  ASSUME NEW x, NEW n, NEW c \in Clients, Items(x, n, {}), x.drv[c].ready # <<>>
  PROVE  LET i == Head(x.drv[c].ready)
             y == [x EXCEPT !.drv[c].ready = Tail(@)]
             z == [y EXCEPT !.st[i].status = "running"]
         IN /\ i \in Ids /\ x.st[i].status \in Due /\ x.st[i].kind # "none"
            /\ Items(y, n, {}) /\ Keeps(x, y)
            /\ ~isTerminalState(x, i) => Items(z, n, {}) /\ Keeps(x, z) /\ z.st[i].status = "running"
<1>1. x \in Managed /\ x.drv[c] \in DriverRec /\ Listed(x, c)
  BY ManagedType DEF Items
<1>2. PICK q : q = x.drv[c].ready
  OBVIOUS
<1>3. PICK i : i = Head(q)
  OBVIOUS
<1>4. /\ q \in Seq(Ids) /\ i \in Ids /\ Tail(q) \in Seq(Ids) /\ has(q, i) /\ OnceEach(Tail(q))
      /\ \A k \in DOMAIN Tail(q) : has(q, Tail(q)[k]) /\ Tail(q)[k] # i
  BY <1>1, <1>2, <1>3, DriverType, TailOnce DEF Listed
<1>5. x.st[i].status \in Due /\ x.st[i].client = c
  BY <1>1, <1>2, <1>4 DEF Listed, has
<1>6. x.st[i].kind # "none" /\ x.st[i].status \in Begun /\ x.st[i].status \notin {"running", "waiting"}
  <2>1. Known(x, i)
    BY <1>4 DEF Items
  <2> QED
    BY <1>5, <2>1 DEF Known, Due, Begun, Unfinished
<1>7. PICK d : d = [x.drv[c] EXCEPT !.ready = Tail(q)]
  OBVIOUS
<1>8. /\ d \in DriverRec /\ d.ready = Tail(q) /\ d.notifications = x.drv[c].notifications
      /\ d.preserved = x.drv[c].preserved /\ d.selected = x.drv[c].selected
      /\ d.observer = x.drv[c].observer /\ d.consumer = x.drv[c].consumer
      /\ d.drive = x.drv[c].drive /\ d.active = x.drv[c].active
      /\ d.draining = x.drv[c].draining /\ d.selecting = x.drv[c].selecting
  <2>1. PICK p : p = Tail(q)
    OBVIOUS
  <2>2. p \in Seq(Ids) /\ d = [x.drv[c] EXCEPT !.ready = p]
    BY <1>4, <1>7, <2>1
  <2> QED
    BY <1>1, <1>7, <2>1, <2>2 DEF DriverRec
<1>9. PICK y : y = [x EXCEPT !.drv[c].ready = Tail(@)]
  OBVIOUS
<1>10. y = [x EXCEPT !.drv[c] = d]
  BY <1>2, <1>7, <1>9
<1>11. /\ y \in Managed /\ y.drv[c] = d /\ y.st = x.st
       /\ \A e \in Clients : e # c => y.drv[e] = x.drv[e]
  BY <1>1, <1>8, <1>10, PutDriver
<1>12. \A b \in Clients : i \notin x.drv[b].notifications
  BY <1>6, NotNotified
<1>13. ASSUME NEW z, NEW b \in Clients, z.drv = y.drv PROVE Relisted(x, z, b, i)
  <2>1. CASE b = c
    <3>1. PICK e : e = z.drv[c]
      OBVIOUS
    <3>2. e = d
      BY Zenon, <1>11, <1>13, <3>1
    <3>3. /\ OnceEach(e.ready) /\ \A k \in DOMAIN e.ready : e.ready[k] # i /\ has(q, e.ready[k])
          /\ e.notifications \subseteq x.drv[c].notifications \ {i}
      BY <1>4, <1>8, <1>12, <3>2
    <3> QED
      BY <1>2, <1>8, <2>1, <3>1, <3>2, <3>3 DEF Relisted
  <2>2. CASE b # c
    <3>1. Listed(x, b) /\ z.drv[b] = x.drv[b]
      BY <1>11, <1>13, <2>2 DEF Items
    <3>2. \A k \in DOMAIN x.drv[b].ready : x.drv[b].ready[k] # i
      BY <1>5, <2>2, <3>1 DEF Listed
    <3> QED
      BY <1>12, <3>1, <3>2 DEF Listed, Relisted, has
  <2> QED
    BY <2>1, <2>2
<1>14. \A b \in Clients : SameFlags(y.drv[b], x.drv[b])
  BY <1>8, <1>11 DEF SameFlags
<1>15. Items(y, n, {}) /\ Keeps(x, y)
  <2>1. y.st[i].status \in Begun /\ y.st[i].status # "waiting"
    BY <1>6, <1>11
  <2>2. \A b \in Clients : Relisted(x, y, b, i)
    BY <1>13
  <2>3. /\ \A j \in Ids : j # i => y.st[j] = x.st[j]
        /\ y.st[i] = x.st[i]
    BY <1>11
  <2> QED
    BY <1>4, <1>6, <1>11, <1>14, <2>1, <2>2, <2>3, MoveItems
<1>16. ASSUME ~isTerminalState(x, i), NEW z, z = [y EXCEPT !.st[i].status = "running"]
       PROVE  Items(z, n, {}) /\ Keeps(x, z) /\ z.st[i].status = "running"
  <2>1. PICK r : r = [x.st[i] EXCEPT !.status = "running"]
    OBVIOUS
  <2>2. x.st[i] \in StateRec
    BY <1>1, <1>4, ManagedType
  <2>3. /\ r \in StateRec /\ r.status = "running" /\ r.kind = x.st[i].kind
        /\ r.client = x.st[i].client /\ r.observer = x.st[i].observer
    BY <2>1, <2>2, StatusPut DEF Begun, Unfinished
  <2>4. z = [y EXCEPT !.st[i] = r]
    BY <1>11, <1>16, <2>1
  <2>5. /\ z \in Managed /\ z.st[i] = r /\ z.drv = y.drv
        /\ \A j \in Ids : j # i => z.st[j] = x.st[j]
    BY <1>4, <1>11, <2>3, <2>4, PutState
  <2>6. x.st[i].status \in Unfinished
    BY <1>5, <1>16 DEF Due, Begun, isTerminalState
  <2>7. /\ z.st[i].status \in Begun /\ z.st[i].status # "waiting" /\ z.st[i].status \in Entered
    BY <2>3, <2>5 DEF Begun, Unfinished, Entered
  <2>8. \A b \in Clients : Relisted(x, z, b, i) /\ SameFlags(z.drv[b], x.drv[b])
    BY <1>13, <1>14, <2>5
  <2> QED
    BY <1>4, <1>6, <2>3, <2>5, <2>6, <2>7, <2>8, MoveItems
<1> QED
  BY Zenon, <1>2, <1>3, <1>4, <1>5, <1>6, <1>9, <1>15, <1>16

LEMMA CallItems ==
  ASSUME NEW x, NEW n, NEW t \in Ids, Items(x, n, {}), x.st[t].status = "waiting",
         NEW e \in Clients, x.st[x.st[t].dep].client = e
  PROVE  LET y == [x EXCEPT !.st[t].status = "running", !.st[t].dep = 0,
                            !.drv[e].notifications = @ \ {t}] IN
         Items(y, n, {}) /\ Keeps(x, y) /\ y.st[t].status = "running"
<1>1. PICK y : y = [x EXCEPT !.st[t].status = "running", !.st[t].dep = 0,
                             !.drv[e].notifications = @ \ {t}]
  OBVIOUS
<1>2. x \in Managed /\ x.st[t] \in StateRec /\ x.drv[e] \in DriverRec
  BY ManagedType DEF Items
<1>3. PICK r : r = [x.st[t] EXCEPT !.status = "running", !.dep = 0]
  OBVIOUS
<1>4. /\ r \in StateRec /\ r.status = "running" /\ r.kind = x.st[t].kind
      /\ r.client = x.st[t].client /\ r.observer = x.st[t].observer
  <2>1. PICK v, w, j : v = x.st[t] /\ w = "running" /\ j = 0
    OBVIOUS
  <2>2. v \in StateRec /\ w \in {"running", "waiting"} /\ j \in {0} \cup Ids
        /\ r = [v EXCEPT !.status = w, !.dep = j]
    BY <1>2, <1>3, <2>1
  <2>3. /\ r \in StateRec /\ r.status = w /\ r.kind = v.kind /\ r.client = v.client
        /\ r.dep = j /\ r.observer = v.observer
    BY <2>2 DEF StateRec, Begun, Unfinished
  <2> QED
    BY <2>1, <2>3
<1>5. PICK S : S = x.drv[e].notifications \ {t}
  OBVIOUS
<1>6. PICK d : d = [x.drv[e] EXCEPT !.notifications = S]
  OBVIOUS
<1>7. S \in SUBSET Ids
  BY <1>2, <1>5, DriverType
<1>8. /\ d \in DriverRec /\ d.ready = x.drv[e].ready /\ d.notifications = S
      /\ d.preserved = x.drv[e].preserved /\ d.selected = x.drv[e].selected
      /\ d.observer = x.drv[e].observer /\ d.consumer = x.drv[e].consumer
      /\ d.drive = x.drv[e].drive /\ d.active = x.drv[e].active
      /\ d.draining = x.drv[e].draining /\ d.selecting = x.drv[e].selecting
  BY <1>2, <1>6, <1>7, NotificationsPut
<1>9. y = [st |-> [x.st EXCEPT ![t] = r], drv |-> [x.drv EXCEPT ![e] = d]]
  <2>1. y = [x EXCEPT !.st[t] = r, !.drv[e] = d]
    <3>1. [x.st EXCEPT ![t].status = "running", ![t].dep = 0] = [x.st EXCEPT ![t] = r]
      BY <1>2, <1>3 DEF Managed
    <3> QED
      BY <1>1, <1>2, <1>5, <1>6, <3>1 DEF Managed
  <2> QED
    BY <1>2, <2>1 DEF Managed
<1>10. /\ y \in Managed /\ y.st[t] = r /\ y.drv[e] = d
       /\ \A j \in Ids : j # t => y.st[j] = x.st[j]
       /\ \A b \in Clients : b # e => y.drv[b] = x.drv[b]
  BY <1>2, <1>4, <1>8, <1>9, PutBoth
<1>11. x.st[t].status \notin Due
  BY DEF Due
<1>12. ASSUME NEW b \in Clients PROVE Relisted(x, y, b, t)
  <2>1. CASE b = e
    BY <1>4, <1>5, <1>8, <1>10, <1>11, <2>1, SameListed
  <2>2. CASE b # e
    <3>1. Listed(x, b) /\ y.drv[b] = x.drv[b]
      BY <1>10, <2>2 DEF Items
    <3>2. t \notin x.drv[b].notifications
      BY <2>2, <3>1 DEF Listed
    <3> QED
      BY <1>4, <1>10, <1>11, <3>1, <3>2, SameListed
  <2> QED
    BY <2>1, <2>2
<1>13. \A b \in Clients : SameFlags(y.drv[b], x.drv[b])
  BY <1>8, <1>10 DEF SameFlags
<1>14. /\ x.st[t].status \in Begun \cup {"pending"} /\ x.st[t].status \in Unfinished
       /\ y.st[t].status \in Begun /\ y.st[t].status # "waiting" /\ y.st[t].status \in Entered
  BY <1>4, <1>10 DEF Begun, Unfinished, Entered
<1>15. Items(y, n, {}) /\ Keeps(x, y)
  BY <1>4, <1>10, <1>12, <1>13, <1>14, MoveItems
<1> QED
  BY <1>1, <1>4, <1>10, <1>15

LEMMA WaitItems ==
  ASSUME NEW x, NEW n, NEW t \in Ids, NEW i \in Ids, Items(x, n, {}),
         x.st[t].status = "running", x.st[i].kind # "none"
  PROVE  LET y == [x EXCEPT !.st[t].status = "waiting", !.st[t].dep = i] IN
         /\ Items(y, n, {}) /\ \A b \in Clients : SameFlags(y.drv[b], x.drv[b])
         /\ \A j \in Ids : j # t => y.st[j] = x.st[j]
<1>1. PICK y : y = [x EXCEPT !.st[t].status = "waiting", !.st[t].dep = i]
  OBVIOUS
<1>2. x \in Managed /\ x.st[t] \in StateRec
  BY ManagedType DEF Items
<1>3. PICK r : r = [x.st[t] EXCEPT !.status = "waiting", !.dep = i]
  OBVIOUS
<1>4. /\ r \in StateRec /\ r.status = "waiting" /\ r.kind = x.st[t].kind
      /\ r.client = x.st[t].client /\ r.observer = x.st[t].observer /\ r.dep = i
  <2>1. PICK v, w, j : v = x.st[t] /\ w = "waiting" /\ j = i
    OBVIOUS
  <2>2. v \in StateRec /\ w \in {"running", "waiting"} /\ j \in {0} \cup Ids
        /\ r = [v EXCEPT !.status = w, !.dep = j]
    BY <1>2, <1>3, <2>1
  <2>3. /\ r \in StateRec /\ r.status = w /\ r.kind = v.kind /\ r.client = v.client
        /\ r.dep = j /\ r.observer = v.observer
    BY <2>2 DEF StateRec, Begun, Unfinished
  <2> QED
    BY <2>1, <2>3
<1>9. y = [x EXCEPT !.st[t] = r]
  <2>1. [x.st EXCEPT ![t].status = "waiting", ![t].dep = i] = [x.st EXCEPT ![t] = r]
    BY <1>2, <1>3 DEF Managed
  <2> QED
    BY <1>1, <1>2, <2>1 DEF Managed
<1>10. /\ y \in Managed /\ y.st[t] = r /\ y.drv = x.drv
       /\ \A j \in Ids : j # t => y.st[j] = x.st[j]
  BY <1>2, <1>4, <1>9, PutState
<1>11. x.st[t].status \notin Due
  BY DEF Due
<1>12. ASSUME NEW b \in Clients PROVE Relisted(x, y, b, t)
  <2>1. t \notin x.drv[b].notifications
    BY NotNotified
  <2> QED
    BY <1>4, <1>10, <1>11, <2>1, SameListed
<1>13. \A b \in Clients : SameFlags(y.drv[b], x.drv[b])
  BY <1>10 DEF SameFlags
<1>14. /\ x.st[t].status \in Begun \cup {"pending"} /\ x.st[t].status \in Unfinished
       /\ y.st[t].status \in Begun
  BY <1>4, <1>10 DEF Begun, Unfinished
<1>15. Items(y, n, {})
  BY <1>4, <1>10, <1>12, <1>13, <1>14, MoveItems
<1> QED
  BY <1>1, <1>10, <1>13, <1>15

LEMMA ResponseItems ==
  ASSUME NEW x, NEW n, NEW i \in Ids, NEW c \in Clients, Items(x, n, {}),
         x.st[i].status = "pending", x.st[i].client = c, NEW status \in {"resolved", "ready"}
  PROVE  LET y == [x EXCEPT !.st[i].status = status, !.drv[c].ready = Append(@, i)] IN
         Items(y, n, {}) /\ Keeps(x, y)
<1>1. PICK y : y = [x EXCEPT !.st[i].status = status, !.drv[c].ready = Append(@, i)]
  OBVIOUS
<1>2. x \in Managed /\ x.st[i] \in StateRec /\ x.drv[c] \in DriverRec /\ Known(x, i)
  BY ManagedType DEF Items
<1>3. PICK r : r = [x.st[i] EXCEPT !.status = status]
  OBVIOUS
<1>4. /\ r \in StateRec /\ r.status = status /\ r.kind = x.st[i].kind
      /\ r.client = x.st[i].client /\ r.observer = x.st[i].observer
  BY <1>2, <1>3, StatusPut DEF Begun, Unfinished
<1>5. PICK q : q = x.drv[c].ready
  OBVIOUS
<1>6. PICK p : p = Append(q, i)
  OBVIOUS
<1>7. q \in Seq(Ids) /\ p \in Seq(Ids)
  BY <1>2, <1>5, <1>6, DriverType
<1>8. PICK d : d = [x.drv[c] EXCEPT !.ready = p]
  OBVIOUS
<1>9. /\ d \in DriverRec /\ d.ready = p /\ d.notifications = x.drv[c].notifications
      /\ d.preserved = x.drv[c].preserved /\ d.selected = x.drv[c].selected
      /\ d.observer = x.drv[c].observer /\ d.consumer = x.drv[c].consumer
      /\ d.drive = x.drv[c].drive /\ d.active = x.drv[c].active
      /\ d.draining = x.drv[c].draining /\ d.selecting = x.drv[c].selecting
  BY <1>2, <1>7, <1>8, ReadyPut
<1>10. y = [st |-> [x.st EXCEPT ![i] = r], drv |-> [x.drv EXCEPT ![c] = d]]
  BY <1>1, <1>2, <1>3, <1>5, <1>6, <1>8 DEF Managed
<1>11. /\ y \in Managed /\ y.st[i] = r /\ y.drv[c] = d
       /\ \A j \in Ids : j # i => y.st[j] = x.st[j]
       /\ \A b \in Clients : b # c => y.drv[b] = x.drv[b]
  BY <1>2, <1>4, <1>9, <1>10, PutBoth
<1>12. x.st[i].status \notin Due
  BY DEF Due, Begun, Unfinished
<1>13. ASSUME NEW b \in Clients PROVE Relisted(x, y, b, i)
  <2>1. i \notin x.drv[b].notifications
    BY NotNotified
  <2>2. CASE b = c
    <3>1. OnceEach(q) /\ \A k \in DOMAIN q : q[k] # i
      BY <1>5, <1>12 DEF Items, Listed
    <3>2. OnceEach(p)
      BY <1>6, <1>7, <3>1, AppendOnce
    <3>3. \A k \in DOMAIN p : p[k] # i => has(q, p[k])
      <4>1. \A j : has(p, j) <=> has(q, j) \/ j = i
        BY <1>6, <1>7, AppendHas
      <4>2. \A k \in DOMAIN p : has(p, p[k])
        BY DEF has
      <4> QED
        BY <4>1, <4>2
    <3>4. y.st[i].status \in Due /\ y.st[i].client = c
      BY <1>4, <1>11 DEF Due, Begun, Unfinished
    <3>5. y.drv[b] = d /\ x.drv[b].ready = q
      BY <1>5, <1>11, <2>2
    <3> QED
      BY <1>9, <2>1, <2>2, <3>2, <3>3, <3>4, <3>5 DEF Relisted
  <2>3. CASE b # c
    BY <1>4, <1>11, <1>12, <2>1, <2>3, SameListed
  <2> QED
    BY <2>2, <2>3
<1>14. \A b \in Clients : SameFlags(y.drv[b], x.drv[b])
  BY <1>9, <1>11 DEF SameFlags
<1>15. /\ x.st[i].status \in Begun \cup {"pending"} /\ x.st[i].kind # "LoopTask"
       /\ y.st[i].status \in Begun /\ y.st[i].status # "waiting" /\ x.st[i].status \notin Entered
  BY <1>2, <1>4, <1>11 DEF Begun, Unfinished, Known, Entered
<1>16. Items(y, n, {}) /\ Keeps(x, y)
  BY <1>4, <1>11, <1>13, <1>14, <1>15, MoveItems
<1> QED
  BY <1>1, <1>16

-----------------------------------------------------------------------------
(***************************************************************************)
(* Frames: the top of the stack moves.                                     *)
(***************************************************************************)

LEMMA QuietHolds ==
  ASSUME NEW f, NEW c, Quiet(f)
  PROVE  /\ ~drives(f, c) /\ ~pumps(f, c) /\ ~drains(f, c) /\ ~polls(f, c) /\ ~loops(f, c)
      BY DEF Quiet, drives, pumps, drains, polls, loops

LEMMA QuietMoved ==
  ASSUME NEW d, NEW e, NEW f, NEW g, NEW c, Quiet(f), Quiet(g), SameFlags(e, d)
  PROVE  Moved(d, e, f, g, c)
      BY QuietHolds DEF Moved, Shift, SameFlags

LEMMA OnceShift ==
  ASSUME NEW N \in Nat, NEW A \in SUBSET (1 .. N + 1), NEW B \in SUBSET (1 .. N + 1),
         \A k \in 1 .. N : k \in A <=> k \in B, NEW a, NEW b, Once(a, A),
         Shift(N + 1 \in A, N + 1 \in B, a, b)
  PROVE  Once(b, B)
<1>1. \A k \in 1 .. N + 1 : k \in 1 .. N \/ k = N + 1
  OBVIOUS
<1>2. N + 1 \notin 1 .. N /\ N + 1 \in 1 .. N + 1
  OBVIOUS
<1>3. CASE N + 1 \in B
  <2>1. b
    <3>1. CASE N + 1 \in A
      BY <1>3, <3>1 DEF Shift, Once
    <3>2. CASE N + 1 \notin A
      BY <1>3, <3>2 DEF Shift
    <3> QED
      BY <3>1, <3>2
  <2>2. A \subseteq {N + 1}
    <3>1. CASE N + 1 \in A
      BY <3>1 DEF Once
    <3>2. CASE N + 1 \notin A
      BY <1>3, <3>2 DEF Shift, Once
    <3> QED
      BY <3>1, <3>2
  <2>3. B = {N + 1}
    BY <1>1, <1>2, <1>3, <2>2
  <2> QED
    BY <1>3, <2>1, <2>3 DEF Once
<1>4. CASE N + 1 \notin B
  <2>1. CASE N + 1 \in A
    <3>1. A = {N + 1} /\ ~b
      BY <1>4, <2>1 DEF Shift, Once
    <3>2. B = {}
      BY <1>1, <1>2, <1>4, <3>1
    <3> QED
      BY <3>1, <3>2 DEF Once
  <2>2. CASE N + 1 \notin A
    <3>1. \A k \in 1 .. N + 1 : k \in A <=> k \in B
      BY <1>1, <1>4, <2>2
    <3>2. A = B
      BY <3>1
    <3>3. a <=> b
      BY <1>4, <2>2 DEF Shift
    <3> QED
      BY <3>2, <3>3 DEF Once
  <2> QED
    BY <2>1, <2>2
<1> QED
  BY <1>3, <1>4

\* The frames s become r; they share the first N.
LEMMA FrameStep ==
  ASSUME NEW x, NEW y, NEW s, NEW r \in Seq(CallFrames), NEW N \in Nat, NEW f, NEW g,
         StackInv(x, s),
         IF f = NoFrame THEN Len(s) = N ELSE Len(s) = N + 1 /\ f = s[N + 1],
         IF g = NoFrame THEN Len(r) = N ELSE Len(r) = N + 1 /\ g = r[N + 1],
         \A k \in 1 .. N : r[k] = s[k],
         \A k \in 1 .. N : s[k].op = "lua" => y.st[s[k].t].status \in Entered,
         g.op = "lua" => y.st[g.t].status \in Entered
                           /\ \A k \in 1 .. N : s[k].op = "lua" => s[k].t # g.t,
         g # NoFrame /\ N # 0 /\ s[N].op = "tick" => g.op = "lua",
         \A c \in Clients : Moved(x.drv[c], y.drv[c], f, g, c)
  PROVE  StackInv(y, r)
<1>0. /\ s \in Seq(CallFrames) /\ Len(s) \in Nat /\ Len(r) \in Nat
      /\ \A k \in 1 .. Len(s) - 1 : s[k].op = "tick" => s[k + 1].op = "lua"
      /\ \A k, j \in 1 .. Len(s) : s[k].op = "lua" /\ s[j].op = "lua" /\ s[j].t = s[k].t => j = k
      /\ \A k \in 1 .. Len(s) : s[k] \in CallFrames
  BY DEF StackInv, StackShape, Running
<1>1. \A k \in 1 .. N + 1 : k \in 1 .. N \/ k = N + 1
  OBVIOUS
<1>2. StackShape(r)
  <2>1. ASSUME NEW k \in 1 .. Len(r) - 1, r[k].op = "tick" PROVE r[k + 1].op = "lua"
    <3>1. k \in 1 .. N
      BY <1>0
    <3>2. r[k] = s[k] /\ s[k].op = "tick"
      BY <2>1, <3>1
    <3>3. CASE k = N
      <4>1. g # NoFrame /\ r[k + 1] = g
        BY <1>0, <3>3
      <4> QED
        BY <3>1, <3>2, <3>3, <4>1
    <3>4. CASE k # N
      <4>1. k + 1 \in 1 .. N /\ k \in 1 .. Len(s) - 1
        BY <1>0, <3>1, <3>4
      <4> QED
        BY <1>0, <3>2, <4>1
    <3> QED
      BY <3>3, <3>4
  <2> QED
    BY <2>1 DEF StackShape
<1>3. Running(y, r)
  <2>1. \A k \in 1 .. N : k \in 1 .. Len(s) /\ r[k] = s[k]
    BY <1>0
  <2>2. \A k \in 1 .. Len(r) : k \in 1 .. N \/ (k = N + 1 /\ r[k] = g)
    BY <1>0, <1>1
  <2>3. ASSUME NEW k \in 1 .. Len(r), r[k].op = "lua" PROVE y.st[r[k].t].status \in Entered
    BY <2>1, <2>2, <2>3
  <2>4. ASSUME NEW k \in 1 .. Len(r), NEW j \in 1 .. Len(r), r[k].op = "lua", r[j].op = "lua",
               r[j].t = r[k].t
        PROVE  j = k
    <3>1. CASE k \in 1 .. N /\ j \in 1 .. N
      BY <1>0, <2>1, <2>4, <3>1
    <3>2. CASE k \in 1 .. N /\ j \notin 1 .. N
      BY <2>1, <2>2, <2>4, <3>2
    <3>3. CASE k \notin 1 .. N /\ j \in 1 .. N
      BY <2>1, <2>2, <2>4, <3>3
    <3>4. CASE k \notin 1 .. N /\ j \notin 1 .. N
      BY <2>2, <3>4
    <3> QED
      BY <3>1, <3>2, <3>3, <3>4
  <2> QED
    BY <2>3, <2>4 DEF Running
<1>4. ASSUME NEW c PROVE ~drives(NoFrame, c) /\ ~pumps(NoFrame, c) /\ ~drains(NoFrame, c)
                         /\ ~polls(NoFrame, c) /\ ~loops(NoFrame, c)
  BY DEF NoFrame, drives, pumps, drains, polls, loops
<1>5. /\ f # NoFrame => Len(s) = N + 1 /\ f = s[N + 1]
      /\ f = NoFrame => Len(s) = N
      /\ g # NoFrame => Len(r) = N + 1 /\ g = r[N + 1]
      /\ g = NoFrame => Len(r) = N
  OBVIOUS
<1>6. /\ \A k \in 1 .. N : k \in 1 .. Len(s) /\ k \in 1 .. Len(r)
      /\ 1 .. Len(s) \subseteq 1 .. N + 1 /\ 1 .. Len(r) \subseteq 1 .. N + 1
      /\ N + 1 \in 1 .. Len(s) <=> f # NoFrame
      /\ N + 1 \in 1 .. Len(r) <=> g # NoFrame
  BY <1>0, <1>5
<1>7. ASSUME NEW c \in Clients
      PROVE  /\ Once(y.drv[c].drive, Driving(r, c)) /\ Once(y.drv[c].active, Pumping(r, c))
             /\ Once(y.drv[c].draining, Draining(r, c))
             /\ Once(y.drv[c].consumer, Polling(r, c) \cup Looping(r, c))
             /\ y.drv[c].selecting => Polling(r, c) # {}
             /\ y.drv[c].observer.id # 0 => Looping(r, c) # {}
  <2>1. /\ Once(x.drv[c].drive, Driving(s, c)) /\ Once(x.drv[c].active, Pumping(s, c))
        /\ Once(x.drv[c].draining, Draining(s, c))
        /\ Once(x.drv[c].consumer, Polling(s, c) \cup Looping(s, c))
        /\ x.drv[c].selecting => Polling(s, c) # {}
        /\ x.drv[c].observer.id # 0 => Looping(s, c) # {}
    BY DEF StackInv, Flags
  <2>2. Moved(x.drv[c], y.drv[c], f, g, c)
    OBVIOUS
  <2>3. Once(y.drv[c].drive, Driving(r, c))
    <3> DEFINE A == Driving(s, c)
               B == Driving(r, c)
    <3>1. /\ A \in SUBSET (1 .. N + 1) /\ B \in SUBSET (1 .. N + 1)
          /\ \A k \in 1 .. N : k \in A <=> k \in B
          /\ N + 1 \in A <=> drives(f, c)
          /\ N + 1 \in B <=> drives(g, c)
      BY <1>4, <1>5, <1>6 DEF Driving
    <3>2. Shift(N + 1 \in A, N + 1 \in B, x.drv[c].drive, y.drv[c].drive)
      BY <2>2, <3>1 DEF Moved, Shift
    <3>3. Once(x.drv[c].drive, A)
      BY <2>1
    <3> HIDE DEF A, B
    <3>4. Once(y.drv[c].drive, B)
      BY <3>1, <3>2, <3>3, OnceShift
    <3> QED
      BY <3>4 DEF B
  <2>4. Once(y.drv[c].active, Pumping(r, c))
    <3> DEFINE A == Pumping(s, c)
               B == Pumping(r, c)
    <3>1. /\ A \in SUBSET (1 .. N + 1) /\ B \in SUBSET (1 .. N + 1)
          /\ \A k \in 1 .. N : k \in A <=> k \in B
          /\ N + 1 \in A <=> pumps(f, c)
          /\ N + 1 \in B <=> pumps(g, c)
      BY <1>4, <1>5, <1>6 DEF Pumping
    <3>2. Shift(N + 1 \in A, N + 1 \in B, x.drv[c].active, y.drv[c].active)
      BY <2>2, <3>1 DEF Moved, Shift
    <3>3. Once(x.drv[c].active, A)
      BY <2>1
    <3> HIDE DEF A, B
    <3>4. Once(y.drv[c].active, B)
      BY <3>1, <3>2, <3>3, OnceShift
    <3> QED
      BY <3>4 DEF B
  <2>5. Once(y.drv[c].draining, Draining(r, c))
    <3> DEFINE A == Draining(s, c)
               B == Draining(r, c)
    <3>1. /\ A \in SUBSET (1 .. N + 1) /\ B \in SUBSET (1 .. N + 1)
          /\ \A k \in 1 .. N : k \in A <=> k \in B
          /\ N + 1 \in A <=> drains(f, c)
          /\ N + 1 \in B <=> drains(g, c)
      BY <1>4, <1>5, <1>6 DEF Draining
    <3>2. Shift(N + 1 \in A, N + 1 \in B, x.drv[c].draining, y.drv[c].draining)
      BY <2>2, <3>1 DEF Moved, Shift
    <3>3. Once(x.drv[c].draining, A)
      BY <2>1
    <3> HIDE DEF A, B
    <3>4. Once(y.drv[c].draining, B)
      BY <3>1, <3>2, <3>3, OnceShift
    <3> QED
      BY <3>4 DEF B
  <2>6. /\ \A k \in 1 .. N : /\ k \in Polling(s, c) <=> k \in Polling(r, c)
                             /\ k \in Looping(s, c) <=> k \in Looping(r, c)
        /\ N + 1 \in Polling(s, c) <=> polls(f, c)
        /\ N + 1 \in Polling(r, c) <=> polls(g, c)
        /\ N + 1 \in Looping(s, c) <=> loops(f, c)
        /\ N + 1 \in Looping(r, c) <=> loops(g, c)
        /\ Polling(s, c) \subseteq 1 .. N + 1 /\ Polling(r, c) \subseteq 1 .. N + 1
        /\ Looping(s, c) \subseteq 1 .. N + 1 /\ Looping(r, c) \subseteq 1 .. N + 1
    BY <1>4, <1>5, <1>6 DEF Polling, Looping
  <2>7. Once(y.drv[c].consumer, Polling(r, c) \cup Looping(r, c))
    <3> DEFINE A == Polling(s, c) \cup Looping(s, c)
               B == Polling(r, c) \cup Looping(r, c)
    <3>1. /\ A \in SUBSET (1 .. N + 1) /\ B \in SUBSET (1 .. N + 1)
          /\ \A k \in 1 .. N : k \in A <=> k \in B
          /\ N + 1 \in A <=> polls(f, c) \/ loops(f, c)
          /\ N + 1 \in B <=> polls(g, c) \/ loops(g, c)
      BY <2>6
    <3>2. Shift(N + 1 \in A, N + 1 \in B, x.drv[c].consumer, y.drv[c].consumer)
      BY <2>2, <3>1 DEF Moved, Shift
    <3>3. Once(x.drv[c].consumer, A)
      BY <2>1
    <3> HIDE DEF A, B
    <3>4. Once(y.drv[c].consumer, B)
      BY <3>1, <3>2, <3>3, OnceShift
    <3> QED
      BY <3>4 DEF B
  <2>8. y.drv[c].selecting => Polling(r, c) # {}
    BY <1>1, <2>1, <2>2, <2>6 DEF Moved
  <2>9. y.drv[c].observer.id # 0 => Looping(r, c) # {}
    BY <1>1, <2>1, <2>2, <2>6 DEF Moved
  <2> QED
    BY <2>3, <2>4, <2>5, <2>7, <2>8, <2>9
<1> QED
  BY <1>2, <1>3, <1>7 DEF StackInv, Flags

LEMMA StillMoved ==
  ASSUME NEW d, NEW e, NEW f, NEW g, NEW c, Still(f, c), Still(g, c), SameFlags(e, d)
  PROVE  Moved(d, e, f, g, c)
<1>1. /\ ~drives(f, c) /\ ~pumps(f, c) /\ ~drains(f, c) /\ ~polls(f, c) /\ ~loops(f, c)
  BY QuietHolds DEF Still, drives, pumps, drains, polls, loops
<1>2. /\ ~drives(g, c) /\ ~pumps(g, c) /\ ~drains(g, c) /\ ~polls(g, c) /\ ~loops(g, c)
  BY QuietHolds DEF Still, drives, pumps, drains, polls, loops
<1> QED
  BY <1>1, <1>2 DEF Moved, Shift, SameFlags

LEMMA SameMoved ==
  ASSUME NEW d, NEW e, NEW f, NEW c, SameFlags(e, d)
  PROVE  Moved(d, e, f, f, c)
      BY DEF Moved, Shift, SameFlags

LEMMA TopOf ==
  ASSUME NEW s \in Seq(CallFrames), s # <<>>
  PROVE  /\ Len(s) \in Nat /\ Len(s) # 0 /\ Front(s) \in Seq(CallFrames)
         /\ Len(Front(s)) = Len(s) - 1 /\ \A k \in 1 .. Len(s) - 1 : Front(s)[k] = s[k]
         /\ Last(s) = s[Len(s)] /\ Last(s) \in CallFrames /\ Last(s) # NoFrame
<1>1. Len(s) \in Nat /\ Len(s) # 0
  OBVIOUS
<1>2. Front(s) = SubSeq(s, 1, Len(s) - 1) /\ Last(s) = s[Len(s)]
  BY DEF Front, Last
<1>3. Last(s) \in CallFrames
  BY <1>1, <1>2
<1>4. NoFrame \notin CallFrames
  BY DEF NoFrame, CallFrames
<1>5. PICK r : r = SubSeq(s, 1, Len(s) - 1)
  OBVIOUS
<1>6. r \in Seq(CallFrames) /\ Len(r) = Len(s) - 1 /\ \A k \in 1 .. Len(s) - 1 : r[k] = s[k]
  <2>1. \A k \in 1 .. Len(s) - 1 : s[k] \in CallFrames
    OBVIOUS
  <2>2. Len(s) - 1 \in Int
    BY <1>1
  <2>3. PICK n \in Int : n = Len(s) - 1
    BY <2>2
  <2>4. r = SubSeq(s, 1, n) /\ \A k \in 1 .. n : s[k] \in CallFrames
    BY <1>5, <2>1, <2>3
  <2>5. /\ r \in Seq(CallFrames) /\ Len(r) = IF 1 <= n THEN n - 1 + 1 ELSE 0
        /\ \A k \in 1 .. n - 1 + 1 : r[k] = s[1 + k - 1]
    BY <2>4, SubSeqProperties
  <2>6. n - 1 + 1 = n /\ \A k \in 1 .. n : 1 + k - 1 = k
    OBVIOUS
  <2> QED
    BY <1>1, <2>3, <2>5, <2>6
<1>7. Front(s) = r /\ Last(s) # NoFrame
  BY <1>2, <1>3, <1>4, <1>5
<1> QED
  BY <1>1, <1>2, <1>3, <1>6, <1>7

\* The coroutines on the stack.
LEMMA LuaOf ==
  ASSUME NEW x, NEW s, StackInv(x, s)
  PROVE  \A k \in 1 .. Len(s) : s[k].op = "lua" => s[k].t \in Ids /\ x.st[s[k].t].status \in Entered
<1>1. s \in Seq(CallFrames)
  BY DEF StackInv, StackShape
<1>2. \A k \in 1 .. Len(s) : s[k] \in CallFrames
  BY <1>1
<1> QED
  BY <1>2 DEF CallFrames, StackInv, Running

LEMMA PushStep ==
  ASSUME NEW x, NEW y, NEW s, NEW g \in CallFrames, StackInv(x, s),
         s # <<>> /\ Last(s).op = "tick" => g.op = "lua",
         \A i \in Ids : x.st[i].status \in Entered => y.st[i].status \in Entered,
         g.op = "lua" => y.st[g.t].status \in Entered /\ x.st[g.t].status \notin Entered,
         \A c \in Clients : Moved(x.drv[c], y.drv[c], NoFrame, g, c)
  PROVE  StackInv(y, Append(s, g))
<1>1. s \in Seq(CallFrames)
  BY DEF StackInv, StackShape
<1>21. Append(s, g) \in Seq(CallFrames)
  BY <1>1, AppendProperties
<1>2. PICK r \in Seq(CallFrames) : r = Append(s, g)
  BY <1>21
<1>31. Len(s) \in Nat
  BY <1>1
<1>3. PICK N \in Nat : N = Len(s)
  BY <1>31
<1>4. Len(r) = N + 1 /\ g = r[N + 1] /\ \A k \in 1 .. N : r[k] = s[k]
  BY <1>1, <1>2, <1>3
<1>5. g # NoFrame
  BY DEF NoFrame, CallFrames
<1>6. g # NoFrame /\ N # 0 /\ s[N].op = "tick" => g.op = "lua"
  <2>1. CASE s = <<>>
    BY <1>3, <2>1
  <2>2. CASE s # <<>>
    BY <1>1, <1>3, <2>2, TopOf
  <2> QED
    BY <2>1, <2>2
<1>7. PICK f : f = NoFrame
  OBVIOUS
<1>8. /\ IF f = NoFrame THEN Len(s) = N ELSE Len(s) = N + 1 /\ f = s[N + 1]
      /\ IF g = NoFrame THEN Len(r) = N ELSE Len(r) = N + 1 /\ g = r[N + 1]
      /\ \A c \in Clients : Moved(x.drv[c], y.drv[c], f, g, c)
  BY <1>3, <1>4, <1>5, <1>7
<1>10. \A k \in 1 .. N : s[k].op = "lua" => /\ y.st[s[k].t].status \in Entered
                                              /\ x.st[s[k].t].status \in Entered
  BY <1>3, LuaOf
<1>11. g.op = "lua" => /\ y.st[g.t].status \in Entered
                       /\ \A k \in 1 .. N : s[k].op = "lua" => s[k].t # g.t
  BY <1>10
<1>9. StackInv(y, r)
  BY ZenonT(40), <1>4, <1>6, <1>8, <1>10, <1>11, FrameStep
<1> QED
  BY <1>2, <1>9

LEMMA SwapStep ==
  ASSUME NEW x, NEW y, NEW s, NEW g \in CallFrames, StackInv(x, s), s # <<>>,
         g.op # "lua", Last(s).op # "lua",
         \A i \in Ids : x.st[i].status \in Entered => y.st[i].status \in Entered,
         \A c \in Clients : Moved(x.drv[c], y.drv[c], Last(s), g, c)
  PROVE  StackInv(y, Append(Front(s), g))
<1>1. /\ s \in Seq(CallFrames)
      /\ \A k \in 1 .. Len(s) - 1 : s[k].op = "tick" => s[k + 1].op = "lua"
  BY DEF StackInv, StackShape
<1>2. /\ Len(s) \in Nat /\ Len(s) # 0 /\ Front(s) \in Seq(CallFrames)
      /\ Len(Front(s)) = Len(s) - 1 /\ \A k \in 1 .. Len(s) - 1 : Front(s)[k] = s[k]
      /\ Last(s) = s[Len(s)] /\ Last(s) # NoFrame
  BY <1>1, TopOf
<1>31. Append(Front(s), g) \in Seq(CallFrames)
  BY <1>2, AppendProperties
<1>3. PICK r \in Seq(CallFrames) : r = Append(Front(s), g)
  BY <1>31
<1>41. Len(s) - 1 \in Nat
  BY <1>2
<1>4. PICK N \in Nat : N = Len(s) - 1
  BY <1>41
<1>5. PICK f : f = Last(s)
  OBVIOUS
<1>6. Len(r) = N + 1 /\ g = r[N + 1] /\ \A k \in 1 .. N : r[k] = s[k]
  BY <1>2, <1>3, <1>4
<1>7. Len(s) = N + 1 /\ f = s[N + 1] /\ f # NoFrame
  BY <1>2, <1>4, <1>5
<1>8. g # NoFrame
  BY DEF NoFrame, CallFrames
<1>9. g # NoFrame /\ N # 0 /\ s[N].op = "tick" => g.op = "lua"
  BY <1>1, <1>4, <1>5, <1>7
<1>10. /\ IF f = NoFrame THEN Len(s) = N ELSE Len(s) = N + 1 /\ f = s[N + 1]
       /\ IF g = NoFrame THEN Len(r) = N ELSE Len(r) = N + 1 /\ g = r[N + 1]
       /\ \A c \in Clients : Moved(x.drv[c], y.drv[c], f, g, c)
  BY <1>5, <1>6, <1>7, <1>8
<1>12. ASSUME NEW k \in 1 .. N, s[k].op = "lua" PROVE y.st[s[k].t].status \in Entered
  <2>1. k \in 1 .. Len(s)
    BY <1>7
  <2>2. s[k].t \in Ids /\ x.st[s[k].t].status \in Entered
    BY Zenon, <1>12, <2>1, LuaOf
  <2> QED
    BY Zenon, <2>2
<1>11. StackInv(y, r)
  BY <1>6, <1>9, <1>10, <1>12, FrameStep
<1> QED
  BY <1>3, <1>11

LEMMA PopStep ==
  ASSUME NEW x, NEW y, NEW s, StackInv(x, s), s # <<>>,
         \A i \in Ids : x.st[i].status \in Entered =>
            y.st[i].status \in Entered \/ (Last(s).op = "lua" /\ Last(s).t = i),
         \A c \in Clients : Moved(x.drv[c], y.drv[c], Last(s), NoFrame, c)
  PROVE  StackInv(y, Front(s))
<1>1. s \in Seq(CallFrames)
  BY DEF StackInv, StackShape
<1>2. /\ Len(s) \in Nat /\ Len(s) # 0 /\ Front(s) \in Seq(CallFrames)
      /\ Len(Front(s)) = Len(s) - 1 /\ \A k \in 1 .. Len(s) - 1 : Front(s)[k] = s[k]
      /\ Last(s) = s[Len(s)] /\ Last(s) # NoFrame
  BY <1>1, TopOf
<1>3. PICK r \in Seq(CallFrames) : r = Front(s)
  BY <1>2
<1>41. Len(s) - 1 \in Nat
  BY <1>2
<1>4. PICK N \in Nat : N = Len(s) - 1
  BY <1>41
<1>5. PICK f, g : f = Last(s) /\ g = NoFrame
  OBVIOUS
<1>6. Len(r) = N /\ \A k \in 1 .. N : r[k] = s[k]
  BY <1>2, <1>3, <1>4
<1>7. Len(s) = N + 1 /\ f = s[N + 1] /\ f # NoFrame
  BY <1>2, <1>4, <1>5
<1>8. /\ IF f = NoFrame THEN Len(s) = N ELSE Len(s) = N + 1 /\ f = s[N + 1]
      /\ IF g = NoFrame THEN Len(r) = N ELSE Len(r) = N + 1 /\ g = r[N + 1]
      /\ \A c \in Clients : Moved(x.drv[c], y.drv[c], f, g, c)
      /\ g # NoFrame /\ N # 0 /\ s[N].op = "tick" => g.op = "lua"
  BY <1>5, <1>6, <1>7
<1>9. g.op # "lua"
  BY <1>5 DEF NoFrame
<1>11. \A k \in 1 .. N : s[k].op = "lua" => y.st[s[k].t].status \in Entered
  <2>1. ASSUME NEW k \in 1 .. N, s[k].op = "lua" PROVE y.st[s[k].t].status \in Entered
    <3>1. k \in 1 .. Len(s) /\ N + 1 \in 1 .. Len(s) /\ k # N + 1
      BY <1>7
    <3>2. s[k].t \in Ids /\ x.st[s[k].t].status \in Entered
      BY <2>1, <3>1, LuaOf
    <3>3. ~(f.op = "lua" /\ f.t = s[k].t)
      BY <1>7, <2>1, <3>1 DEF StackInv, Running
    <3> QED
      BY <1>5, <3>2, <3>3
  <2> QED
    BY <2>1
<1>10. StackInv(y, r)
  BY <1>6, <1>8, <1>9, <1>11, FrameStep
<1> QED
  BY <1>3, <1>10

\* Nobody calls and nobody returns.
LEMMA StayStep ==
  ASSUME NEW x, NEW y, NEW s, StackInv(x, s), Keeps(x, y)
  PROVE  StackInv(y, s)
<1>3. Running(y, s)
  BY LuaOf DEF StackInv, Running, Keeps
<1>4. ASSUME NEW c \in Clients
      PROVE  /\ Once(y.drv[c].drive, Driving(s, c)) /\ Once(y.drv[c].active, Pumping(s, c))
             /\ Once(y.drv[c].draining, Draining(s, c))
             /\ Once(y.drv[c].consumer, Polling(s, c) \cup Looping(s, c))
             /\ y.drv[c].selecting => Polling(s, c) # {}
             /\ y.drv[c].observer.id # 0 => Looping(s, c) # {}
  BY DEF StackInv, Flags, Keeps, SameFlags
<1> QED
  BY <1>3, <1>4 DEF StackInv, Flags

\* A coroutine is resumed; a coroutine or a call without a flag leaves the stack.
LEMMA ResumeStep ==
  ASSUME NEW x, NEW y, NEW s, NEW t \in Ids, StackInv(x, s), Keeps(x, y),
         x.st[t].status \notin Entered, y.st[t].status \in Entered
  PROVE  StackInv(y, Append(s, Lua(t)))
<1>1. PICK g : g = Lua(t)
  OBVIOUS
<1>2. g \in CallFrames /\ g.op = "lua" /\ g.t = t /\ Quiet(g)
  BY <1>1 DEF Lua, CallFrames, Quiet
<1>3. Quiet(NoFrame)
  BY DEF Quiet, NoFrame
<1>4. \A c \in Clients : Moved(x.drv[c], y.drv[c], NoFrame, g, c)
  BY <1>2, <1>3, QuietMoved DEF Keeps
<1>5. StackInv(y, Append(s, g))
  BY <1>2, <1>4, PushStep DEF Keeps
<1> QED
  BY <1>1, <1>5

LEMMA LeaveStep ==
  ASSUME NEW x, NEW y, NEW s, StackInv(x, s), s # <<>>, Keeps(x, y), Quiet(Last(s))
  PROVE  StackInv(y, Front(s))
<1>1. Quiet(NoFrame)
  BY DEF Quiet, NoFrame
<1>2. \A c \in Clients : Moved(x.drv[c], y.drv[c], Last(s), NoFrame, c)
  BY <1>1, QuietMoved DEF Keeps
<1> QED
  BY <1>2, PopStep DEF Keeps

\* A call of tick(), if it leaves a frame.
LEMMA TickStep ==
  ASSUME NEW x, NEW y, NEW s, NEW c \in Clients, StackInv(y, s),
         s # <<>> => Last(s).op # "tick"
  PROVE  StackInv(y, s \o Tick(x, c))
<1>1. s \in Seq(CallFrames)
  BY DEF StackInv, StackShape
<1>2. PICK g : g = [op |-> "tick", c |-> c, pc |-> "notify"]
  OBVIOUS
<1>3. g \in CallFrames /\ g.op = "tick" /\ Quiet(g)
  BY <1>2 DEF CallFrames, Quiet
<1>4. Tick(x, c) = <<>> \/ Tick(x, c) = <<g>>
  BY <1>2 DEF Tick
<1>5. CASE Tick(x, c) = <<>>
  <2>1. s \o Tick(x, c) = s
    BY <1>1, <1>5
  <2> QED
    BY <2>1
<1>6. CASE Tick(x, c) = <<g>>
  <2>1. s \o Tick(x, c) = Append(s, g)
    BY <1>1, <1>3, <1>6
  <2>2. Quiet(NoFrame)
    BY DEF Quiet, NoFrame
  <2>3. \A e \in Clients : SameFlags(y.drv[e], y.drv[e])
    BY DEF SameFlags
  <2>4. \A e \in Clients : Moved(y.drv[e], y.drv[e], NoFrame, g, e)
    BY <1>3, <2>2, <2>3, QuietMoved
  <2>5. StackInv(y, Append(s, g))
    BY <1>3, <2>4, PushStep
  <2> QED
    BY <2>1, <2>5
<1> QED
  BY <1>4, <1>5, <1>6

-----------------------------------------------------------------------------
(***************************************************************************)
(* Calls that several actions make.                                        *)
(***************************************************************************)

\* One flag of client c changes.
LEMMA FlagItems ==
  ASSUME NEW x \in Managed, NEW n, NEW L, NEW c \in Clients, NEW d \in DriverRec, Items(x, n, L),
         d.preserved = x.drv[c].preserved, d.selected = x.drv[c].selected,
         d.observer = x.drv[c].observer, d.ready = x.drv[c].ready,
         d.notifications = x.drv[c].notifications
  PROVE  LET y == [x EXCEPT !.drv[c] = d] IN
         /\ Items(y, n, L) /\ y.st = x.st /\ y.drv[c] = d
         /\ \A e \in Clients : e # c => y.drv[e] = x.drv[e]
<1> PICK y : y = [x EXCEPT !.drv[c] = d]
  OBVIOUS
<1>2. /\ y \in Managed /\ y.st = x.st /\ y.drv[c] = d
      /\ \A e \in Clients : e # c => y.drv[e] = x.drv[e]
  BY PutDriver
<1>3. ASSUME NEW e \in Clients
      PROVE  /\ y.drv[e].preserved = x.drv[e].preserved /\ y.drv[e].selected = x.drv[e].selected
             /\ y.drv[e].observer = x.drv[e].observer /\ y.drv[e].ready = x.drv[e].ready
             /\ y.drv[e].notifications = x.drv[e].notifications
  BY <1>2
<1>4. Items(y, n, L)
  BY ZenonT(60), <1>2, <1>3, SameItems
<1> QED
  BY <1>2, <1>4

LEMMA DriveStep ==
  ASSUME NEW x, NEW y, NEW s, NEW r, NEW n, NEW c \in Clients, NEW deadline \in Deadlines,
         NEW discard \in BOOLEAN, Items(x, n, {}), StackInv(x, s),
         s # <<>> => Last(s).op # "tick",
         DriveStarted(x, s, c, deadline, discard, y, r)
  PROVE  Items(y, n, {}) /\ StackInv(y, r)
<1>1. CASE x.drv[c].drive
  BY <1>1 DEF DriveStarted
<1>2. CASE ~x.drv[c].drive
  <2>0. x \in Managed /\ x.drv[c] \in DriverRec
    BY ManagedType DEF Items
  <2>1. PICK d : d = [x.drv[c] EXCEPT !.drive = TRUE]
    OBVIOUS
  <2>2. /\ d \in DriverRec /\ d.consumer = x.drv[c].consumer /\ d.drive
        /\ d.active = x.drv[c].active /\ d.selecting = x.drv[c].selecting
        /\ d.selected = x.drv[c].selected /\ d.draining = x.drv[c].draining
        /\ d.ready = x.drv[c].ready /\ d.preserved = x.drv[c].preserved
        /\ d.notifications = x.drv[c].notifications /\ d.observer = x.drv[c].observer
    BY <2>0, <2>1, DrivePut
  <2>3. y = [x EXCEPT !.drv[c] = d]
    BY <1>2, <2>1 DEF DriveStarted
  <2>4. /\ Items(y, n, {}) /\ y.st = x.st /\ y.drv[c] = d
        /\ \A e \in Clients : e # c => y.drv[e] = x.drv[e]
    <3>1. PICK L : L = {}
      OBVIOUS
    <3>2. /\ Items(x, n, L) /\ d \in DriverRec
          /\ d.preserved = x.drv[c].preserved /\ d.selected = x.drv[c].selected
          /\ d.observer = x.drv[c].observer /\ d.ready = x.drv[c].ready
          /\ d.notifications = x.drv[c].notifications
      BY <2>2, <3>1
    <3>3. LET z == [x EXCEPT !.drv[c] = d] IN
          /\ Items(z, n, L) /\ z.st = x.st /\ z.drv[c] = d
          /\ \A e \in Clients : e # c => z.drv[e] = x.drv[e]
      BY <2>0, <3>2, FlagItems
    <3>4. /\ Items(y, n, L) /\ y.st = x.st /\ y.drv[c] = d
          /\ \A e \in Clients : e # c => y.drv[e] = x.drv[e]
      BY <2>3, <3>3
    <3> QED
      BY <3>1, <3>4
  <2>5. PICK g : g = Drive(c, deadline, discard)
    OBVIOUS
  <2>6. /\ g \in CallFrames /\ g.op = "drive" /\ g.c = c /\ g.pc = "tick"
    BY <2>5 DEF Drive, CallFrames
  <2>7. ASSUME NEW e \in Clients PROVE Moved(x.drv[e], y.drv[e], NoFrame, g, e)
    <3>1. CASE e # c
      <4>1. Still(NoFrame, e) /\ Still(g, e)
        BY <2>6, <3>1 DEF Still, Quiet, NoFrame
      <4>2. SameFlags(y.drv[e], x.drv[e])
        BY <2>4, <3>1 DEF SameFlags
      <4> QED
        BY <4>1, <4>2, StillMoved
    <3>2. CASE e = c
      <4>1. /\ drives(g, e) /\ ~pumps(g, e) /\ ~drains(g, e) /\ ~polls(g, e) /\ ~loops(g, e)
        BY <2>6, <3>2 DEF drives, pumps, drains, polls, loops
      <4>2. /\ ~drives(NoFrame, e) /\ ~pumps(NoFrame, e) /\ ~drains(NoFrame, e)
            /\ ~polls(NoFrame, e) /\ ~loops(NoFrame, e)
        BY QuietHolds DEF Quiet, NoFrame
      <4> QED
        BY <1>2, <2>2, <2>4, <3>2, <4>1, <4>2 DEF Moved, Shift
    <3> QED
      BY <3>1, <3>2
  <2>8. StackInv(y, Append(s, g))
    BY <2>4, <2>6, <2>7, PushStep
  <2>9. s \in Seq(CallFrames)
    BY DEF StackInv, StackShape
  <2>10. Append(s, g) = s \o <<g>>
    BY <2>6, <2>9, AppendIsConcat
  <2>11. PICK q : q = Append(s, g)
    OBVIOUS
  <2>12. Last(q).op = "drive"
    BY <2>6, <2>9, <2>11, AppendProperties DEF Last
  <2>13. StackInv(y, q \o Tick(x, c))
    BY <2>8, <2>11, <2>12, TickStep
  <2>14. r = q \o Tick(x, c)
    BY <1>2, <2>5, <2>10, <2>11 DEF DriveStarted
  <2> QED
    BY <2>4, <2>13, <2>14
<1> QED
  BY <1>1, <1>2

LEMMA WakeStep ==
  ASSUME NEW x, NEW y, NEW s, NEW r, NEW n, NEW i \in Ids, Items(x, n, {}), StackInv(x, s),
         Woken(x, s, i, y, r)
  PROVE  Items(y, n, {}) /\ StackInv(y, r)
<1>1. CASE waitersOf(x, i) = {}
  BY <1>1 DEF Woken
<1>2. CASE waitersOf(x, i) # {}
  <2>1. PICK t \in waitersOf(x, i) :
          /\ y = [x EXCEPT !.st[t].status = "running", !.st[t].dep = 0,
                           !.drv[x.st[i].client].notifications = @ \ {t}]
          /\ r = Append(s, Lua(t))
    BY Zenon, <1>2 DEF Woken
  <2>2. t \in Ids /\ x.st[t].status = "waiting" /\ x.st[t].dep = i
    BY DEF waitersOf
  <2>3. Known(x, t) /\ Known(x, i)
    BY <2>2 DEF Items
  <2>4. x.st[i].client \in Clients
    BY <2>2, <2>3 DEF Known
  <2>5. PICK e \in Clients : e = x.st[i].client
    BY Zenon, <2>4
  <2>6. /\ y = [x EXCEPT !.st[t].status = "running", !.st[t].dep = 0,
                         !.drv[e].notifications = @ \ {t}]
        /\ x.st[x.st[t].dep].client = e
    BY <2>1, <2>2, <2>5
  <2>7. Items(y, n, {}) /\ Keeps(x, y) /\ y.st[t].status = "running"
    BY Zenon, <2>2, <2>6, CallItems
  <2>8. "running" \in Entered /\ x.st[t].status \notin Entered
    BY <2>2 DEF Entered
  <2>9. StackInv(y, Append(s, Lua(t)))
    BY <2>2, <2>7, <2>8, ResumeStep
  <2> QED
    BY Zenon, <2>1, <2>7, <2>9
<1> QED
  BY <1>1, <1>2

\* The calls of poll() and loop() on the clients of C end.
LEMMA EndItems ==
  ASSUME NEW x, NEW n, NEW C \in SUBSET Clients, Items(x, n, {})
  PROVE  LET y == endUpdateConsumers(x, C) IN
         /\ Items(y, n, {})
         /\ \A i \in Ids : x.st[i].status \in Entered => y.st[i].status \in Entered
         /\ \A c \in Clients : c \notin C => y.drv[c] = x.drv[c]
         /\ \A c \in C : /\ ~y.drv[c].consumer /\ ~y.drv[c].selecting /\ y.drv[c].observer.id = 0
                         /\ y.drv[c].drive = x.drv[c].drive /\ y.drv[c].active = x.drv[c].active
                         /\ y.drv[c].draining = x.drv[c].draining
<1>0. /\ x \in Managed /\ x.st \in [Ids -> StateRec] /\ x.drv \in [Clients -> DriverRec]
      /\ \A c \in Clients : x.drv[c] \in DriverRec /\ x.drv[c].observer \in ObserverRec
      /\ \A i \in Ids : x.st[i] \in StateRec
  BY ManagedType DEF Items
<1>1. PICK W : W = UNION {ToSet(x.drv[c].observer.queue) : c \in C}
  OBVIOUS
<1>2. PICK y : y = endUpdateConsumers(x, C)
  OBVIOUS
<1>3. PICK drv : drv = [c \in Clients |->
                          IF c \in C THEN [x.drv[c] EXCEPT !.selecting = FALSE, !.consumer = FALSE,
                                                           !.observer = NoObserver] ELSE x.drv[c]]
  BY Zenon
<1>4. PICK st : st = [i \in Ids |-> IF i \in W
                                    THEN [x.st[i] EXCEPT !.status = "dropped"] ELSE x.st[i]]
  OBVIOUS
<1>5. x = [st |-> x.st, drv |-> x.drv]
  BY <1>0 DEF Managed
<1>6. y = [st |-> st, drv |-> drv]
  BY Zenon, <1>1, <1>2, <1>3, <1>4, <1>5 DEF endUpdateConsumers
<1>7. ASSUME NEW c \in Clients
      PROVE  /\ drv[c] \in DriverRec
             /\ c \notin C => drv[c] = x.drv[c]
             /\ c \in C => /\ ~drv[c].consumer /\ ~drv[c].selecting /\ drv[c].observer = NoObserver
             /\ drv[c].drive = x.drv[c].drive /\ drv[c].active = x.drv[c].active
             /\ drv[c].draining = x.drv[c].draining
             /\ drv[c].preserved = x.drv[c].preserved /\ drv[c].selected = x.drv[c].selected
             /\ drv[c].ready = x.drv[c].ready /\ drv[c].notifications = x.drv[c].notifications
  <2>1. CASE c \notin C
    BY Zenon, <1>0, <1>3, <2>1
  <2>2. CASE c \in C
    <3>1. PICK d \in DriverRec : d = x.drv[c]
      BY <1>0
    <3>2. PICK e : e = [d EXCEPT !.selecting = FALSE, !.consumer = FALSE, !.observer = NoObserver]
      OBVIOUS
    <3>3. /\ e \in DriverRec /\ ~e.consumer /\ ~e.selecting /\ e.observer = NoObserver
          /\ e.drive = d.drive /\ e.active = d.active /\ e.draining = d.draining
          /\ e.preserved = d.preserved /\ e.selected = d.selected
          /\ e.ready = d.ready /\ e.notifications = d.notifications
      BY <3>2, NoObserverType DEF DriverRec
    <3>4. drv[c] = e
      BY Zenon, <1>3, <2>2, <3>1, <3>2
    <3> QED
      BY <2>2, <3>1, <3>3, <3>4
  <2> QED
    BY <2>1, <2>2
<1>8. ASSUME NEW i \in Ids
      PROVE  /\ st[i] \in StateRec
             /\ i \notin W => st[i] = x.st[i]
             /\ i \in W => st[i] = [x.st[i] EXCEPT !.status = "dropped"]
  <2>1. "dropped" \in Begun \cup {"none", "pending", "taken", "dropped"}
    OBVIOUS
  <2> QED
    BY <1>0, <1>4, <2>1, StatusPut
<1>9. y \in Managed /\ y.st = st /\ y.drv = drv
  <2>1. st \in [Ids -> StateRec]
    BY <1>4, <1>8
  <2>2. drv \in [Clients -> DriverRec]
    BY Zenon, <1>3, <1>7
  <2> QED
    BY <1>6, <2>1, <2>2 DEF Managed
<1>10. \A i \in Ids : i \in W <=> \E c \in C : has(x.drv[c].observer.queue, i)
  <2>1. ASSUME NEW c \in C, NEW i PROVE i \in ToSet(x.drv[c].observer.queue)
                                       <=> has(x.drv[c].observer.queue, i)
    BY DEF ToSet, has
  <2> QED
    BY <1>1, <2>1
<1>11. Withdrawn(x, y, C, W)
  <2>1. C \subseteq Clients
    OBVIOUS
  <2> QED
    BY <1>7, <1>8, <1>9, <1>10, <2>1 DEF Withdrawn
<1>12. Items(y, n, {})
  BY <1>9, <1>11, WithdrawItems
<1>13. ASSUME NEW i \in Ids, x.st[i].status \in Entered PROVE y.st[i].status \in Entered
  <2>1. ASSUME i \in W PROVE FALSE
    <3>1. PICK c \in C : has(x.drv[c].observer.queue, i)
      BY <1>10, <2>1
    <3>2. c \in Clients /\ isKept(x.drv[c], i)
      BY <3>1 DEF isKept
    <3>3. x.st[i].status = "taken"
      BY <3>2, KeptTaken
    <3> QED
      BY <1>13, <3>3 DEF Entered
  <2> QED
    BY <1>8, <1>9, <1>13, <2>1
<1>14. /\ \A c \in Clients : c \notin C => y.drv[c] = x.drv[c]
       /\ \A c \in C : /\ ~y.drv[c].consumer /\ ~y.drv[c].selecting /\ y.drv[c].observer.id = 0
                       /\ y.drv[c].drive = x.drv[c].drive /\ y.drv[c].active = x.drv[c].active
                       /\ y.drv[c].draining = x.drv[c].draining
  BY <1>7, <1>9, NoObserverType
<1> QED
  BY <1>2, <1>12, <1>13, <1>14

-----------------------------------------------------------------------------
(***************************************************************************)
(* An error unwinds the frames down to a coroutine.                        *)
(***************************************************************************)

LEMMA LastOf ==
  ASSUME NEW n \in Nat, NEW P \in SUBSET (1 .. n), P # {}
  PROVE  \E k \in P : \A j \in P : j <= k
<1> DEFINE T == {n - i : i \in P}
<1>1. T \subseteq Nat /\ T # {}
  <2>1. \A i \in P : n - i \in Nat
    OBVIOUS
  <2> QED
    BY <2>1
<1>2. PICK l \in T : \A y \in T : <<y, l>> \notin OpToRel(<, Nat)
  <2> HIDE DEF T
  <2> QED
    BY Zenon, <1>1, WFMin, NatLessThanWellFounded
<1>3. \A y \in T : ~(y < l)
  BY <1>1, <1>2 DEF OpToRel
<1>4. PICK k \in P : l = n - k
  OBVIOUS
<1>5. \A j \in P : ~(n - j < n - k)
  BY <1>3, <1>4
<1> QED
  BY <1>5

LEMMA LastLua ==
  ASSUME NEW s \in Seq(CallFrames)
  PROVE  \E k \in 0 .. Len(s) : Catches(s, k)
<1>1. PICK n \in Nat : n = Len(s)
  OBVIOUS
<1>2. PICK P : P = {k \in 1 .. n : s[k].op = "lua"}
  OBVIOUS
<1>3. CASE P = {}
  <2>1. \A j \in 1 .. n : s[j].op # "lua"
    BY <1>2, <1>3
  <2>2. 0 \in 0 .. n /\ \A j \in 0 + 1 .. n : s[j].op # "lua"
    BY <2>1
  <2> QED
    BY <1>1, <2>2 DEF Catches
<1>4. CASE P # {}
  <2>1. P \in SUBSET (1 .. n)
    BY <1>2
  <2>2. PICK k \in P : \A j \in P : j <= k
    BY <1>4, <2>1, LastOf
  <2>3. k \in 1 .. n /\ s[k].op = "lua"
    BY <1>2
  <2>4. ASSUME NEW j \in k + 1 .. n PROVE s[j].op # "lua"
    <3>1. j \in 1 .. n /\ ~(j <= k)
      BY <2>3
    <3>2. j \notin P
      BY <2>2, <3>1
    <3> QED
      BY <1>2, <3>1, <3>2
  <2> QED
    BY <1>1, <2>3, <2>4 DEF Catches
<1> QED
  BY <1>3, <1>4

LEMMA HaltItems ==
  ASSUME NEW x \in Managed, NEW n, NEW D, Items(x, n, {})
  PROVE  LET z == Halted(x, D) IN
         /\ Items(z, n, {}) /\ z.st = x.st
         /\ \A c \in Clients : c \notin D => z.drv[c] = x.drv[c]
         /\ \A c \in Clients : c \in D =>
              /\ ~z.drv[c].drive /\ ~z.drv[c].active /\ z.drv[c].consumer = x.drv[c].consumer
              /\ z.drv[c].draining = x.drv[c].draining /\ z.drv[c].selecting = x.drv[c].selecting
              /\ z.drv[c].observer = x.drv[c].observer
<1>0. /\ x.st \in [Ids -> StateRec] /\ x.drv \in [Clients -> DriverRec]
      /\ \A c \in Clients : x.drv[c] \in DriverRec
  BY ManagedType
<1>1. PICK drv : drv = [c \in Clients |->
                          IF c \in D THEN [x.drv[c] EXCEPT !.drive = FALSE, !.active = FALSE]
                          ELSE x.drv[c]]
  BY Zenon
<1>2. PICK z : z = Halted(x, D)
  OBVIOUS
<1>3. x = [st |-> x.st, drv |-> x.drv]
  BY DEF Managed
<1>4. z = [st |-> x.st, drv |-> drv]
  BY Zenon, <1>1, <1>2, <1>3 DEF Halted
<1>5. ASSUME NEW c \in Clients
      PROVE  /\ drv[c] \in DriverRec
             /\ c \notin D => drv[c] = x.drv[c]
             /\ c \in D => ~drv[c].drive /\ ~drv[c].active
             /\ drv[c].consumer = x.drv[c].consumer /\ drv[c].selecting = x.drv[c].selecting
             /\ drv[c].draining = x.drv[c].draining
             /\ drv[c].preserved = x.drv[c].preserved /\ drv[c].selected = x.drv[c].selected
             /\ drv[c].observer = x.drv[c].observer /\ drv[c].ready = x.drv[c].ready
             /\ drv[c].notifications = x.drv[c].notifications
  <2>1. CASE c \notin D
    BY Zenon, <1>0, <1>1, <2>1
  <2>2. CASE c \in D
    <3>1. PICK d \in DriverRec : d = x.drv[c]
      BY <1>0
    <3>2. PICK e : e = [d EXCEPT !.drive = FALSE, !.active = FALSE]
      OBVIOUS
    <3>3. /\ e \in DriverRec /\ ~e.drive /\ ~e.active
          /\ e.consumer = d.consumer /\ e.selecting = d.selecting /\ e.draining = d.draining
          /\ e.preserved = d.preserved /\ e.selected = d.selected /\ e.observer = d.observer
          /\ e.ready = d.ready /\ e.notifications = d.notifications
      BY Zenon, <3>2, HaltPut
    <3>4. drv[c] = e
      BY Zenon, <1>1, <2>2, <3>1, <3>2
    <3> QED
      BY <2>2, <3>1, <3>3, <3>4
  <2> QED
    BY <2>1, <2>2
<1>6. z \in Managed /\ z.st = x.st /\ z.drv = drv
  <2>1. drv \in [Clients -> DriverRec]
    BY Zenon, <1>1, <1>5
  <2> QED
    BY <1>0, <1>4, <2>1 DEF Managed
<1>7. Items(z, n, {})
  BY <1>5, <1>6, SameItems
<1> QED
  BY <1>2, <1>5, <1>6, <1>7

\* The frames above k are gone.
LEMMA OnceCut ==
  ASSUME NEW k \in Nat, NEW A, NEW B, \A j : j \in B <=> j \in A /\ j <= k,
         NEW a, NEW b, Once(a, A),
         (\E j \in A : ~(j <= k)) => ~b,
         (\A j \in A : j <= k) => (a <=> b)
  PROVE  Once(b, B)
<1>1. CASE \A j \in A : j <= k
  <2>1. A = B
    BY <1>1
  <2> QED
    BY <1>1, <2>1 DEF Once
<1>2. CASE \E j \in A : ~(j <= k)
  <2>1. PICK j \in A : ~(j <= k)
    BY <1>2
  <2>2. A = {j}
    BY <2>1 DEF Once
  <2>3. B = {} /\ ~b
    BY <2>1, <2>2
  <2> QED
    BY <2>3 DEF Once
<1> QED
  BY <1>1, <1>2

LEMMA ThrowStep ==
  ASSUME NEW x \in Managed, NEW n, NEW s, NEW k, Items(x, n, {}), StackInv(x, s), s # <<>>,
         Last(s).op = "tick", Last(s).pc # "ready", Catches(s, k)
  PROVE  LET y == endUpdateConsumers(Halted(x, Unwound(s, k, "drive")),
                                     Unwound(s, k, "poll") \cup Unwound(s, k, "loop"))
         IN Items(y, n, {}) /\ StackInv(y, SubSeq(s, 1, k))
<1>1. /\ s \in Seq(CallFrames) /\ Len(s) \in Nat /\ Len(s) # 0
      /\ \A j \in 1 .. Len(s) - 1 : s[j].op = "tick" => s[j + 1].op = "lua"
      /\ \A j \in 1 .. Len(s) : s[j].op = "lua" => x.st[s[j].t].status \in Entered
      /\ \A i, j \in 1 .. Len(s) : s[j].op = "lua" /\ s[i].op = "lua" /\ s[i].t = s[j].t => i = j
      /\ \A j \in 1 .. Len(s) : s[j] \in CallFrames
      /\ Last(s) = s[Len(s)]
  BY TopOf DEF StackInv, StackShape, Running
<1>2. /\ k \in Nat /\ k <= Len(s) /\ (k = 0 \/ s[k].op = "lua")
      /\ \A j \in k + 1 .. Len(s) : s[j].op # "lua"
  BY <1>1 DEF Catches
<1>3. PICK D : D = Unwound(s, k, "drive")
  OBVIOUS
<1>4. PICK C : C = Unwound(s, k, "poll") \cup Unwound(s, k, "loop")
  OBVIOUS
<1>5. C \in SUBSET Clients
  <2>1. \A j \in k + 1 .. Len(s) : s[j] \in CallFrames
    BY <1>1, <1>2
  <2>2. \A f \in CallFrames : f.op \in {"poll", "loop"} => f.c \in Clients
    BY DEF CallFrames
  <2> QED
    BY <1>4, <2>1, <2>2 DEF Unwound
<1>6. PICK z : z = Halted(x, D)
  OBVIOUS
<1>7. /\ Items(z, n, {}) /\ z.st = x.st
      /\ \A c \in Clients : c \notin D => z.drv[c] = x.drv[c]
      /\ \A c \in Clients : c \in D =>
           /\ ~z.drv[c].drive /\ ~z.drv[c].active /\ z.drv[c].consumer = x.drv[c].consumer
           /\ z.drv[c].draining = x.drv[c].draining /\ z.drv[c].selecting = x.drv[c].selecting
           /\ z.drv[c].observer = x.drv[c].observer
  BY <1>6, HaltItems
<1>8. PICK y : y = endUpdateConsumers(z, C)
  OBVIOUS
<1>9. /\ Items(y, n, {})
      /\ \A i \in Ids : x.st[i].status \in Entered => y.st[i].status \in Entered
      /\ \A c \in Clients : c \notin C => y.drv[c] = z.drv[c]
      /\ \A c \in C : /\ ~y.drv[c].consumer /\ ~y.drv[c].selecting /\ y.drv[c].observer.id = 0
                      /\ y.drv[c].drive = z.drv[c].drive /\ y.drv[c].active = z.drv[c].active
                      /\ y.drv[c].draining = z.drv[c].draining
  BY <1>5, <1>7, <1>8, EndItems
<1>10. PICK r : r = SubSeq(s, 1, k)
  OBVIOUS
<1>11. r \in Seq(CallFrames) /\ Len(r) = k /\ \A j \in 1 .. k : r[j] = s[j]
  <2>1. \A j \in 1 .. k : s[j] \in CallFrames
    BY <1>1, <1>2
  <2>2. k \in Int
    BY <1>2
  <2>3. /\ r \in Seq(CallFrames) /\ Len(r) = IF 1 <= k THEN k - 1 + 1 ELSE 0
        /\ \A j \in 1 .. k - 1 + 1 : r[j] = s[1 + j - 1]
    BY <1>10, <2>1, <2>2, SubSeqProperties
  <2>4. k - 1 + 1 = k /\ \A j \in 1 .. k : 1 + j - 1 = j
    BY <1>2
  <2> QED
    BY <1>2, <2>3, <2>4
<1>12. StackShape(r)
  <2>1. ASSUME NEW j \in 1 .. Len(r) - 1, r[j].op = "tick" PROVE r[j + 1].op = "lua"
    <3>1. j \in 1 .. k /\ j + 1 \in 1 .. k /\ j \in 1 .. Len(s) - 1
      BY <1>1, <1>2, <1>11
    <3> QED
      BY <1>1, <1>11, <2>1, <3>1
  <2> QED
    BY <1>11, <2>1 DEF StackShape
<1>13. Running(y, r)
  <2>1. \A j \in 1 .. Len(r) : j \in 1 .. Len(s) /\ r[j] = s[j]
    BY <1>1, <1>2, <1>11
  <2>2. ASSUME NEW j \in 1 .. Len(r), r[j].op = "lua" PROVE y.st[r[j].t].status \in Entered
    <3>1. s[j].t \in Ids /\ x.st[s[j].t].status \in Entered /\ r[j] = s[j]
      BY <2>1, <2>2, LuaOf
    <3> QED
      BY <1>9, <3>1
  <2>3. ASSUME NEW j \in 1 .. Len(r), NEW i \in 1 .. Len(r), r[j].op = "lua", r[i].op = "lua",
               r[i].t = r[j].t
        PROVE  i = j
    BY <1>1, <2>1, <2>3
  <2> QED
    BY <2>2, <2>3 DEF Running
<1>14. \A j : j \in 1 .. Len(r) <=> j \in 1 .. Len(s) /\ j <= k
  BY <1>1, <1>2, <1>11
<1>15. \A j \in 1 .. Len(s) : j <= k => r[j] = s[j]
  BY <1>1, <1>2, <1>11
<1>16. \A j \in 1 .. Len(s) : ~(j <= k) <=> j \in k + 1 .. Len(s)
  BY <1>1, <1>2
<1>17. \A j \in k + 1 .. Len(s) : j \in 1 .. Len(s)
  BY <1>1, <1>2
<1>18. ASSUME NEW c \in Clients
       PROVE  /\ Once(y.drv[c].drive, Driving(r, c)) /\ Once(y.drv[c].active, Pumping(r, c))
              /\ Once(y.drv[c].draining, Draining(r, c))
              /\ Once(y.drv[c].consumer, Polling(r, c) \cup Looping(r, c))
              /\ y.drv[c].selecting => Polling(r, c) # {}
              /\ y.drv[c].observer.id # 0 => Looping(r, c) # {}
  <2>1. /\ Once(x.drv[c].drive, Driving(s, c)) /\ Once(x.drv[c].active, Pumping(s, c))
        /\ Once(x.drv[c].draining, Draining(s, c))
        /\ Once(x.drv[c].consumer, Polling(s, c) \cup Looping(s, c))
        /\ x.drv[c].selecting => Polling(s, c) # {}
        /\ x.drv[c].observer.id # 0 => Looping(s, c) # {}
    BY DEF StackInv, Flags
  <2>2. /\ \A j : j \in Driving(r, c) <=> j \in Driving(s, c) /\ j <= k
        /\ \A j : j \in Pumping(r, c) <=> j \in Pumping(s, c) /\ j <= k
        /\ \A j : j \in Draining(r, c) <=> j \in Draining(s, c) /\ j <= k
        /\ \A j : j \in Polling(r, c) <=> j \in Polling(s, c) /\ j <= k
        /\ \A j : j \in Looping(r, c) <=> j \in Looping(s, c) /\ j <= k
    BY <1>14, <1>15 DEF Driving, Pumping, Draining, Polling, Looping
  <2>3. c \in D <=> \E j \in Driving(s, c) : ~(j <= k)
    BY <1>3, <1>16, <1>17 DEF Unwound, Driving, drives
  <2>4. c \in C <=> \E j \in Polling(s, c) \cup Looping(s, c) : ~(j <= k)
    BY <1>4, <1>16, <1>17 DEF Unwound, Polling, Looping, polls, loops
  <2>5. /\ y.drv[c].drive = z.drv[c].drive /\ y.drv[c].active = z.drv[c].active
        /\ y.drv[c].draining = x.drv[c].draining
    BY <1>7, <1>9
  <2>6. /\ c \in D => ~y.drv[c].drive /\ ~y.drv[c].active
        /\ c \notin D => y.drv[c].drive = x.drv[c].drive /\ y.drv[c].active = x.drv[c].active
    BY <1>7, <2>5
  <2>7. /\ c \in C => ~y.drv[c].consumer /\ ~y.drv[c].selecting /\ y.drv[c].observer.id = 0
        /\ c \notin C => /\ y.drv[c].consumer = x.drv[c].consumer
                         /\ y.drv[c].selecting = x.drv[c].selecting
                         /\ y.drv[c].observer = x.drv[c].observer
    BY <1>7, <1>9
  <2>8. Once(y.drv[c].drive, Driving(r, c))
    <3>1. PICK A, B : A = Driving(s, c) /\ B = Driving(r, c)
      OBVIOUS
    <3>2. PICK a, b : a = x.drv[c].drive /\ b = y.drv[c].drive
      OBVIOUS
    <3>3. /\ \A j : j \in B <=> j \in A /\ j <= k
          /\ Once(a, A)
          /\ (\E j \in A : ~(j <= k)) => ~b
          /\ (\A j \in A : j <= k) => (a <=> b)
      BY <2>1, <2>2, <2>3, <2>6, <3>1, <3>2
    <3>4. Once(b, B)
      BY <1>2, <3>3, OnceCut
    <3> QED
      BY <3>1, <3>2, <3>4
  <2>9. Once(y.drv[c].active, Pumping(r, c))
    <3>1. CASE c \in D
      <4>1. PICK j \in Driving(s, c) : ~(j <= k)
        BY <2>3, <3>1
      <4>2. Driving(s, c) = {j}
        BY <2>1, <4>1 DEF Once
      <4>3. Pumping(s, c) \subseteq Driving(s, c)
        BY DEF Pumping, Driving, pumps, drives
      <4>4. Pumping(r, c) = {}
        BY <2>2, <4>1, <4>2, <4>3
      <4> QED
        BY <2>6, <3>1, <4>4 DEF Once
    <3>2. CASE c \notin D
      <4>1. \A j \in Pumping(s, c) : j <= k
        BY <2>3, <3>2 DEF Pumping, Driving, pumps, drives
      <4>2. Pumping(r, c) = Pumping(s, c)
        BY <2>2, <4>1
      <4> QED
        BY <2>1, <2>6, <3>2, <4>2
    <3> QED
      BY <3>1, <3>2
  <2>10. Once(y.drv[c].draining, Draining(r, c))
    <3>1. ASSUME NEW j \in Draining(s, c), ~(j <= k) PROVE FALSE
      <4>1. j \in 1 .. Len(s) /\ s[j].op = "tick" /\ s[j].pc = "ready"
        BY DEF Draining, drains
      <4>2. j # Len(s)
        BY <1>1, <4>1
      <4>3. j \in 1 .. Len(s) - 1 /\ j + 1 \in k + 1 .. Len(s)
        BY <1>1, <1>2, <3>1, <4>1, <4>2
      <4> QED
        BY <1>1, <1>2, <4>1, <4>3
    <3>2. Draining(r, c) = Draining(s, c)
      BY <2>2, <3>1
    <3> QED
      BY <2>1, <2>5, <3>2
  <2>11. Once(y.drv[c].consumer, Polling(r, c) \cup Looping(r, c))
    <3>1. PICK A, B : A = Polling(s, c) \cup Looping(s, c) /\ B = Polling(r, c) \cup Looping(r, c)
      OBVIOUS
    <3>2. PICK a, b : a = x.drv[c].consumer /\ b = y.drv[c].consumer
      OBVIOUS
    <3>3. /\ \A j : j \in B <=> j \in A /\ j <= k
          /\ Once(a, A)
          /\ (\E j \in A : ~(j <= k)) => ~b
          /\ (\A j \in A : j <= k) => (a <=> b)
      BY <2>1, <2>2, <2>4, <2>7, <3>1, <3>2
    <3>4. Once(b, B)
      BY <1>2, <3>3, OnceCut
    <3> QED
      BY <3>1, <3>2, <3>4
  <2>12. y.drv[c].selecting => Polling(r, c) # {}
    BY <2>1, <2>2, <2>4, <2>7
  <2>13. y.drv[c].observer.id # 0 => Looping(r, c) # {}
    BY <2>1, <2>2, <2>4, <2>7
  <2> QED
    BY <2>8, <2>9, <2>10, <2>11, <2>12, <2>13
<1>19. StackInv(y, r)
  BY <1>12, <1>13, <1>18 DEF StackInv, Flags
<1> QED
  BY <1>3, <1>4, <1>6, <1>8, <1>9, <1>10, <1>19

-----------------------------------------------------------------------------
(***************************************************************************)
(* A client is collected.                                                  *)
(***************************************************************************)

LEMMA RankStrict ==
  ASSUME NEW S \in SUBSET Ids, NEW x \in S
  PROVE  /\ rank(S, x) \in 1 .. Cardinality(S)
         /\ \A z \in S : x < z => rank(S, x) < rank(S, z)
<1>01. IsFiniteSet(S) /\ S \subseteq Int
  <2>1. IsFiniteSet(Ids) /\ Ids \subseteq Nat
    BY IdsNat
  <2>2. IsFiniteSet(S)
    BY <2>1, FS_Subset
  <2> QED
    BY <2>1, <2>2
<1>1. IsFiniteSet(S) /\ Cardinality(S) \in Nat /\ S \subseteq Int
  BY <1>01, FS_CardinalityType
<1> DEFINE B(z) == {y \in S : y <= z}
<1>2. \A z \in S : /\ B(z) \in SUBSET S /\ IsFiniteSet(B(z)) /\ Cardinality(B(z)) \in Nat
                   /\ Cardinality(B(z)) <= Cardinality(S)
  BY <1>1, FS_Subset, FS_CardinalityType
<1>3. x \in B(x)
  BY <1>1
<1>4. Cardinality(B(x)) # 0
  BY <1>2, <1>3, FS_EmptySet
<1>5. ASSUME NEW z \in S, x < z
      PROVE  Cardinality(B(x)) < Cardinality(B(z))
  <2>1. B(x) \in SUBSET B(z) /\ z \in B(z) /\ z \notin B(x)
    <3>1. \A y \in S : y <= x => y <= z
      BY <1>1, <1>5
    <3>2. z <= z /\ ~(z <= x)
      BY <1>1, <1>5
    <3> QED
      BY <3>1, <3>2
  <2>2. IsFiniteSet(B(z)) /\ Cardinality(B(z)) \in Nat /\ Cardinality(B(x)) \in Nat
    BY <1>2
  <2>3. Cardinality(B(x)) <= Cardinality(B(z)) /\ Cardinality(B(x)) # Cardinality(B(z))
    <3> HIDE DEF B
    <3> QED
      BY <2>1, <2>2, FS_Subset
  <2> HIDE DEF B
  <2> QED
    BY <2>2, <2>3
<1>6. Cardinality(B(x)) \in 1 .. Cardinality(S)
  <2> HIDE DEF B
  <2> QED
    BY <1>1, <1>2, <1>4
<1> QED
  BY <1>5, <1>6 DEF rank

\* ascending() lists nothing but what it is given, and nothing twice.
LEMMA AscendingOnce ==
  ASSUME NEW S \in SUBSET Ids
  PROVE  /\ ascending(S) \in Seq(Ids) /\ OnceEach(ascending(S))
         /\ \A i \in DOMAIN ascending(S) : ascending(S)[i] \in S
<1> DEFINE n == Cardinality(S)
           f == [x \in S |-> rank(S, x)]
<1>01. IsFiniteSet(S) /\ S \subseteq Int
  <2>1. IsFiniteSet(Ids) /\ Ids \subseteq Nat
    BY IdsNat
  <2>2. IsFiniteSet(S)
    BY <2>1, FS_Subset
  <2> QED
    BY <2>1, <2>2
<1>1. IsFiniteSet(S) /\ n \in Nat /\ S \subseteq Int
  BY <1>01, FS_CardinalityType
<1>2. \A x \in S : f[x] \in 1 .. n
  BY RankStrict
<1>3. \A x, z \in S : f[x] = f[z] => x = z
  <2>1. SUFFICES ASSUME NEW x \in S, NEW z \in S, x < z
                 PROVE  f[x] # f[z]
    <3>1. \A x, z \in S : x < z \/ z < x \/ x = z
      BY <1>1
    <3> QED
      BY <3>1
  <2>2. f[x] < f[z] /\ f[x] \in Int /\ f[z] \in Int
    BY <2>1, <1>2, RankStrict
  <2> HIDE DEF f
  <2> QED
    BY <2>2
<1>4. f \in Injection(S, 1 .. n)
  BY <1>2, <1>3 DEF Injection, IsInjective
<1>5. IsFiniteSet(1 .. n) /\ Cardinality(1 .. n) = n
  BY <1>1, FS_Interval
<1>6. f \in Surjection(S, 1 .. n)
  <2> HIDE DEF f
  <2> QED
    BY <1>4, <1>5, FS_Injection
<1>7. \A i \in 1 .. n : \E x \in S : f[x] = i
  <2> HIDE DEF f
  <2> QED
    BY <1>6 DEF Surjection
<1>8. \A i \in 1 .. n : ascending(S)[i] \in S /\ rank(S, ascending(S)[i]) = i
  BY <1>7 DEF ascending, rank
<1>9. DOMAIN ascending(S) = 1 .. n
  BY DEF ascending
<1>10. ascending(S) \in Seq(Ids)
  <2> DEFINE r == ascending(S)
  <2>1. r = [i \in 1 .. n |-> r[i]]
    BY <1>9 DEF ascending
  <2>2. \A i \in 1 .. n : r[i] \in Ids
    BY <1>8
  <2>4. n \in Nat
    BY <1>1
  <2> HIDE DEF r, n
  <2>3. r \in [1 .. n -> Ids]
    BY <2>1, <2>2
  <2> QED
    BY <2>3, <2>4, <1>1 DEF r
<1>11. OnceEach(ascending(S))
  <2> HIDE DEF n
  <2> QED
    BY <1>8, <1>9 DEF OnceEach
<1> QED
  BY <1>8, <1>9, <1>10, <1>11

LEMMA ConcatOnce ==
  ASSUME NEW q \in Seq(Ids), NEW r \in Seq(Ids), OnceEach(q), OnceEach(r),
         \A j \in DOMAIN q, k \in DOMAIN r : q[j] # r[k]
  PROVE  /\ q \o r \in Seq(Ids) /\ OnceEach(q \o r)
         /\ \A j \in DOMAIN (q \o r) : has(q, (q \o r)[j]) \/ has(r, (q \o r)[j])
<1>1. PICK p : p = q \o r
  OBVIOUS
<1>2. /\ p \in Seq(Ids) /\ Len(p) = Len(q) + Len(r) /\ Len(q) \in Nat /\ Len(r) \in Nat
      /\ \A j \in 1 .. Len(p) : p[j] = IF j <= Len(q) THEN q[j] ELSE r[j - Len(q)]
  BY <1>1, ConcatProperties
<1>3. \A j \in DOMAIN p : \/ j \in DOMAIN q /\ p[j] = q[j] /\ j <= Len(q)
                          \/ j - Len(q) \in DOMAIN r /\ p[j] = r[j - Len(q)] /\ ~(j <= Len(q))
  <2>1. DOMAIN p = 1 .. Len(p) /\ DOMAIN q = 1 .. Len(q) /\ DOMAIN r = 1 .. Len(r)
    BY <1>2
  <2> QED
    BY <1>2, <2>1
<1>4. ASSUME NEW j \in DOMAIN p, NEW k \in DOMAIN p, p[j] = p[k] PROVE j = k
  <2>1. CASE j <= Len(q)
    <3>1. j \in DOMAIN q /\ p[j] = q[j]
      BY <1>3, <2>1
    <3>2. k \in DOMAIN q /\ p[k] = q[k]
      BY <1>3, <1>4, <3>1
    <3> QED
      BY <1>4, <3>1, <3>2 DEF OnceEach
  <2>2. CASE ~(j <= Len(q))
    <3>1. j - Len(q) \in DOMAIN r /\ p[j] = r[j - Len(q)]
      BY <1>3, <2>2
    <3>2. k - Len(q) \in DOMAIN r /\ p[k] = r[k - Len(q)]
      BY <1>3, <1>4, <3>1
    <3>3. j - Len(q) = k - Len(q)
      BY <1>4, <3>1, <3>2 DEF OnceEach
    <3>4. j \in Int /\ k \in Int
      BY <1>2
    <3> QED
      BY <1>2, <3>3, <3>4
  <2> QED
    BY <2>1, <2>2
<1>5. \A j \in DOMAIN p : has(q, p[j]) \/ has(r, p[j])
  BY <1>3 DEF has
<1>6. OnceEach(p)
  BY <1>4 DEF OnceEach
<1> QED
  BY <1>1, <1>2, <1>5, <1>6

LEMMA DropSelected ==
  ASSUME NEW x \in Managed, NEW n, NEW c \in Clients, Items(x, n, {})
  PROVE  \E w : Items(w, n, {}) /\ Keeps(x, w) /\ Deselected(x, w, c)
<1>0. x.drv[c] \in DriverRec /\ x.drv[c].selected \in {0} \cup Ids
  BY ManagedType, DriverType
<1>1. PICK i : i = x.drv[c].selected
  OBVIOUS
<1>2. CASE i = 0
  <2>1. PICK d \in DriverRec : d = x.drv[c]
    BY <1>0
  <2>2. d = [d EXCEPT !.selected = 0]
    BY <1>1, <1>2, <2>1 DEF DriverRec
  <2>3. x.drv[c] = [x.drv[c] EXCEPT !.selected = 0]
    BY <2>1, <2>2
  <2>4. \A j \in Ids : j # i
    BY <1>2, IdsNat
  <2>5. Keeps(x, x)
    BY KeepsSame
  <2> QED
    BY <1>1, <1>2, <2>3, <2>4, <2>5 DEF Deselected
<1>3. CASE i # 0
  <2>1. i \in Ids
    BY <1>0, <1>1, <1>3
  <2>2. PICK d : d = [x.drv[c] EXCEPT !.selected = 0]
    OBVIOUS
  <2>3. 0 \in {0} \cup Ids
    OBVIOUS
  <2>4. /\ d \in DriverRec /\ d.consumer = x.drv[c].consumer /\ d.drive = x.drv[c].drive
        /\ d.active = x.drv[c].active /\ d.selecting = x.drv[c].selecting
        /\ d.selected = 0 /\ d.draining = x.drv[c].draining /\ d.ready = x.drv[c].ready
        /\ d.preserved = x.drv[c].preserved /\ d.notifications = x.drv[c].notifications
        /\ d.observer = x.drv[c].observer
    BY <1>0, <2>2, <2>3, SelectedPut
  <2>5. PICK y : y = [x EXCEPT !.drv[c] = d]
    OBVIOUS
  <2>6. /\ y \in Managed /\ y.drv[c] = d /\ y.st = x.st
        /\ \A e \in Clients : e # c => y.drv[e] = x.drv[e]
    BY <2>4, <2>5, PutDriver
  <2>7. Held(y, n, c, i)
    BY <1>1, <1>3, <2>4, <2>6, TakeSelected
  <2>10. PICK w : w = [y EXCEPT !.st[i].status = "dropped"]
    OBVIOUS
  <2>11. Items(w, n, {}) /\ Keeps(y, w)
    BY <2>7, <2>10, DropItems
  <2>18. w.drv = y.drv
    <3>1. y = [st |-> y.st, drv |-> y.drv]
      BY <2>6 DEF Managed
    <3> QED
      BY <2>10, <3>1
  <2>12. w \in Managed
    BY <2>11 DEF Items
  <2>13. \A j \in Ids : w.st[j] = IF j = i THEN [x.st[j] EXCEPT !.status = "dropped"] ELSE x.st[j]
    <3>1. y.st \in [Ids -> StateRec] /\ y = [st |-> y.st, drv |-> y.drv]
      BY <2>6, ManagedType DEF Managed
    <3>2. w.st = [y.st EXCEPT ![i] = [y.st[i] EXCEPT !.status = "dropped"]]
      BY <2>10, <3>1
    <3> QED
      BY <2>6, <3>1, <3>2
  <2>14. Keeps(x, y)
    <3>1. \A e \in Clients : SameFlags(y.drv[e], x.drv[e])
      BY <2>4, <2>6 DEF SameFlags
    <3> QED
      BY <2>6, <3>1 DEF Keeps
  <2>15. Keeps(x, w)
    BY <2>11, <2>14, KeepsTrans
  <2>16. x.st[i].status = "taken"
    BY <2>6, <2>7 DEF Held
  <2> QED
    BY <1>1, <2>2, <2>6, <2>11, <2>12, <2>13, <2>15, <2>16, <2>18 DEF Deselected
<1> QED
  BY <1>2, <1>3

LEMMA FailItems ==
  ASSUME NEW w \in Managed, NEW y, NEW n, NEW c \in Clients, Items(w, n, {}), Failed(w, y, c)
  PROVE  Items(y, n, {}) /\ Keeps(w, y)
<1>0. /\ \A i \in Ids : w.st[i] \in StateRec /\ Known(w, i)
      /\ \A e \in Clients : w.drv[e] \in DriverRec /\ Listed(w, e)
  BY ManagedType DEF Items
<1>1. PICK F : F = pending_requests(w, c)
  OBVIOUS
<1>2. F \in SUBSET Ids /\ \A i \in Ids : i \in F <=> w.st[i].client = c /\ w.st[i].status = "pending"
  BY Zenon, <1>1 DEF pending_requests
<1>3. /\ y \in Managed
      /\ \A i \in Ids : y.st[i] = IF i \in F THEN [w.st[i] EXCEPT !.status = "failed"] ELSE w.st[i]
      /\ \A e \in Clients : e # c => y.drv[e] = w.drv[e]
      /\ SameFlags(y.drv[c], w.drv[c])
      /\ y.drv[c].preserved = w.drv[c].preserved /\ y.drv[c].selected = w.drv[c].selected
      /\ y.drv[c].observer = w.drv[c].observer
      /\ y.drv[c].ready = w.drv[c].ready \o ascending(F)
      /\ \A t \in y.drv[c].notifications :
           \/ t \in w.drv[c].notifications
           \/ t \in Ids /\ y.st[t].status = "waiting" /\ y.st[t].dep \in Ids /\ y.st[y.st[t].dep].client = c
  BY <1>1 DEF Failed
<1>4. ASSUME NEW i \in Ids
      PROVE  /\ y.st[i].kind = w.st[i].kind /\ y.st[i].client = w.st[i].client
             /\ y.st[i].observer = w.st[i].observer /\ y.st[i].dep = w.st[i].dep
             /\ i \notin F => y.st[i].status = w.st[i].status
             /\ i \in F => y.st[i].status = "failed" /\ w.st[i].status = "pending"
                             /\ w.st[i].client = c
  <2>1. CASE i \notin F
    BY <1>3, <2>1
  <2>2. CASE i \in F
    <3>1. "failed" \in Begun \cup {"none", "pending", "taken", "dropped"}
      BY DEF Begun
    <3>2. y.st[i] = [w.st[i] EXCEPT !.status = "failed"]
      BY <1>3, <2>2
    <3> QED
      BY <1>0, <1>2, <2>2, <3>1, <3>2, StatusPut
  <2> QED
    BY <2>1, <2>2
<1>5. ASSUME NEW i \in Ids
      PROVE  /\ Known(y, i)
             /\ y.st[i].status = "taken" <=> w.st[i].status = "taken"
             /\ y.st[i].kind = "LoopTask" /\ y.st[i].status \in Unfinished
                  => w.st[i].status \in Unfinished
             /\ w.st[i].status \in Entered => y.st[i].status \in Entered
             /\ w.st[i].status \in Due => y.st[i].status \in Due
             /\ y.st[i].status = "waiting" <=> w.st[i].status = "waiting"
  <2>1. CASE i \notin F
    <3>1. Known(y, i)
      BY <1>0, <1>4, <2>1 DEF Known
    <3> QED
      BY <1>4, <2>1, <3>1
  <2>2. CASE i \in F
    <3>1. Known(w, i) /\ w.st[i].status = "pending" /\ y.st[i].status = "failed"
      BY <1>0, <1>4, <2>2
    <3>2. w.st[i].kind # "none" /\ w.st[i].client \in Clients
      BY <3>1 DEF Known
    <3>3. Known(y, i)
      BY <1>4, <3>1, <3>2 DEF Known
    <3> QED
      BY <3>1, <3>3 DEF Unfinished, Begun, Due, Entered
  <2> QED
    BY <2>1, <2>2
<1>6. ASSUME NEW e \in Clients, NEW q \in Seq(Ids), \A k \in DOMAIN q : has(w.drv[e].ready, q[k])
      PROVE  \A k \in DOMAIN q : y.st[q[k]].status \in Due /\ y.st[q[k]].client = e
  <2>1. ASSUME NEW k \in DOMAIN q PROVE y.st[q[k]].status \in Due /\ y.st[q[k]].client = e
    <3>1. q[k] \in Ids
      OBVIOUS
    <3>2. PICK i \in Ids : i = q[k]
      BY <3>1
    <3>3. w.st[i].status \in Due /\ w.st[i].client = e
      BY <1>0, <1>6, <2>1, <3>2 DEF has, Listed
    <3> QED
      BY <1>4, <1>5, <3>2, <3>3
  <2> QED
    BY <2>1
<1>7. ASSUME NEW e \in Clients, NEW t \in w.drv[e].notifications
      PROVE  y.st[t].status = "waiting" /\ y.st[y.st[t].dep].client = e
  <2>1. t \in Ids
    BY <1>0, DriverType
  <2>2. w.st[t].status = "waiting" /\ w.st[w.st[t].dep].client = e
    BY <1>0 DEF Listed
  <2>3. w.st[t].dep \in Ids
    BY Zenon, <1>0, <2>1, <2>2 DEF Known
  <2> QED
    BY <1>4, <1>5, <2>1, <2>2, <2>3
<1>8. ASSUME NEW e \in Clients, e # c PROVE Listed(y, e)
  <2>1. y.drv[e] = w.drv[e] /\ w.drv[e].ready \in Seq(Ids)
    BY <1>0, <1>3, <1>8, DriverType
  <2>2. \A k \in DOMAIN w.drv[e].ready : has(w.drv[e].ready, w.drv[e].ready[k])
    BY DEF has
  <2>3. \A k \in DOMAIN w.drv[e].ready :
          y.st[w.drv[e].ready[k]].status \in Due /\ y.st[w.drv[e].ready[k]].client = e
    BY <1>6, <2>1, <2>2
  <2>4. OnceEach(w.drv[e].ready)
    BY <1>0 DEF Listed
  <2> QED
    BY <1>7, <2>1, <2>3, <2>4 DEF Listed
<1>9. Listed(y, c)
  <2>1. PICK q : q = w.drv[c].ready
    OBVIOUS
  <2>2. PICK r : r = ascending(F)
    OBVIOUS
  <2>3. /\ q \in Seq(Ids) /\ OnceEach(q)
        /\ \A k \in DOMAIN q : w.st[q[k]].status \in Due /\ w.st[q[k]].client = c
    BY <1>0, <2>1, DriverType DEF Listed
  <2>4. r \in Seq(Ids) /\ OnceEach(r) /\ \A k \in DOMAIN r : r[k] \in F
    BY <1>2, <2>2, AscendingOnce
  <2>5. \A j \in DOMAIN q, k \in DOMAIN r : q[j] # r[k]
    <3>1. \A i \in F : w.st[i].status = "pending"
      BY <1>2
    <3>2. "pending" \notin Due
      BY DEF Due, Begun, Unfinished
    <3> QED
      BY <2>3, <2>4, <3>1, <3>2
  <2>6. PICK p : p = q \o r
    OBVIOUS
  <2>7. p \in Seq(Ids) /\ OnceEach(p) /\ \A j \in DOMAIN p : has(q, p[j]) \/ has(r, p[j])
    BY <2>3, <2>4, <2>5, <2>6, ConcatOnce
  <2>8. ASSUME NEW j \in DOMAIN p PROVE y.st[p[j]].status \in Due /\ y.st[p[j]].client = c
    <3>1. CASE has(q, p[j])
      <4>1. PICK k \in DOMAIN q : q[k] = p[j]
        BY <3>1 DEF has
      <4>2. p[j] \in Ids /\ w.st[p[j]].status \in Due /\ w.st[p[j]].client = c
        BY <2>3, <2>7, <4>1
      <4> QED
        BY <1>4, <1>5, <4>2
    <3>2. CASE has(r, p[j])
      <4>1. p[j] \in F /\ p[j] \in Ids
        BY <1>2, <2>4, <3>2 DEF has
      <4>2. "failed" \in Due
        BY Zenon DEF Due, Begun
      <4> QED
        BY <1>4, <4>1, <4>2
    <3> QED
      BY <2>7, <3>1, <3>2
  <2>9. y.drv[c].ready = p
    BY <1>3, <2>1, <2>2, <2>6
  <2>10. \A t \in y.drv[c].notifications : y.st[t].status = "waiting" /\ y.st[y.st[t].dep].client = c
    BY <1>3, <1>7
  <2> QED
    BY <2>7, <2>8, <2>9, <2>10 DEF Listed
<1>10. ASSUME NEW e \in Clients
       PROVE  /\ y.drv[e].preserved = w.drv[e].preserved /\ y.drv[e].selected = w.drv[e].selected
              /\ y.drv[e].observer = w.drv[e].observer /\ Listed(y, e)
              /\ SameFlags(y.drv[e], w.drv[e])
  <2>1. CASE e = c
    BY Zenon, <1>3, <1>9, <2>1
  <2>2. CASE e # c
    BY <1>3, <1>8, <2>2 DEF SameFlags
  <2> QED
    BY <2>1, <2>2
<1>11. Items(y, n, {})
  <2>1. \A i \in Ids : /\ y.st[i].kind = w.st[i].kind /\ y.st[i].client = w.st[i].client
                       /\ y.st[i].observer = w.st[i].observer /\ Known(y, i)
                       /\ y.st[i].status = "taken" <=> w.st[i].status = "taken"
                       /\ y.st[i].kind = "LoopTask" /\ y.st[i].status \in Unfinished
                            => w.st[i].status \in Unfinished
    BY <1>4, <1>5
  <2>2. \A e \in Clients : /\ y.drv[e].preserved = w.drv[e].preserved
                           /\ y.drv[e].selected = w.drv[e].selected
                           /\ y.drv[e].observer = w.drv[e].observer /\ Listed(y, e)
    BY <1>10
  <2>3. y \in Managed
    BY <1>3
  <2> QED
    BY <2>1, <2>2, <2>3, MovesItems
<1>12. Keeps(w, y)
  BY <1>5, <1>10 DEF Keeps
<1> QED
  BY <1>11, <1>12

-----------------------------------------------------------------------------
(***************************************************************************)
(* Kinds of frames.                                                        *)
(***************************************************************************)

LEMMA FrameTypes ==
  ASSUME NEW f \in CallFrames
  PROVE  /\ f.op \in {"lua", "tick", "drive", "poll", "loop", "wait"}
         /\ f.op = "lua" => f.t \in Ids
         /\ f.op # "lua" => f.c \in Clients
         /\ f.op = "drive" => f.deadline \in Deadlines /\ f.discard \in BOOLEAN
                                /\ f.deps \in SUBSET Clients
         /\ f.op = "poll" => f.deadline \in Deadlines /\ f.callback \in BOOLEAN
         /\ f.op = "loop" => f.callback \in BOOLEAN
         /\ f.op = "wait" => f.i \in Ids
      BY DEF CallFrames

LEMMA TickPut ==
  ASSUME NEW f \in CallFrames, f.op = "tick", NEW p \in {"notify", "ready", "strand"}
  PROVE  LET g == [f EXCEPT !.pc = p] IN
         g \in CallFrames /\ g.op = "tick" /\ g.c = f.c /\ g.pc = p
<1>1. f \in [op : {"tick"}, c : Clients, pc : {"notify", "ready", "strand"}]
  BY DEF CallFrames
<1>2. PICK g : g = [f EXCEPT !.pc = p]
  OBVIOUS
<1>3. g \in [op : {"tick"}, c : Clients, pc : {"notify", "ready", "strand"}]
      /\ g.op = "tick" /\ g.c = f.c /\ g.pc = p
  BY <1>1, <1>2
<1>4. g \in CallFrames
  BY <1>3 DEF CallFrames
<1> QED
  BY <1>2, <1>3, <1>4

LEMMA DrivePcPut ==
  ASSUME NEW f \in CallFrames, f.op = "drive", NEW p \in {"tick", "pump", "pumped", "round", "last"}
  PROVE  LET g == [f EXCEPT !.pc = p] IN
         g \in CallFrames /\ g.op = "drive" /\ g.c = f.c /\ g.pc = p
<1>1. f \in DriveFrames
  BY DEF CallFrames, DriveFrames
<1>2. PICK g : g = [f EXCEPT !.pc = p]
  OBVIOUS
<1>3. g \in DriveFrames /\ g.op = "drive" /\ g.c = f.c /\ g.pc = p
  BY <1>1, <1>2 DEF DriveFrames
<1>4. g \in CallFrames
  BY <1>3 DEF CallFrames, DriveFrames
<1> QED
  BY <1>2, <1>3, <1>4

LEMMA DriveDepsPut ==
  ASSUME NEW f \in CallFrames, f.op = "drive", NEW D \in SUBSET Clients
  PROVE  LET g == [f EXCEPT !.deps = D] IN
         g \in CallFrames /\ g.op = "drive" /\ g.c = f.c /\ g.pc = f.pc
<1>1. f \in DriveFrames
  BY DEF CallFrames, DriveFrames
<1>2. PICK g : g = [f EXCEPT !.deps = D]
  OBVIOUS
<1>3. g \in DriveFrames /\ g.op = "drive" /\ g.c = f.c /\ g.pc = f.pc
  BY <1>1, <1>2 DEF DriveFrames
<1>4. g \in CallFrames
  BY <1>3 DEF CallFrames, DriveFrames
<1> QED
  BY <1>2, <1>3, <1>4

LEMMA PollPcPut ==
  ASSUME NEW f \in CallFrames, f.op = "poll", NEW p \in {"select", "take", "return"}
  PROVE  LET g == [f EXCEPT !.pc = p] IN
         g \in CallFrames /\ g.op = "poll" /\ g.c = f.c /\ g.pc = p
<1>1. f \in PollFrames
  BY DEF CallFrames, PollFrames
<1>2. PICK g : g = [f EXCEPT !.pc = p]
  OBVIOUS
<1>3. g \in PollFrames /\ g.op = "poll" /\ g.c = f.c /\ g.pc = p
  BY <1>1, <1>2 DEF PollFrames
<1>4. g \in CallFrames
  BY <1>3 DEF CallFrames, PollFrames
<1> QED
  BY <1>2, <1>3, <1>4

LEMMA AttemptedPut ==
  ASSUME NEW f \in CallFrames, f.op = "poll"
  PROVE  LET g == [f EXCEPT !.attempted = TRUE] IN
         g \in CallFrames /\ g.op = "poll" /\ g.c = f.c /\ g.pc = f.pc
<1>1. f \in PollFrames
  BY DEF CallFrames, PollFrames
<1>2. PICK g : g = [f EXCEPT !.attempted = TRUE]
  OBVIOUS
<1>3. g \in PollFrames /\ g.op = "poll" /\ g.c = f.c /\ g.pc = f.pc
  BY <1>1, <1>2 DEF PollFrames
<1>4. g \in CallFrames
  BY <1>3 DEF CallFrames, PollFrames
<1> QED
  BY <1>2, <1>3, <1>4

LEMMA CallPut ==
  ASSUME NEW f \in CallFrames, f.op \in {"loop", "wait"},
         NEW p \in {"tick", "check", "return"}, f.op = "wait" => p # "return"
  PROVE  LET g == [f EXCEPT !.pc = p] IN
         g \in CallFrames /\ g.op = f.op /\ g.c = f.c /\ g.pc = p
<1>1. f \in LoopFrames \/ f \in WaitFrames
  BY DEF CallFrames, LoopFrames, WaitFrames
<1>2. PICK g : g = [f EXCEPT !.pc = p]
  OBVIOUS
<1>3. CASE f \in LoopFrames
  <2>1. g \in LoopFrames /\ g.op = f.op /\ g.c = f.c /\ g.pc = p
    BY <1>2, <1>3 DEF LoopFrames
  <2>2. g \in CallFrames
    BY <2>1 DEF CallFrames, LoopFrames
  <2> QED
    BY <1>2, <2>1, <2>2
<1>4. CASE f \in WaitFrames
  <2>0. p \in {"tick", "check"}
    BY <1>4 DEF WaitFrames
  <2>1. g \in WaitFrames /\ g.op = f.op /\ g.c = f.c /\ g.pc = p
    BY <1>2, <1>4, <2>0 DEF WaitFrames
  <2>2. g \in CallFrames
    BY <2>1 DEF CallFrames, WaitFrames
  <2> QED
    BY <1>2, <2>1, <2>2
<1> QED
  BY <1>1, <1>3, <1>4

\* A call goes on and holds what it held.
LEMMA GoOnStep ==
  ASSUME NEW x, NEW y, NEW s, NEW g \in CallFrames, StackInv(x, s), s # <<>>,
         g.op # "lua", g.op = Last(s).op, g.c = Last(s).c,
         g.op = "drive" => (g.pc \in {"pump", "pumped"} <=> Last(s).pc \in {"pump", "pumped"}),
         g.op = "tick" => (g.pc = "ready" <=> Last(s).pc = "ready"),
         Keeps(x, y)
  PROVE  StackInv(y, Append(Front(s), g))
<1>1. PICK f : f = Last(s)
  OBVIOUS
<1>2. /\ g.op # "lua" /\ g.op = f.op /\ g.c = f.c
      /\ g.op = "drive" => (g.pc \in {"pump", "pumped"} <=> f.pc \in {"pump", "pumped"})
      /\ g.op = "tick" => (g.pc = "ready" <=> f.pc = "ready")
  BY <1>1
<1>3. ASSUME NEW c \in Clients PROVE Moved(x.drv[c], y.drv[c], f, g, c)
  <2>1. /\ drives(f, c) <=> drives(g, c)
        /\ pumps(f, c) <=> pumps(g, c)
        /\ drains(f, c) <=> drains(g, c)
        /\ polls(f, c) <=> polls(g, c)
        /\ loops(f, c) <=> loops(g, c)
    BY <1>2 DEF drives, pumps, drains, polls, loops
  <2>2. SameFlags(y.drv[c], x.drv[c])
    BY DEF Keeps
  <2> QED
    BY <2>1, <2>2 DEF Moved, Shift, SameFlags
<1>4. \A c \in Clients : Moved(x.drv[c], y.drv[c], Last(s), g, c)
  BY <1>1, <1>3
<1>5. Last(s).op # "lua"
  OBVIOUS
<1> QED
  BY <1>4, <1>5, SwapStep DEF Keeps

\* Flags of client c change with its frame on top.
LEMMA FlagStep ==
  ASSUME NEW x, NEW y, NEW s, NEW g \in CallFrames, NEW c \in Clients, StackInv(x, s), s # <<>>,
         g.op # "lua", g.op = Last(s).op, g.c = c, Last(s).c = c, y.st = x.st,
         \A e \in Clients : e # c => y.drv[e] = x.drv[e],
         Moved(x.drv[c], y.drv[c], Last(s), g, c)
  PROVE  StackInv(y, Append(Front(s), g))
<1>1. ASSUME NEW e \in Clients PROVE Moved(x.drv[e], y.drv[e], Last(s), g, e)
  <2>1. CASE e # c
    <3>1. Still(Last(s), e) /\ Still(g, e) /\ SameFlags(y.drv[e], x.drv[e])
      BY <2>1 DEF Still, SameFlags
    <3> QED
      BY <3>1, StillMoved
  <2>2. CASE e = c
    BY <2>2
  <2> QED
    BY <2>1, <2>2
<1>2. Last(s).op # "lua"
  OBVIOUS
<1> QED
  BY <1>1, <1>2, SwapStep

LEMMA ReturnStep ==
  ASSUME NEW x, NEW y, NEW s, NEW c \in Clients, StackInv(x, s), s # <<>>, Last(s).c = c,
         \A i \in Ids : x.st[i].status \in Entered => y.st[i].status \in Entered,
         \A e \in Clients : e # c => y.drv[e] = x.drv[e],
         Moved(x.drv[c], y.drv[c], Last(s), NoFrame, c)
  PROVE  StackInv(y, Front(s))
<1>1. ASSUME NEW e \in Clients PROVE Moved(x.drv[e], y.drv[e], Last(s), NoFrame, e)
  <2>1. CASE e # c
    <3>1. Still(Last(s), e) /\ Still(NoFrame, e) /\ SameFlags(y.drv[e], x.drv[e])
      BY <2>1 DEF Still, SameFlags, Quiet, NoFrame
    <3> QED
      BY <3>1, StillMoved
  <2>2. CASE e = c
    BY <2>2
  <2> QED
    BY <2>1, <2>2
<1> QED
  BY <1>1, PopStep

\* More calls may have been made than there are numbers in use.
LEMMA MoreCalls ==
  ASSUME NEW x, NEW n, NEW L, Items(x, n, L)
  PROVE  Items(x, n + 1, L)
<1>1. /\ x \in Managed /\ n \in Nat
      /\ \A i \in Ids : Known(x, i) /\ OfLoop(x, i, n)
      /\ \A c \in Clients : /\ Listed(x, c) /\ Watched(x, c, n)
                            /\ InTurn(x.drv[c], tasks(x, c))
                            /\ InPlace(x.drv[c], taken(x, c) \ L)
  BY DEF Items
<1>2. \A i \in Ids : OfLoop(x, i, n + 1)
  BY <1>1 DEF OfLoop
<1>3. ASSUME NEW c \in Clients PROVE Watched(x, c, n + 1)
  <2>1. x.drv[c].observer.id \in Nat /\ x.drv[c].observer.id <= n
    BY <1>1, ManagedType, ObserverType DEF Watched
  <2>2. x.drv[c].observer.id <= n + 1
    BY <1>1, <2>1
  <2>3. Watched(x, c, n)
    BY <1>1
  <2> QED
    BY <2>2, <2>3 DEF Watched
<1>4. n + 1 \in Nat
  BY <1>1
<1> QED
  BY <1>1, <1>2, <1>3, <1>4 DEF Items

\* Something comes into being.
LEMMA FreshKeeps ==
  ASSUME NEW x, NEW n, NEW i \in Ids, NEW c \in Clients, Items(x, n, {}), Fresh(x, i),
         NEW kind \in {"Future", "Task", "Update", "Raw"}, NEW status \in {"pending", "taken"}
  PROVE  Keeps(x, Put(x, i, kind, c, status))
<1>1. PICK y : y = Put(x, i, kind, c, status)
  OBVIOUS
<1>2. /\ Local(x, y, c, i) /\ y.drv = x.drv /\ x.st[i].status = "none"
  BY <1>1, FreshFields
<1>3. x.st[i].status \notin Begun /\ SameFlags(y.drv[c], x.drv[c])
  BY <1>2 DEF Begun, Unfinished, SameFlags
<1>4. Keeps(x, y)
  BY <1>2, <1>3, LocalKeeps
<1> QED
  BY <1>1, <1>4

-----------------------------------------------------------------------------
(***************************************************************************)
(* Every action keeps the invariant.                                       *)
(***************************************************************************)

LEMMA TopOfStack ==
  ASSUME NEW x, NEW n, NEW s, Items(x, n, {}), StackInv(x, s), s # <<>>
  PROVE  /\ Last(s) \in CallFrames /\ x \in Managed
         /\ Last(s).op = "lua" =>
              LET t == Last(s).t IN
              /\ t \in Ids /\ x.st[t].status \in Entered /\ x.st[t].client \in Clients
              /\ x.st[t].kind # "none"
         /\ Last(s).op # "lua" => Last(s).c \in Clients
<1>1. s \in Seq(CallFrames) /\ x \in Managed /\ \A i \in Ids : Known(x, i)
  BY DEF StackInv, StackShape, Items
<1>2. Last(s) \in CallFrames /\ Last(s) = s[Len(s)] /\ Len(s) \in 1 .. Len(s)
  BY <1>1, TopOf
<1>3. ASSUME Last(s).op = "lua"
      PROVE  LET t == Last(s).t IN
             /\ t \in Ids /\ x.st[t].status \in Entered /\ x.st[t].client \in Clients
             /\ x.st[t].kind # "none"
  <2>1. PICK t : t = Last(s).t
    OBVIOUS
  <2>2. t \in Ids /\ x.st[t].status \in Entered
    BY <1>2, <1>3, <2>1, LuaOf
  <2>3. Known(x, t) /\ x.st[t].status # "none"
    BY <1>1, <2>2 DEF Entered
  <2>4. x.st[t].kind # "none" /\ x.st[t].client \in Clients
    BY <2>3 DEF Known
  <2> QED
    BY <2>1, <2>2, <2>4
<1> QED
  BY <1>1, <1>2, <1>3, FrameTypes

LEMMA SubmitStep ==
  ASSUME CallsInv, NEW c \in Clients, NEW kind \in {"Future", "Task"}, Submit(c, kind)
  PROVE  CallsInv'
<1>1. PICK x, y, s, n : x = m /\ y = m' /\ s = stack /\ n = calls
  OBVIOUS
<1>2. Items(x, n, {}) /\ StackInv(x, s)
  BY <1>1 DEF CallsInv, ManagedInv
<1>3. PICK i \in Ids : Fresh(x, i) /\ y = Put(x, i, kind, c, "pending")
  BY <1>1 DEF Submit
<1>4. PICK k, p : k = kind /\ p = "pending"
  OBVIOUS
<1>5. /\ k \in {"Future", "Task", "Update", "Raw"} /\ p \in {"pending", "taken"}
      /\ p = "pending" <=> k \in {"Future", "Task"}
      /\ y = Put(x, i, k, c, p)
  BY <1>3, <1>4
<1>6. Items(y, n, {}) /\ Keeps(x, y)
  BY <1>2, <1>3, <1>4, <1>5, FreshItems, FreshKeeps
<1>7. StackInv(y, s)
  BY <1>2, <1>6, StayStep
<1> QED
  BY <1>1, <1>6, <1>7 DEF CallsInv, ManagedInv, Submit

LEMMA SuspendStep ==
  ASSUME CallsInv, NEW i \in Ids, Suspend(i)
  PROVE  CallsInv'
<1>1. PICK x, y, s, n : x = m /\ y = m' /\ s = stack /\ n = calls
  OBVIOUS
<1>2. Items(x, n, {}) /\ StackInv(x, s)
  BY <1>1 DEF CallsInv, ManagedInv
<1>3. PICK t : t = Last(s).t
  OBVIOUS
<1>4. /\ s # <<>> /\ Last(s).op = "lua" /\ x.st[t].status = "running" /\ x.st[i].kind # "none"
      /\ y = [x EXCEPT !.st[t].status = "waiting", !.st[t].dep = i]
  BY <1>1, <1>3 DEF Suspend, At, Current
<1>5. t \in Ids
  BY <1>2, <1>3, <1>4, TopOfStack
<1>6. /\ Items(y, n, {}) /\ \A b \in Clients : SameFlags(y.drv[b], x.drv[b])
      /\ \A j \in Ids : j # t => y.st[j] = x.st[j]
  BY ZenonT(40), <1>2, <1>4, <1>5, WaitItems
<1>7. Quiet(Last(s)) /\ Quiet(NoFrame)
  BY <1>4 DEF Quiet, NoFrame
<1>8. \A c \in Clients : Moved(x.drv[c], y.drv[c], Last(s), NoFrame, c)
  BY <1>6, <1>7, QuietMoved
<1>9. \A j \in Ids : x.st[j].status \in Entered =>
         y.st[j].status \in Entered \/ (Last(s).op = "lua" /\ Last(s).t = j)
  BY <1>3, <1>4, <1>6
<1>10. StackInv(y, Front(s))
  BY <1>2, <1>4, <1>8, <1>9, PopStep
<1> QED
  BY <1>1, <1>6, <1>10 DEF CallsInv, ManagedInv, Suspend, Below

\* A Task is over, by itself or because it was stranded: its loop goes on.
LEMMA TaskOver ==
  ASSUME NEW x \in Managed, NEW n, NEW t \in Ids, NEW c \in Clients, NEW stop \in BOOLEAN,
         Items(x, n, {}), x.st[t].status = "running", x.st[t].client = c,
         NEW status \in {"done", "failed"}, NEW e \in Int
  PROVE  LET z == [x EXCEPT !.st[t].status = status, !.drv[c].errors = e]
             y == finishLoopTask(z, t, stop)
         IN Items(y, n, {}) /\ Keeps(x, y)
<1>1. PICK z : z = [x EXCEPT !.st[t].status = status, !.drv[c].errors = e]
  OBVIOUS
<1>2. Items(z, n, {}) /\ Keeps(x, z) /\ Over(x, z, t)
  BY Zenon, <1>1, OverItems
<1>3. /\ z.st[t].client = c /\ t \notin tasks(z, c) /\ tasks(z, c) \subseteq tasks(x, c)
      /\ z.drv[c].observer = x.drv[c].observer
      /\ z.st[t].kind = x.st[t].kind /\ z.st[t].observer = x.st[t].observer
  BY <1>2 DEF Over
<1>4. ASSUME z.st[t].kind = "LoopTask", z.st[t].observer = z.drv[c].observer.id,
             ~z.drv[c].observer.concurrent
      PROVE  tasks(z, c) = {}
  <2>1. t \in tasks(x, c)
    BY <1>2, <1>3, <1>4 DEF tasks, Unfinished
  <2>2. InTurn(x.drv[c], tasks(x, c))
    BY DEF Items
  <2>3. \A i, j \in tasks(x, c) : i = j
    BY <1>3, <1>4, <2>2 DEF InTurn
  <2> QED
    BY <1>3, <2>1, <2>3
<1>5. z.st[t].kind = "LoopTask" /\ z.st[t].observer = z.drv[z.st[t].client].observer.id
        /\ ~z.drv[z.st[t].client].observer.concurrent => tasks(z, z.st[t].client) = {}
  BY <1>3, <1>4
<1>6. PICK y : y = finishLoopTask(z, t, stop)
  OBVIOUS
<1>7. Items(y, n, {}) /\ Keeps(z, y)
  BY <1>2, <1>5, <1>6, FinishItems
<1>8. Keeps(x, y)
  BY <1>2, <1>7, KeepsTrans
<1> QED
  BY <1>1, <1>6, <1>7, <1>8

LEMMA FinishStep ==
  ASSUME CallsInv, NEW how \in {"true", "false", "error"}, FinishTask(how)
  PROVE  CallsInv'
<1>1. PICK x, y, s, r, n : x = m /\ y = m' /\ s = stack /\ r = stack' /\ n = calls
  OBVIOUS
<1>2. Items(x, n, {}) /\ StackInv(x, s)
  BY <1>1 DEF CallsInv, ManagedInv
<1>3. PICK t : t = Last(s).t
  OBVIOUS
<1>4. PICK c : c = x.st[t].client
  OBVIOUS
<1>5. /\ s # <<>> /\ Last(s).op = "lua" /\ calls' = calls
  BY <1>1 DEF FinishTask, At, Current
<1>6. /\ t \in Ids /\ x.st[t].status \in Entered /\ c \in Clients /\ x \in Managed
  BY <1>2, <1>3, <1>4, <1>5, TopOfStack
<1>7. Quiet(Last(s))
  BY <1>5 DEF Quiet
<1>8. CASE isTerminalState(x, t)
  <2>1. y = x /\ r = Front(s)
    BY <1>1, <1>3, <1>8 DEF FinishTask, Current, Below
  <2>2. StackInv(y, r)
    BY <1>2, <1>5, <1>7, <2>1, KeepsSame, LeaveStep
  <2> QED
    BY <1>1, <1>2, <1>5, <2>1, <2>2 DEF CallsInv, ManagedInv
<1>9. CASE ~isTerminalState(x, t)
  <2>1. x.st[t].status = "running"
    BY <1>6, <1>9 DEF isTerminalState, Entered
  <2>2. PICK status : status = IF how = "error" THEN "failed" ELSE "done"
    OBVIOUS
  <2>3. PICK e : e = x.drv[c].errors + (IF how = "error" /\ x.st[t].kind = "LoopTask" THEN 1 ELSE 0)
    OBVIOUS
  <2>4. PICK stop : stop = (how = "false")
    OBVIOUS
  <2>5. status \in {"done", "failed"} /\ e \in Int /\ stop \in BOOLEAN
    <3>1. x.drv[c] \in DriverRec /\ x.drv[c].errors \in Int
      BY <1>6, ManagedType, DriverType
    <3> QED
      BY <2>2, <2>3, <2>4, <3>1
  <2>6. PICK z : z = finishLoopTask([x EXCEPT !.st[t].status = status, !.drv[c].errors = e], t, stop)
    OBVIOUS
  <2>7. Items(z, n, {}) /\ Keeps(x, z)
    BY Zenon, <1>2, <1>4, <1>6, <2>1, <2>5, <2>6, TaskOver
  <2>8. wake(z, Front(s), t)
    BY Zenon, <1>1, <1>3, <1>4, <1>9, <2>2, <2>3, <2>4, <2>6 DEF FinishTask, Current, Below
  <2>9. Woken(z, Front(s), t, y, r)
    BY Zenon, <1>1, <2>8 DEF wake, Woken
  <2>10. StackInv(z, Front(s))
    BY <1>2, <1>5, <1>7, <2>7, LeaveStep
  <2>11. Items(y, n, {}) /\ StackInv(y, r)
    BY <1>6, <2>7, <2>9, <2>10, WakeStep
  <2> QED
    BY <1>1, <1>5, <2>11 DEF CallsInv, ManagedInv
<1> QED
  BY <1>8, <1>9

LEMMA CollectStep ==
  ASSUME CallsInv, NEW c \in Clients, Collect(c)
  PROVE  CallsInv'
<1>1. PICK x, y, s, n : x = m /\ y = m' /\ s = stack /\ n = calls
  OBVIOUS
<1>2. Items(x, n, {}) /\ StackInv(x, s) /\ x \in Managed
  BY <1>1 DEF CallsInv, ManagedInv, Items
<1>3. PICK F : F = pending_requests(x, c)
  OBVIOUS
<1>4. PICK h : h = x.drv[c].selected
  OBVIOUS
<1>5. PICK st : st = [i \in Ids |-> IF i \in F THEN [x.st[i] EXCEPT !.status = "failed"]
                                    ELSE IF i = h THEN [x.st[i] EXCEPT !.status = "dropped"]
                                    ELSE x.st[i]]
  OBVIOUS
<1>6. PICK z : z = [x EXCEPT !.st = st]
  OBVIOUS
<1>7. PICK over : over = {i \in Ids : st[i].client = c /\ isTerminalState(z, i)}
  OBVIOUS
<1>8. PICK N : N = UNION {waitersOf(z, i) : i \in over}
  BY Zenon
<1>9. y = [z EXCEPT !.drv[c].pump = FALSE, !.drv[c].selected = 0,
                    !.drv[c].ready = @ \o ascending(F), !.drv[c].notifications = @ \cup N]
  <2> DEFINE F0 == pending_requests(m, c)
             st0 == [i \in Ids |-> IF i \in F0 THEN [m.st[i] EXCEPT !.status = "failed"]
                                   ELSE IF i = m.drv[c].selected
                                   THEN [m.st[i] EXCEPT !.status = "dropped"] ELSE m.st[i]]
             z0 == [m EXCEPT !.st = st0]
             over0 == {i \in Ids : st0[i].client = c /\ isTerminalState(z0, i)}
             N0 == UNION {waitersOf(z0, i) : i \in over0}
  <2>1. m' = [z0 EXCEPT !.drv[c].pump = FALSE, !.drv[c].selected = 0,
                        !.drv[c].ready = @ \o ascending(F0), !.drv[c].notifications = @ \cup N0]
    BY Zenon DEF Collect
  <2>2. F = F0 /\ h = m.drv[c].selected
    BY Zenon, <1>1, <1>3, <1>4
  <2>3. st = st0
    BY Zenon, <1>1, <1>5, <2>2
  <2> HIDE DEF F0, st0
  <2>4. z = z0
    BY Zenon, <1>1, <1>6, <2>3
  <2> HIDE DEF z0
  <2>5. over = over0
    BY Zenon, <1>7, <2>3, <2>4
  <2> HIDE DEF over0
  <2>6. N = N0
    BY Zenon, <1>8, <2>4, <2>5
  <2> HIDE DEF N0
  <2> QED
    BY Zenon, <1>1, <2>1, <2>2, <2>4, <2>6
<1>10. PICK w : Items(w, n, {}) /\ Keeps(x, w) /\ Deselected(x, w, c)
  BY <1>2, DropSelected
<1>11. /\ w \in Managed
       /\ h # 0 => x.st[h].status = "taken"
       /\ \A j \in Ids : w.st[j] = IF j = h THEN [x.st[j] EXCEPT !.status = "dropped"] ELSE x.st[j]
       /\ \A e \in Clients : e # c => w.drv[e] = x.drv[e]
       /\ w.drv[c] = [x.drv[c] EXCEPT !.selected = 0]
  BY <1>4, <1>10 DEF Deselected
<1>12. /\ x.st \in [Ids -> StateRec] /\ x.drv \in [Clients -> DriverRec] /\ x.drv[c] \in DriverRec
       /\ \A i \in Ids : x.st[i] \in StateRec
       /\ x = [st |-> x.st, drv |-> x.drv]
  BY <1>2, ManagedType DEF Managed
<1>13. z = [st |-> st, drv |-> x.drv]
  BY <1>6, <1>12
<1>14. ASSUME NEW i \in Ids
       PROVE  /\ st[i] \in StateRec /\ st[i].client = x.st[i].client
              /\ i \in F <=> x.st[i].client = c /\ x.st[i].status = "pending"
              /\ i \in F => i # h
  <2>1. i \in F <=> x.st[i].client = c /\ x.st[i].status = "pending"
    BY <1>3 DEF pending_requests
  <2>2. {"failed", "dropped"} \subseteq Begun \cup {"none", "pending", "taken", "dropped"}
    BY DEF Begun
  <2>3. i \in F => i # h
    BY <1>11, <2>1, IdsNat
  <2>4. /\ st[i] = x.st[i] \/ st[i] = [x.st[i] EXCEPT !.status = "failed"]
             \/ st[i] = [x.st[i] EXCEPT !.status = "dropped"]
    BY <1>5
  <2>5. st[i] \in StateRec /\ st[i].client = x.st[i].client
    <3>1. PICK v : v \in {"failed", "dropped", x.st[i].status} /\ st[i] = [x.st[i] EXCEPT !.status = v]
      BY <1>12, <2>4, StatusSame
    <3>2. v \in Begun \cup {"none", "pending", "taken", "dropped"}
      BY <1>12, <2>2, <3>1, StateType
    <3>3. x.st[i] \in StateRec
      BY <1>12
    <3> QED
      BY <3>1, <3>2, <3>3, StatusPut
  <2> QED
    BY <2>1, <2>3, <2>5
<1>15. ASSUME NEW i \in Ids
       PROVE  /\ w.st[i].client = x.st[i].client
              /\ w.st[i].status = "pending" <=> x.st[i].status = "pending"
  <2>1. CASE i = h
    <3>1. x.st[i].status = "taken" /\ w.st[i] = [x.st[i] EXCEPT !.status = "dropped"]
      BY <1>11, <2>1, IdsNat
    <3>2. "dropped" \in Begun \cup {"none", "pending", "taken", "dropped"}
      OBVIOUS
    <3> QED
      BY <1>12, <3>1, <3>2, StatusPut
  <2>2. CASE i # h
    BY <1>11, <2>2
  <2> QED
    BY <2>1, <2>2
<1>16. pending_requests(w, c) = F
  <2>1. \A i \in Ids : i \in pending_requests(w, c) <=> i \in F
    <3>1. SUFFICES ASSUME NEW i \in Ids PROVE i \in pending_requests(w, c) <=> i \in F
      OBVIOUS
    <3>2. i \in pending_requests(w, c) <=> w.st[i].client = c /\ w.st[i].status = "pending"
      BY DEF pending_requests
    <3> QED
      BY <1>14, <1>15, <3>2
  <2>2. pending_requests(w, c) \subseteq Ids /\ F \subseteq Ids
    BY <1>3 DEF pending_requests
  <2> QED
    BY <2>1, <2>2
<1>17. N \subseteq Ids /\ \A t \in N : st[t].status = "waiting" /\ st[t].dep \in Ids /\ st[st[t].dep].client = c
  <2>1. z.st = st
    BY <1>13
  <2> QED
    BY <1>7, <1>8, <2>1 DEF waitersOf
<1>18. PICK q, S : q = x.drv[c].ready \o ascending(F) /\ S = x.drv[c].notifications \cup N
  OBVIOUS
<1>19. q \in Seq(Ids) /\ S \in SUBSET Ids
  <2>1. F \in SUBSET Ids
    BY <1>3 DEF pending_requests
  <2>2. x.drv[c].ready \in Seq(Ids) /\ ascending(F) \in Seq(Ids) /\ x.drv[c].notifications \subseteq Ids
    BY <1>12, <2>1, DriverType, AscendingOnce
  <2> QED
    BY <1>17, <1>18, <2>2, ConcatProperties
<1>20. PICK d : d = [x.drv[c] EXCEPT !.pump = FALSE, !.selected = 0, !.ready = q, !.notifications = S]
  OBVIOUS
<1>21. /\ d \in DriverRec /\ d.consumer = x.drv[c].consumer /\ d.drive = x.drv[c].drive
       /\ d.active = x.drv[c].active /\ d.selecting = x.drv[c].selecting /\ d.selected = 0
       /\ d.draining = x.drv[c].draining /\ d.ready = q /\ d.preserved = x.drv[c].preserved
       /\ d.notifications = S /\ d.observer = x.drv[c].observer
  BY <1>12, <1>19, <1>20 DEF DriverRec
<1>22. y = [st |-> st, drv |-> [x.drv EXCEPT ![c] = d]]
  BY <1>9, <1>12, <1>13, <1>18, <1>20
<1>23. y \in Managed /\ y.st = st /\ y.drv[c] = d /\ \A e \in Clients : e # c => y.drv[e] = x.drv[e]
  <2>1. st \in [Ids -> StateRec]
    BY <1>5, <1>14
  <2>2. [x.drv EXCEPT ![c] = d] \in [Clients -> DriverRec]
    BY <1>12, <1>21
  <2> QED
    BY <1>12, <1>22, <2>1, <2>2 DEF Managed
<1>24. /\ w.drv[c].consumer = x.drv[c].consumer /\ w.drv[c].drive = x.drv[c].drive
       /\ w.drv[c].active = x.drv[c].active /\ w.drv[c].selecting = x.drv[c].selecting
       /\ w.drv[c].selected = 0 /\ w.drv[c].draining = x.drv[c].draining
       /\ w.drv[c].ready = x.drv[c].ready /\ w.drv[c].preserved = x.drv[c].preserved
       /\ w.drv[c].notifications = x.drv[c].notifications /\ w.drv[c].observer = x.drv[c].observer
  <2>1. 0 \in {0} \cup Ids
    OBVIOUS
  <2> QED
    BY <1>11, <1>12, <2>1, SelectedPut
<1>25. Failed(w, y, c)
  <2>1. \A i \in Ids : y.st[i] = IF i \in F THEN [w.st[i] EXCEPT !.status = "failed"] ELSE w.st[i]
    <3>1. SUFFICES ASSUME NEW i \in Ids
                   PROVE y.st[i] = IF i \in F THEN [w.st[i] EXCEPT !.status = "failed"] ELSE w.st[i]
      OBVIOUS
    <3>2. CASE i \in F
      <4>1. w.st[i] = x.st[i]
        BY <1>11, <1>14, <3>2
      <4> QED
        BY <1>5, <1>23, <3>2, <4>1
    <3>3. CASE i \notin F
      BY <1>5, <1>11, <1>23, <3>3
    <3> QED
      BY <3>2, <3>3
  <2>2. \A e \in Clients : e # c => y.drv[e] = w.drv[e]
    BY <1>11, <1>23
  <2>3. /\ SameFlags(y.drv[c], w.drv[c])
        /\ y.drv[c].preserved = w.drv[c].preserved /\ y.drv[c].selected = w.drv[c].selected
        /\ y.drv[c].observer = w.drv[c].observer
        /\ y.drv[c].ready = w.drv[c].ready \o ascending(F)
    BY <1>18, <1>21, <1>23, <1>24 DEF SameFlags
  <2>4. \A t \in y.drv[c].notifications :
          \/ t \in w.drv[c].notifications
          \/ t \in Ids /\ y.st[t].status = "waiting" /\ y.st[t].dep \in Ids /\ y.st[y.st[t].dep].client = c
    BY <1>17, <1>18, <1>21, <1>23, <1>24
  <2> QED
    BY <1>16, <1>23, <2>1, <2>2, <2>3, <2>4 DEF Failed
<1>26. Items(y, n, {}) /\ Keeps(w, y)
  BY <1>10, <1>11, <1>25, FailItems
<1>27. Keeps(x, y)
  BY <1>10, <1>26, KeepsTrans
<1>28. StackInv(y, s)
  BY <1>2, <1>27, StayStep
<1> QED
  BY Zenon, <1>1, <1>26, <1>28 DEF CallsInv, ManagedInv, Collect

\* A call of poll() or loop() on client c begins.
LEMMA ConsumeStep ==
  ASSUME NEW x, NEW y, NEW s, NEW g \in CallFrames, NEW c \in Clients, StackInv(x, s),
         s # <<>> => Last(s).op # "tick",
         g.op \in {"poll", "loop"}, g.c = c, ~x.drv[c].consumer, y.st = x.st,
         \A e \in Clients : e # c => y.drv[e] = x.drv[e],
         y.drv[c].consumer, y.drv[c].drive = x.drv[c].drive, y.drv[c].active = x.drv[c].active,
         y.drv[c].draining = x.drv[c].draining, y.drv[c].selecting = x.drv[c].selecting,
         y.drv[c].observer.id # 0 => x.drv[c].observer.id # 0 \/ g.op = "loop"
  PROVE  StackInv(y, Append(s, g))
<1>1. ASSUME NEW e \in Clients
      PROVE  Moved(x.drv[e], y.drv[e], NoFrame, g, e)
  <2>1. CASE e = c
    BY <2>1 DEF Moved, Shift, drives, pumps, drains, polls, loops, NoFrame
  <2>2. CASE e # c
    <3>1. Still(NoFrame, e) /\ Still(g, e)
      BY <2>2 DEF Still, Quiet, NoFrame
    <3>2. SameFlags(y.drv[e], x.drv[e])
      BY <2>2 DEF SameFlags
    <3> QED
      BY <3>1, <3>2, StillMoved
  <2> QED
    BY <2>1, <2>2
<1> QED
  BY <1>1, PushStep

\* No loop is in progress where nobody consumes.
LEMMA NoLoop ==
  ASSUME NEW x, NEW s, NEW c \in Clients, StackInv(x, s), ~x.drv[c].consumer
  PROVE  x.drv[c].observer.id = 0
<1>1. Once(x.drv[c].consumer, Polling(s, c) \cup Looping(s, c))
        /\ (x.drv[c].observer.id # 0 => Looping(s, c) # {})
  BY DEF StackInv, Flags
<1> QED
  BY <1>1 DEF Once

LEMMA MayConsumeFacts ==
  ASSUME NEW c \in Clients, MayConsume(c)
  PROVE  ~m.drv[c].consumer /\ (stack # <<>> => Last(stack).op # "tick")
BY DEF MayConsume, InLua, At, Current

LEMMA PollStep ==
  ASSUME CallsInv, NEW c \in Clients, NEW callback \in BOOLEAN, NEW deadline \in Deadlines,
         Poll(c, callback, deadline)
  PROVE  CallsInv'
<1>1. PICK x, y, s, r, n : x = m /\ y = m' /\ s = stack /\ r = stack' /\ n = calls
  OBVIOUS
<1>2. Items(x, n, {}) /\ StackInv(x, s) /\ x \in Managed
  BY <1>1 DEF CallsInv, ManagedInv, Items
<1>3. PICK g : g = [op |-> "poll", c |-> c, pc |-> "select", callback |-> callback,
                    deadline |-> deadline, attempted |-> FALSE]
  OBVIOUS
<1>4. g \in CallFrames /\ g.op = "poll" /\ g.c = c
  BY <1>3 DEF CallFrames
<1>5. PICK d : d = [x.drv[c] EXCEPT !.consumer = TRUE]
  OBVIOUS
<1>6. y = [x EXCEPT !.drv[c] = d] /\ r = Append(s, g) /\ calls' = n + 1
  BY <1>1, <1>3, <1>5 DEF Poll
<1>7. ~x.drv[c].consumer /\ (s # <<>> => Last(s).op # "tick")
  BY <1>1, MayConsumeFacts DEF Poll
<1>8. x.drv[c] \in DriverRec
  BY <1>2, ManagedType
<1>9. /\ d \in DriverRec /\ d.consumer /\ d.drive = x.drv[c].drive
      /\ d.active = x.drv[c].active /\ d.selecting = x.drv[c].selecting
      /\ d.selected = x.drv[c].selected /\ d.draining = x.drv[c].draining
      /\ d.ready = x.drv[c].ready /\ d.preserved = x.drv[c].preserved
      /\ d.notifications = x.drv[c].notifications /\ d.observer = x.drv[c].observer
  BY <1>5, <1>8, ConsumerPut
<1>10. /\ Items(y, n, {}) /\ y.st = x.st /\ y.drv[c] = d
       /\ \A e \in Clients : e # c => y.drv[e] = x.drv[e]
  BY <1>2, <1>6, <1>9, FlagItems
<1>11. Items(y, n + 1, {})
  BY <1>10, MoreCalls
<1>12. StackInv(y, Append(s, g))
  BY <1>2, <1>4, <1>7, <1>9, <1>10, ConsumeStep
<1> QED
  BY <1>1, <1>6, <1>11, <1>12 DEF CallsInv, ManagedInv

LEMMA LoopStep ==
  ASSUME CallsInv, NEW c \in Clients, NEW callback \in BOOLEAN, NEW concurrent \in BOOLEAN,
         Loop(c, callback, concurrent)
  PROVE  CallsInv'
<1>1. PICK x, z, s, r, n : x = m /\ z = m' /\ s = stack /\ r = stack' /\ n = calls
  OBVIOUS
<1>2. Items(x, n, {}) /\ StackInv(x, s) /\ x \in Managed /\ n \in Nat
  BY <1>1 DEF CallsInv, ManagedInv, Items
<1>3. PICK g : g = [op |-> "loop", c |-> c, pc |-> "tick", callback |-> callback]
  OBVIOUS
<1>4. g \in CallFrames /\ g.op = "loop" /\ g.c = c
  BY <1>3 DEF CallFrames
<1>5. r = Append(s, g) /\ calls' = n + 1
  BY <1>1, <1>3 DEF Loop
<1>6. ~x.drv[c].consumer /\ (s # <<>> => Last(s).op # "tick")
  BY <1>1, MayConsumeFacts DEF Loop
<1>7. x.drv[c] \in DriverRec
  BY <1>2, ManagedType
<1>8. PICK d : d = [x.drv[c] EXCEPT !.consumer = TRUE]
  OBVIOUS
<1>9. /\ d \in DriverRec /\ d.consumer /\ d.drive = x.drv[c].drive
      /\ d.active = x.drv[c].active /\ d.selecting = x.drv[c].selecting
      /\ d.selected = x.drv[c].selected /\ d.draining = x.drv[c].draining
      /\ d.ready = x.drv[c].ready /\ d.preserved = x.drv[c].preserved
      /\ d.notifications = x.drv[c].notifications /\ d.observer = x.drv[c].observer
  BY <1>7, <1>8, ConsumerPut
<1>10. CASE ~callback
  <2>1. z = [x EXCEPT !.drv[c] = d]
    BY <1>1, <1>8, <1>10 DEF Loop
  <2>2. /\ Items(z, n, {}) /\ z.st = x.st /\ z.drv[c] = d
        /\ \A e \in Clients : e # c => z.drv[e] = x.drv[e]
    BY <1>2, <1>9, <2>1, FlagItems
  <2>3. Items(z, n + 1, {})
    BY <2>2, MoreCalls
  <2>4. StackInv(z, Append(s, g))
    BY <1>2, <1>4, <1>6, <1>9, <2>2, ConsumeStep
  <2> QED
    BY <1>1, <1>5, <2>3, <2>4 DEF CallsInv, ManagedInv
<1>11. CASE callback
  <2>1. PICK o : o = [NoObserver EXCEPT !.id = n + 1, !.concurrent = concurrent]
    OBVIOUS
  <2>2. /\ o \in ObserverRec /\ o.id = n + 1 /\ ~o.active /\ ~o.stopped /\ o.queue = <<>>
    <3>1. PICK p \in ObserverRec : p = NoObserver
      BY NoObserverType
    <3>2. ~p.active /\ ~p.stopped /\ p.queue = <<>>
      BY <3>1, NoObserverType
    <3>3. n + 1 \in Nat
      BY <1>2
    <3>4. o = [p EXCEPT !.id = n + 1, !.concurrent = concurrent]
      BY <2>1, <3>1
    <3> QED
      BY <3>2, <3>3, <3>4 DEF ObserverRec
  <2>3. PICK i : i = x.drv[c].selected
    OBVIOUS
  <2>4. PICK x1 : x1 = [x EXCEPT !.drv[c].consumer = TRUE]
    OBVIOUS
  <2>5. PICK y : y = [x1 EXCEPT !.drv[c].selected = 0, !.drv[c].observer = o]
    OBVIOUS
  <2>6. z = IF i = 0 THEN y ELSE queueOrScheduleLoopUpdate(y, c, i)
    BY <1>1, <1>11, <2>1, <2>3, <2>4, <2>5 DEF Loop
  <2>7. PICK b : b = [d EXCEPT !.observer = o]
    OBVIOUS
  <2>8. /\ b \in DriverRec /\ b.consumer /\ b.drive = x.drv[c].drive
        /\ b.active = x.drv[c].active /\ b.selecting = x.drv[c].selecting
        /\ b.selected = i /\ b.draining = x.drv[c].draining
        /\ b.ready = x.drv[c].ready /\ b.preserved = x.drv[c].preserved
        /\ b.notifications = x.drv[c].notifications /\ b.observer = o
    BY <1>9, <2>2, <2>3, <2>7, ObserverPut
  <2>9. PICK a : a = [b EXCEPT !.selected = 0]
    OBVIOUS
  <2>10. 0 \in {0} \cup Ids
    OBVIOUS
  <2>11. /\ a \in DriverRec /\ a.consumer /\ a.drive = x.drv[c].drive
         /\ a.active = x.drv[c].active /\ a.selecting = x.drv[c].selecting
         /\ a.selected = 0 /\ a.draining = x.drv[c].draining
         /\ a.ready = x.drv[c].ready /\ a.preserved = x.drv[c].preserved
         /\ a.notifications = x.drv[c].notifications /\ a.observer = o
    BY <2>8, <2>9, <2>10, SelectedPut
  <2>12. PICK w : w = [x EXCEPT !.drv[c] = b]
    OBVIOUS
  <2>13. /\ w \in Managed /\ w.drv[c] = b /\ w.st = x.st
         /\ \A e \in Clients : e # c => w.drv[e] = x.drv[e]
    BY <1>2, <2>8, <2>12, PutDriver
  <2>14. x.drv[c].observer.id = 0
    BY <1>2, <1>6, NoLoop
  <2>15. Items(w, n + 1, {}) /\ tasks(w, c) = {}
    <3>1. \A e \in Clients : /\ w.drv[e].preserved = x.drv[e].preserved
                             /\ w.drv[e].selected = x.drv[e].selected
                             /\ w.drv[e].ready = x.drv[e].ready
                             /\ w.drv[e].notifications = x.drv[e].notifications
      BY <2>3, <2>8, <2>13
    <3> QED
      BY <1>2, <2>2, <2>8, <2>13, <2>14, <3>1, LoopItems
  <2>16. y = [x EXCEPT !.drv[c] = a]
    <3>1. x.drv[c] \in DriverRec /\ x.drv \in [Clients -> DriverRec] /\ x = [st |-> x.st, drv |-> x.drv]
      BY <1>2, ManagedType DEF Managed
    <3>2. x1 = [st |-> x.st, drv |-> [x.drv EXCEPT ![c] = d]]
      BY <1>8, <2>4, <3>1
    <3>3. PICK q : q = [d EXCEPT !.selected = 0, !.observer = o]
      OBVIOUS
    <3>4. q = a
      BY <1>9, <2>2, <2>7, <2>9, <3>3 DEF DriverRec
    <3>5. y = [st |-> x.st, drv |-> [x.drv EXCEPT ![c] = q]]
      BY <2>5, <3>1, <3>2, <3>3
    <3> QED
      BY <3>1, <3>4, <3>5
  <2>17. /\ y \in Managed /\ y.drv[c] = a /\ y.st = x.st
         /\ \A e \in Clients : e # c => y.drv[e] = x.drv[e]
    BY <1>2, <2>11, <2>16, PutDriver
  <2>18. StackInv(y, Append(s, g))
    BY <1>2, <1>4, <1>6, <2>11, <2>17, ConsumeStep
  <2>19. CASE i = 0
    <3>1. a = b /\ y = w
      <4>1. a = b
        BY <2>8, <2>9, <2>19 DEF DriverRec
      <4> QED
        BY <2>12, <2>16, <4>1
    <3> QED
      BY <1>1, <1>5, <2>6, <2>15, <2>18, <2>19, <3>1 DEF CallsInv, ManagedInv
  <2>20. CASE i # 0
    <3>1. Held(y, n + 1, c, i) /\ Above(i, y.drv[c].preserved)
      BY <2>8, <2>11, <2>13, <2>15, <2>17, <2>20, TakeSelected
    <3>2. tasks(y, c) = {}
      BY <2>8, <2>11, <2>13, <2>15, <2>17 DEF tasks
    <3>3. NextInLine(y.drv[c], tasks(y, c), i)
      BY <2>2, <2>11, <2>17, <3>1, <3>2, EmptyHas DEF NextInLine
    <3>4. Observing(y, c)
      BY <1>2, <2>2, <2>11, <2>17 DEF Observing
    <3>5. z = queueOrScheduleLoopUpdate(y, c, i)
      BY <2>6, <2>20
    <3>6. Items(z, n + 1, {}) /\ Keeps(y, z)
      BY <3>1, <3>3, <3>4, <3>5, ScheduleItems
    <3>7. StackInv(z, Append(s, g))
      BY <2>18, <3>6, StayStep
    <3> QED
      BY <1>1, <1>5, <3>6, <3>7 DEF CallsInv, ManagedInv
  <2> QED
    BY <2>19, <2>20
<1> QED
  BY <1>10, <1>11

LEMMA WaitStep ==
  ASSUME CallsInv, NEW i \in Ids, Wait(i)
  PROVE  CallsInv'
<1>1. PICK x, s, n : x = m /\ s = stack /\ n = calls
  OBVIOUS
<1>2. Items(x, n, {}) /\ StackInv(x, s) /\ x \in Managed /\ Known(x, i)
  BY <1>1 DEF CallsInv, ManagedInv, Items
<1>3. PICK g : g = [op |-> "wait", c |-> x.st[i].client, pc |-> "tick", i |-> i]
  OBVIOUS
<1>4. m' = x /\ s = <<>> /\ stack' = <<g>> /\ calls' = n /\ x.st[i].kind # "none"
  BY <1>1, <1>3 DEF Wait
<1>5. x.st[i].client \in Clients
  BY <1>2, <1>4 DEF Known
<1>6. g \in CallFrames /\ g.op = "wait"
  BY <1>3, <1>5 DEF CallFrames
<1>7. \A c \in Clients : Moved(x.drv[c], x.drv[c], NoFrame, g, c)
  <2>1. Quiet(NoFrame) /\ Quiet(g)
    BY <1>6 DEF Quiet, NoFrame
  <2>2. \A c \in Clients : SameFlags(x.drv[c], x.drv[c])
    BY DEF SameFlags
  <2> QED
    BY <2>1, <2>2, QuietMoved
<1>8. StackInv(x, Append(s, g))
  BY <1>2, <1>4, <1>6, <1>7, PushStep
<1>9. Append(s, g) = <<g>>
  BY <1>4
<1> QED
  BY <1>1, <1>2, <1>4, <1>8, <1>9 DEF CallsInv, ManagedInv

-----------------------------------------------------------------------------
(***************************************************************************)
(* tick().                                                                 *)
(***************************************************************************)

\* The frame of a call of tick(), drive(), poll(), loop() or a wait is on top.
LEMMA CallOnTop ==
  ASSUME CallsInv, NEW op \in {"tick", "drive", "poll", "loop", "wait"}, NEW pc, At(op, pc)
  PROVE  /\ Items(m, calls, {}) /\ StackInv(m, stack) /\ m \in Managed /\ stack # <<>>
         /\ Last(stack) \in CallFrames /\ Last(stack).op = op /\ Last(stack).pc = pc
         /\ Last(stack).c \in Clients /\ Current = Last(stack) /\ Below = Front(stack)
<1>1. Items(m, calls, {}) /\ StackInv(m, stack) /\ m \in Managed
  BY DEF CallsInv, ManagedInv, Items
<1>2. stack # <<>> /\ Current = Last(stack) /\ Below = Front(stack)
        /\ Last(stack).op = op /\ Last(stack).pc = pc
  BY Zenon DEF At, Current, Below
<1> QED
  BY <1>1, <1>2, TopOfStack

LEMMA TickNotifyStep ==
  ASSUME CallsInv, NEW t \in Ids, TickNotify(t)
  PROVE  CallsInv'
<1>1. PICK x, y, s, r, n, c : /\ x = m /\ y = m' /\ s = stack /\ r = stack' /\ n = calls
                              /\ c = Last(stack).c
  OBVIOUS
<1>2. At("tick", "notify")
  BY DEF TickNotify
<1>3. Items(x, n, {}) /\ StackInv(x, s) /\ c \in Clients /\ Current.c = c
  BY <1>1, <1>2, CallOnTop
<1>4. /\ t \in x.drv[c].notifications /\ r = Append(s, Lua(t)) /\ calls' = n
      /\ y = [x EXCEPT !.st[t].status = "running", !.st[t].dep = 0,
                       !.drv[c].notifications = @ \ {t}]
  BY Zenon, <1>1, <1>3 DEF TickNotify
<1>5. x.st[t].status = "waiting" /\ x.st[x.st[t].dep].client = c
  <2>1. Listed(x, c)
    BY <1>3 DEF Items
  <2> QED
    BY <1>4, <2>1 DEF Listed
<1>6. Items(y, n, {}) /\ Keeps(x, y) /\ y.st[t].status = "running"
  BY Zenon, <1>3, <1>4, <1>5, CallItems
<1>7. StackInv(y, Append(s, Lua(t)))
  BY <1>3, <1>5, <1>6, ResumeStep DEF Entered
<1> QED
  BY <1>1, <1>4, <1>6, <1>7 DEF CallsInv, ManagedInv

LEMMA TickDraining ==
  ASSUME NEW x \in Managed, NEW n, Items(x, n, {}), NEW c \in Clients,
         NEW b \in BOOLEAN, NEW e \in Int
  PROVE  LET y == [x EXCEPT !.drv[c].draining = b, !.drv[c].errors = e] IN
         Items(y, n, {}) /\ DrainSet(x, y, c, b)
<1>0. PICK y : y = [x EXCEPT !.drv[c].draining = b, !.drv[c].errors = e]
  OBVIOUS
<1>1. x.drv[c] \in DriverRec
  BY ManagedType
<1>2. PICK f : f = [x.drv[c] EXCEPT !.draining = b]
  OBVIOUS
<1>3. /\ f \in DriverRec /\ f.consumer = x.drv[c].consumer /\ f.drive = x.drv[c].drive
      /\ f.active = x.drv[c].active /\ f.selecting = x.drv[c].selecting
      /\ f.selected = x.drv[c].selected /\ f.draining = b
      /\ f.ready = x.drv[c].ready /\ f.preserved = x.drv[c].preserved
      /\ f.notifications = x.drv[c].notifications /\ f.observer = x.drv[c].observer
  BY <1>1, <1>2, DrainingPut
<1>4. PICK d : d = [f EXCEPT !.errors = e]
  OBVIOUS
<1>5. /\ d \in DriverRec /\ d.consumer = x.drv[c].consumer /\ d.drive = x.drv[c].drive
      /\ d.active = x.drv[c].active /\ d.selecting = x.drv[c].selecting
      /\ d.selected = x.drv[c].selected /\ d.draining = b
      /\ d.ready = x.drv[c].ready /\ d.preserved = x.drv[c].preserved
      /\ d.notifications = x.drv[c].notifications /\ d.observer = x.drv[c].observer
  BY <1>3, <1>4, ErrorsPut
<1>6. y = [x EXCEPT !.drv[c] = d]
  <2>1. x.drv \in [Clients -> DriverRec] /\ x = [st |-> x.st, drv |-> x.drv]
    BY ManagedType DEF Managed
  <2> QED
    BY <1>0, <1>2, <1>4, <2>1
<1>7. /\ Items(y, n, {}) /\ y.st = x.st /\ y.drv[c] = d
      /\ \A a \in Clients : a # c => y.drv[a] = x.drv[a]
  BY <1>5, <1>6, FlagItems
<1>8. DrainSet(x, y, c, b)
  BY <1>5, <1>7 DEF DrainSet
<1> QED
  BY <1>0, <1>7, <1>8

LEMMA TickEnterStep ==
  ASSUME CallsInv, TickEnter
  PROVE  CallsInv'
<1>1. PICK x, y, s, r, n, c : /\ x = m /\ y = m' /\ s = stack /\ r = stack' /\ n = calls
                              /\ c = Last(stack).c
  OBVIOUS
<1>2. At("tick", "notify") /\ calls' = n
  BY <1>1 DEF TickEnter
<1>3. /\ Items(x, n, {}) /\ StackInv(x, s) /\ c \in Clients /\ Current.c = c /\ x \in Managed
      /\ s # <<>> /\ Last(s) \in CallFrames /\ Last(s).op = "tick" /\ Last(s).pc = "notify"
      /\ Current = Last(s) /\ Below = Front(s)
  BY <1>1, <1>2, CallOnTop
<1>4. CASE x.drv[c].draining
  <2>1. y = x /\ r = Front(s)
    BY <1>1, <1>3, <1>4 DEF TickEnter
  <2>2. Quiet(Last(s))
    BY <1>3 DEF Quiet
  <2>3. StackInv(y, r)
    BY <1>3, <2>1, <2>2, KeepsSame, LeaveStep
  <2> QED
    BY <1>1, <1>2, <1>3, <2>1, <2>3 DEF CallsInv, ManagedInv
<1>5. CASE ~x.drv[c].draining
  <2>1. PICK g : g = [Last(s) EXCEPT !.pc = "ready"]
    OBVIOUS
  <2>2. g \in CallFrames /\ g.op = "tick" /\ g.c = c /\ g.pc = "ready"
    BY ZenonT(40), <1>1, <1>3, <2>1, TickPut
  <2>3. y = [x EXCEPT !.drv[c].draining = TRUE] /\ r = Append(Front(s), g)
    BY <1>1, <1>3, <1>5, <2>1 DEF TickEnter, GoTo
  <2>4. x.drv[c].errors \in Int /\ y = [x EXCEPT !.drv[c].draining = TRUE, !.drv[c].errors = x.drv[c].errors]
    <3>1. x.drv \in [Clients -> DriverRec] /\ x = [st |-> x.st, drv |-> x.drv] /\ x.drv[c] \in DriverRec
      BY <1>3, ManagedType DEF Managed
    <3>2. x.drv[c].errors \in Int
      BY <3>1, DriverType
    <3>3. PICK d \in DriverRec : d = x.drv[c]
      BY <3>1
    <3>4. [d EXCEPT !.draining = TRUE] = [[d EXCEPT !.draining = TRUE] EXCEPT !.errors = d.errors]
      BY DEF DriverRec
    <3> QED
      BY ZenonT(40), <2>3, <3>1, <3>2, <3>3, <3>4
  <2>5. Items(y, n, {}) /\ DrainSet(x, y, c, TRUE)
    <3>1. PICK b, e : b = TRUE /\ e = x.drv[c].errors
      OBVIOUS
    <3>2. b \in BOOLEAN /\ e \in Int /\ y = [x EXCEPT !.drv[c].draining = b, !.drv[c].errors = e]
      BY <2>4, <3>1
    <3>3. Items(y, n, {}) /\ DrainSet(x, y, c, b)
      BY Zenon, <1>3, <3>2, TickDraining
    <3> QED
      BY <3>1, <3>3
  <2>6. Moved(x.drv[c], y.drv[c], Last(s), g, c)
    BY <1>1, <1>3, <1>5, <2>2, <2>5 DEF DrainSet, Moved, Shift, drives, pumps, drains, polls, loops
  <2>7. StackInv(y, r)
    <3>1. y.st = x.st /\ \A a \in Clients : a # c => y.drv[a] = x.drv[a]
      BY <2>5 DEF DrainSet
    <3>2. /\ g.op # "lua" /\ g.op = Last(s).op /\ Last(s).c = c
      BY <1>1, <1>3, <2>2
    <3> QED
      BY <1>3, <2>2, <2>3, <2>6, <3>1, <3>2, FlagStep
  <2> QED
    BY <1>1, <1>2, <2>5, <2>7 DEF CallsInv, ManagedInv
<1> QED
  BY <1>4, <1>5

LEMMA TickEndStep ==
  ASSUME CallsInv, TickEnd
  PROVE  CallsInv'
<1>1. PICK x, y, s, r, n, c : /\ x = m /\ y = m' /\ s = stack /\ r = stack' /\ n = calls
                              /\ c = Last(stack).c
  OBVIOUS
<1>2. At("tick", "ready") /\ calls' = n
  BY <1>1 DEF TickEnd
<1>3. /\ Items(x, n, {}) /\ StackInv(x, s) /\ c \in Clients /\ Current.c = c /\ x \in Managed
      /\ s # <<>> /\ Last(s) \in CallFrames /\ Last(s).op = "tick" /\ Last(s).pc = "ready"
      /\ Current = Last(s) /\ Below = Front(s)
  BY <1>1, <1>2, CallOnTop
<1>4. x.drv \in [Clients -> DriverRec] /\ x = [st |-> x.st, drv |-> x.drv] /\ x.drv[c] \in DriverRec
  BY <1>3, ManagedType DEF Managed
<1>5. x.drv[c].errors \in Int
  BY <1>4, DriverType
<1>6. PICK e : e = IF x.drv[c].errors = 0 THEN x.drv[c].errors ELSE x.drv[c].errors - 1
  OBVIOUS
<1>7. e \in Int
  BY <1>5, <1>6
<1>8. y = [x EXCEPT !.drv[c].draining = FALSE, !.drv[c].errors = e]
  <2>1. PICK d \in DriverRec : d = x.drv[c]
    BY <1>4
  <2>2. [d EXCEPT !.draining = FALSE] = [[d EXCEPT !.draining = FALSE] EXCEPT !.errors = d.errors]
    BY DEF DriverRec
  <2>3. CASE x.drv[c].errors = 0
    <3>1. y = [x EXCEPT !.drv[c].draining = FALSE]
      BY <1>1, <1>3, <2>3 DEF TickEnd
    <3> QED
      BY ZenonT(40), <1>4, <1>6, <2>1, <2>2, <2>3, <3>1
  <2>4. CASE x.drv[c].errors # 0
    <3>1. PICK z : z = [x EXCEPT !.drv[c].draining = FALSE]
      OBVIOUS
    <3>2. y = [z EXCEPT !.drv[c].errors = @ - 1]
      BY <1>1, <1>3, <2>4, <3>1 DEF TickEnd
    <3>3. z = [st |-> x.st, drv |-> [x.drv EXCEPT ![c] = [d EXCEPT !.draining = FALSE]]]
      BY <1>4, <2>1, <3>1
    <3>4. PICK f : f = [d EXCEPT !.draining = FALSE]
      OBVIOUS
    <3>5. f.errors = d.errors
      BY <3>4 DEF DriverRec
    <3>6. y = [st |-> x.st, drv |-> [x.drv EXCEPT ![c] = [f EXCEPT !.errors = e]]]
      <4>1. PICK g : g = [f EXCEPT !.errors = e]
        OBVIOUS
      <4>2. z.st = x.st /\ z.drv = [x.drv EXCEPT ![c] = f] /\ z.drv[c] = f
        BY <1>3, <1>4, <2>1, <3>3, <3>4
      <4>3. e = z.drv[c].errors - 1
        BY <1>6, <2>1, <2>4, <3>5, <4>2
      <4>4. y = [z EXCEPT !.drv[c].errors = e]
        BY <3>2, <4>3
      <4>5. z = [st |-> z.st, drv |-> z.drv]
        BY <3>3
      <4>6. y = [st |-> z.st, drv |-> [z.drv EXCEPT ![c] = g]]
        BY <4>1, <4>2, <4>4, <4>5
      <4>7. [z.drv EXCEPT ![c] = g] = [x.drv EXCEPT ![c] = g]
        BY <1>3, <1>4, <4>2
      <4> QED
        BY <4>1, <4>2, <4>6, <4>7
    <3>7. PICK v : v = [x EXCEPT !.drv[c].draining = FALSE, !.drv[c].errors = e]
      OBVIOUS
    <3>8. v = [st |-> x.st, drv |-> [x.drv EXCEPT ![c] = [f EXCEPT !.errors = e]]]
      BY <1>4, <2>1, <3>4, <3>7
    <3> QED
      BY <3>6, <3>7, <3>8
  <2> QED
    BY <2>3, <2>4
<1>9. Items(y, n, {}) /\ DrainSet(x, y, c, FALSE)
  <2>1. PICK b : b = FALSE
    BY Zenon
  <2>2. b \in BOOLEAN /\ y = [x EXCEPT !.drv[c].draining = b, !.drv[c].errors = e]
    BY <1>8, <2>1
  <2>3. Items(y, n, {}) /\ DrainSet(x, y, c, b)
    BY Zenon, <1>3, <1>7, <2>2, TickDraining
  <2> QED
    BY <2>1, <2>3
<1>12. y.st = x.st /\ \A a \in Clients : a # c => y.drv[a] = x.drv[a]
  BY <1>9 DEF DrainSet
<1>10. CASE x.drv[c].errors = 0
  <2>1. r = Front(s)
    BY <1>1, <1>3, <1>10 DEF TickEnd
  <2>2. Moved(x.drv[c], y.drv[c], Last(s), NoFrame, c)
    BY <1>1, <1>3, <1>9 DEF DrainSet, Moved, Shift, drives, pumps, drains, polls, loops, NoFrame
  <2>3. StackInv(y, r)
    BY <1>1, <1>3, <1>12, <2>1, <2>2, ReturnStep
  <2> QED
    BY <1>1, <1>2, <1>9, <2>3 DEF CallsInv, ManagedInv
<1>11. CASE x.drv[c].errors # 0
  <2>1. PICK g : g = [Last(s) EXCEPT !.pc = "strand"]
    OBVIOUS
  <2>2. g \in CallFrames /\ g.op = "tick" /\ g.c = c /\ g.pc = "strand"
    BY ZenonT(40), <1>1, <1>3, <2>1, TickPut
  <2>3. r = Append(Front(s), g)
    BY <1>1, <1>3, <1>11, <2>1 DEF TickEnd, GoTo
  <2>4. Moved(x.drv[c], y.drv[c], Last(s), g, c)
    BY <1>1, <1>3, <1>9, <2>2 DEF DrainSet, Moved, Shift, drives, pumps, drains, polls, loops
  <2>5. StackInv(y, r)
    <3>1. /\ g.op # "lua" /\ g.op = Last(s).op /\ Last(s).c = c
      BY <1>1, <1>3, <2>2
    <3> QED
      BY <1>3, <1>12, <2>2, <2>3, <2>4, <3>1, FlagStep
  <2> QED
    BY <1>1, <1>2, <1>9, <2>5 DEF CallsInv, ManagedInv
<1> QED
  BY <1>10, <1>11

LEMMA TickRunStep ==
  ASSUME CallsInv, TickRun
  PROVE  CallsInv'
<1>1. PICK x, y, s, r, n, c : /\ x = m /\ y = m' /\ s = stack /\ r = stack' /\ n = calls
                              /\ c = Last(stack).c
  OBVIOUS
<1>2. At("tick", "ready") /\ calls' = n
  BY <1>1 DEF TickRun
<1>3. /\ Items(x, n, {}) /\ StackInv(x, s) /\ c \in Clients /\ Current.c = c /\ x \in Managed
  BY <1>1, <1>2, CallOnTop
<1>4. PICK i : i = Head(x.drv[c].ready)
  OBVIOUS
<1>5. PICK w : w = [x EXCEPT !.drv[c].ready = Tail(@)]
  OBVIOUS
<1>6. PICK z : z = [w EXCEPT !.st[i].status = "running"]
  OBVIOUS
<1>7. x.drv[c].ready # <<>>
  BY <1>1, <1>3 DEF TickRun
<1>8. /\ i \in Ids /\ x.st[i].status \in Due /\ x.st[i].kind # "none"
      /\ Items(w, n, {}) /\ Keeps(x, w)
      /\ ~isTerminalState(x, i) => Items(z, n, {}) /\ Keeps(x, z) /\ z.st[i].status = "running"
  BY Zenon, <1>3, <1>4, <1>5, <1>6, <1>7, RunItems
<1>9. CASE isTerminalState(x, i)
  <2>1. Woken(w, s, i, y, r)
    <3>1. wake(w, s, i)
      BY <1>1, <1>3, <1>4, <1>5, <1>9 DEF TickRun
    <3> QED
      BY Zenon, <1>1, <3>1 DEF wake, Woken
  <2>2. StackInv(w, s)
    BY <1>3, <1>8, StayStep
  <2>3. Items(y, n, {}) /\ StackInv(y, r)
    BY <1>8, <2>1, <2>2, WakeStep
  <2> QED
    BY <1>1, <1>2, <2>3 DEF CallsInv, ManagedInv
<1>10. CASE ~isTerminalState(x, i)
  <2>1. y = z /\ r = Append(s, Lua(i))
    BY Zenon, <1>1, <1>3, <1>4, <1>5, <1>6, <1>10 DEF TickRun
  <2>2. x.st[i].status \notin Entered /\ y.st[i].status \in Entered
    BY <1>8, <1>10, <2>1 DEF isTerminalState, Entered, Due
  <2>3. StackInv(y, r)
    BY <1>3, <1>8, <1>10, <2>1, <2>2, ResumeStep
  <2> QED
    BY <1>1, <1>2, <1>8, <1>10, <2>1, <2>3 DEF CallsInv, ManagedInv
<1> QED
  BY <1>9, <1>10

LEMMA FailStrandedStep ==
  ASSUME CallsInv, NEW t \in Ids, FailStranded(t)
  PROVE  CallsInv'
<1>1. PICK x, y, s, r, n, c : /\ x = m /\ y = m' /\ s = stack /\ r = stack' /\ n = calls
                              /\ c = Last(stack).c
  OBVIOUS
<1>2. At("tick", "strand") /\ calls' = n
  BY <1>1 DEF FailStranded
<1>3. /\ Items(x, n, {}) /\ StackInv(x, s) /\ c \in Clients /\ Current.c = c /\ x \in Managed
  BY <1>1, <1>2, CallOnTop
<1>4. x.st[t].client = c /\ x.st[t].status = "running"
  BY <1>1, <1>3 DEF FailStranded
<1>13. PICK b : b = IF x.st[t].kind = "LoopTask" THEN 1 ELSE 0
  OBVIOUS
<1>5. PICK status, stop, e : status = "failed" /\ stop = FALSE /\ e = x.drv[c].errors + b
  OBVIOUS
<1>6. status \in {"done", "failed"} /\ stop \in BOOLEAN /\ e \in Int
  <2>1. x.drv[c].errors \in Int
    BY <1>3, ManagedType, DriverType
  <2>2. e \in Int
    <3>1. b \in Int /\ e = x.drv[c].errors + b
      BY <1>5, <1>13
    <3> QED
      BY <2>1, <3>1
  <2>3. FALSE \in BOOLEAN
    OBVIOUS
  <2> QED
    BY <1>5, <2>2, <2>3
<1>7. PICK z : z = finishLoopTask([x EXCEPT !.st[t].status = status, !.drv[c].errors = e], t, stop)
  OBVIOUS
<1>8. Items(z, n, {}) /\ Keeps(x, z)
  BY Zenon, <1>3, <1>4, <1>6, <1>7, TaskOver
<1>9. wake(z, s, t)
  BY <1>1, <1>3, <1>5, <1>7, <1>13 DEF FailStranded
<1>10. Woken(z, s, t, y, r)
  BY Zenon, <1>1, <1>9 DEF wake, Woken
<1>11. StackInv(z, s)
  BY <1>3, <1>8, StayStep
<1>12. Items(y, n, {}) /\ StackInv(y, r)
  BY <1>8, <1>10, <1>11, WakeStep
<1> QED
  BY <1>1, <1>2, <1>12 DEF CallsInv, ManagedInv

LEMMA ThrowsStep ==
  ASSUME CallsInv, Throw
  PROVE  CallsInv'
<1>1. PICK x, y, s, r, n : x = m /\ y = m' /\ s = stack /\ r = stack' /\ n = calls
  OBVIOUS
<1>2. At("tick", "strand") /\ calls' = n
  BY Zenon, <1>1 DEF Throw
<1>3. /\ Items(x, n, {}) /\ StackInv(x, s) /\ x \in Managed
      /\ s # <<>> /\ Last(s).op = "tick" /\ Last(s).pc # "ready"
  BY <1>1, <1>2, CallOnTop
<1>4. PICK k : k = CHOOSE l \in 0 .. Len(s) :
                     /\ l = 0 \/ s[l].op = "lua"
                     /\ \A j \in l + 1 .. Len(s) : s[j].op # "lua"
  OBVIOUS
<1>5. Catches(s, k)
  <2>1. s \in Seq(CallFrames)
    BY <1>3 DEF StackInv, StackShape
  <2>2. \E l \in 0 .. Len(s) : Catches(s, l)
    BY <2>1, LastLua
  <2>3. \E l \in 0 .. Len(s) : /\ l = 0 \/ s[l].op = "lua"
                               /\ \A j \in l + 1 .. Len(s) : s[j].op # "lua"
    BY <2>2 DEF Catches
  <2> QED
    BY <1>4, <2>3 DEF Catches
<1>6. PICK D, C : D = Unwound(s, k, "drive") /\ C = Unwound(s, k, "poll") \cup Unwound(s, k, "loop")
  OBVIOUS
<1>7. y = endUpdateConsumers(Halted(x, D), C) /\ r = SubSeq(s, 1, k)
  <2> DEFINE K == CHOOSE l \in 0 .. Len(stack) :
                    /\ l = 0 \/ stack[l].op = "lua"
                    /\ \A j \in l + 1 .. Len(stack) : stack[j].op # "lua"
  <2>1. /\ m' = endUpdateConsumers(Halted(m, Unwound(stack, K, "drive")),
                                   Unwound(stack, K, "poll") \cup Unwound(stack, K, "loop"))
        /\ stack' = SubSeq(stack, 1, K)
    BY Zenon DEF Throw, Halted, Unwound
  <2>2. K = k
    BY <1>1, <1>4
  <2> QED
    BY <1>1, <1>6, <2>1, <2>2
<1>8. Items(y, n, {}) /\ StackInv(y, r)
  BY <1>3, <1>5, <1>6, <1>7, ThrowStep
<1> QED
  BY <1>1, <1>2, <1>8 DEF CallsInv, ManagedInv

-----------------------------------------------------------------------------
(***************************************************************************)
(* driveStep().                                                            *)
(***************************************************************************)

LEMMA Dependencies ==
  ASSUME CallsInv, NEW c
  PROVE  crossClientDependencies(c) \in SUBSET Clients
<1>1. SUFFICES ASSUME NEW t \in running_tasks(m, c), m.st[t].status = "waiting"
               PROVE  m.st[m.st[t].dep].client \in Clients
  BY DEF crossClientDependencies
<1>2. t \in Ids
  BY DEF running_tasks
<1>3. \A i \in Ids : Known(m, i)
  BY DEF CallsInv, ManagedInv, Items
<1>4. m.st[t].dep \in Ids /\ m.st[m.st[t].dep].kind # "none"
  BY <1>1, <1>2, <1>3 DEF Known
<1> QED
  BY <1>3, <1>4 DEF Known

LEMMA DriveOff ==
  ASSUME NEW x \in Managed, NEW n, Items(x, n, {}), NEW c \in Clients
  PROVE  LET y == [x EXCEPT !.drv[c].drive = FALSE] IN
         Items(y, n, {}) /\ DriveSet(x, y, c, FALSE, x.drv[c].active)
<1>1. PICK d : d = [x.drv[c] EXCEPT !.drive = FALSE]
  OBVIOUS
<1>2. x.drv[c] \in DriverRec
  BY ManagedType
<1>3. /\ d \in DriverRec /\ d.consumer = x.drv[c].consumer /\ d.drive = FALSE
      /\ d.active = x.drv[c].active /\ d.selecting = x.drv[c].selecting
      /\ d.selected = x.drv[c].selected /\ d.draining = x.drv[c].draining
      /\ d.ready = x.drv[c].ready /\ d.preserved = x.drv[c].preserved
      /\ d.notifications = x.drv[c].notifications /\ d.observer = x.drv[c].observer
  BY <1>1, <1>2, DrivePut
<1>4. PICK y : y = [x EXCEPT !.drv[c].drive = FALSE]
  OBVIOUS
<1>5. y = [x EXCEPT !.drv[c] = d]
  BY <1>1, <1>4
<1>6. /\ Items(y, n, {}) /\ y.st = x.st /\ y.drv[c] = d
      /\ \A e \in Clients : e # c => y.drv[e] = x.drv[e]
  BY <1>3, <1>5, FlagItems
<1>7. DriveSet(x, y, c, FALSE, x.drv[c].active)
  BY <1>3, <1>6 DEF DriveSet
<1> QED
  BY <1>4, <1>6, <1>7

LEMMA ActiveSet ==
  ASSUME NEW x \in Managed, NEW n, Items(x, n, {}), NEW c \in Clients, NEW b \in BOOLEAN
  PROVE  LET y == [x EXCEPT !.drv[c].active = b] IN
         Items(y, n, {}) /\ DriveSet(x, y, c, x.drv[c].drive, b)
<1>1. PICK d : d = [x.drv[c] EXCEPT !.active = b]
  OBVIOUS
<1>2. x.drv[c] \in DriverRec
  BY ManagedType
<1>3. /\ d \in DriverRec /\ d.consumer = x.drv[c].consumer /\ d.drive = x.drv[c].drive
      /\ d.active = b /\ d.selecting = x.drv[c].selecting
      /\ d.selected = x.drv[c].selected /\ d.draining = x.drv[c].draining
      /\ d.ready = x.drv[c].ready /\ d.preserved = x.drv[c].preserved
      /\ d.notifications = x.drv[c].notifications /\ d.observer = x.drv[c].observer
  BY <1>1, <1>2, ActivePut
<1>4. PICK y : y = [x EXCEPT !.drv[c].active = b]
  OBVIOUS
<1>5. y = [x EXCEPT !.drv[c] = d]
  BY <1>1, <1>4
<1>6. /\ Items(y, n, {}) /\ y.st = x.st /\ y.drv[c] = d
      /\ \A e \in Clients : e # c => y.drv[e] = x.drv[e]
  BY <1>3, <1>5, FlagItems
<1>7. DriveSet(x, y, c, x.drv[c].drive, b)
  BY <1>3, <1>6 DEF DriveSet
<1> QED
  BY <1>4, <1>6, <1>7

\* driveStep() returns.
LEMMA DriveReturns ==
  ASSUME CallsInv, NEW pc, At("drive", pc), pc \notin {"pump", "pumped"},
         m' = [m EXCEPT !.drv[Current.c].drive = FALSE], stack' = Below, calls' = calls
  PROVE  CallsInv'
<1>1. PICK x, y, s, r, n, c : /\ x = m /\ y = m' /\ s = stack /\ r = stack' /\ n = calls
                              /\ c = Last(stack).c
  OBVIOUS
<1>2. /\ Items(x, n, {}) /\ StackInv(x, s) /\ c \in Clients /\ Current.c = c /\ x \in Managed
      /\ s # <<>> /\ Last(s) \in CallFrames /\ Last(s).op = "drive" /\ Last(s).pc = pc
      /\ Below = Front(s)
  BY <1>1, CallOnTop
<1>3. y = [x EXCEPT !.drv[c].drive = FALSE] /\ r = Front(s)
  BY <1>1, <1>2
<1>4. Items(y, n, {}) /\ DriveSet(x, y, c, FALSE, x.drv[c].active)
  BY <1>2, <1>3, DriveOff
<1>5. y.st = x.st /\ \A e \in Clients : e # c => y.drv[e] = x.drv[e]
  BY <1>4 DEF DriveSet
<1>6. Moved(x.drv[c], y.drv[c], Last(s), NoFrame, c)
  BY <1>1, <1>2, <1>4 DEF DriveSet, Moved, Shift, drives, pumps, drains, polls, loops, NoFrame
<1>7. StackInv(y, r)
  <2>1. \A i \in Ids : x.st[i].status \in Entered => y.st[i].status \in Entered
    BY <1>5
  <2>2. s # <<>> /\ Last(s).c = c /\ r = Front(s)
    BY <1>1, <1>2, <1>3
  <2> QED
    BY <1>2, <1>5, <1>6, <2>1, <2>2, ReturnStep
<1> QED
  BY <1>1, <1>4, <1>7 DEF CallsInv, ManagedInv

LEMMA DriveEndStep ==
  ASSUME CallsInv, DriveEnd
  PROVE  CallsInv'
<1>1. PICK pc : pc = "last"
  OBVIOUS
<1> QED
  BY <1>1, DriveReturns DEF DriveEnd

\* The only drive of client c is on top; it reads the transport or nobody does.
LEMMA NotPumping ==
  ASSUME NEW x, NEW s, NEW c \in Clients, StackInv(x, s), s # <<>>, drives(Last(s), c),
         ~pumps(Last(s), c)
  PROVE  ~x.drv[c].active
<1>1. /\ Once(x.drv[c].drive, Driving(s, c)) /\ Once(x.drv[c].active, Pumping(s, c))
      /\ s \in Seq(CallFrames)
  BY DEF StackInv, StackShape, Flags
<1>2. Last(s) = s[Len(s)] /\ Len(s) \in 1 .. Len(s)
  BY <1>1, TopOf
<1>3. Len(s) \in Driving(s, c)
  BY <1>2 DEF Driving
<1>4. \A k \in Driving(s, c) : k = Len(s)
  BY <1>1, <1>3 DEF Once
<1>5. Pumping(s, c) \subseteq Driving(s, c)
  BY DEF Pumping, Driving, pumps, drives
<1>6. Len(s) \notin Pumping(s, c)
  BY <1>2 DEF Pumping
<1>7. Pumping(s, c) = {}
  BY <1>4, <1>5, <1>6
<1> QED
  BY <1>1, <1>7 DEF Once

\* driveStep() goes on, and begins to read the transport or ends it.
LEMMA DriveGoesOn ==
  ASSUME CallsInv, NEW pc, At("drive", pc), NEW b \in BOOLEAN,
         m' = [m EXCEPT !.drv[Current.c].active = b],
         NEW D \in SUBSET Clients, NEW p \in {"pump", "pumped", "round"},
         stack' = Append(Below, [Current EXCEPT !.pc = p, !.deps = D]),
         b <=> p \in {"pump", "pumped"}, b <=> pc \notin {"pump", "pumped"}, calls' = calls
  PROVE  CallsInv'
<1>1. PICK x, y, s, r, n, c : /\ x = m /\ y = m' /\ s = stack /\ r = stack' /\ n = calls
                              /\ c = Last(stack).c
  OBVIOUS
<1>2. /\ Items(x, n, {}) /\ StackInv(x, s) /\ c \in Clients /\ Current = Last(s) /\ x \in Managed
      /\ s # <<>> /\ Last(s) \in CallFrames /\ Last(s).op = "drive" /\ Last(s).pc = pc
      /\ Below = Front(s)
  BY <1>1, CallOnTop
<1>3. PICK g : g = [Last(s) EXCEPT !.pc = p, !.deps = D]
  OBVIOUS
<1>4. g \in CallFrames /\ g.op = "drive" /\ g.c = c /\ g.pc = p
  <2>1. p \in {"tick", "pump", "pumped", "round", "last"} /\ Last(s).c = c
    BY <1>1
  <2>2. PICK f \in CallFrames : f = Last(s)
    BY <1>2
  <2>3. f.op = "drive" /\ g = [f EXCEPT !.pc = p, !.deps = D] /\ f.c = c
    BY <1>2, <1>3, <2>1, <2>2
  <2>4. g \in CallFrames /\ g.op = "drive" /\ g.c = f.c /\ g.pc = p
    <3>1. PICK h : h = [f EXCEPT !.pc = p]
      OBVIOUS
    <3>2. h \in CallFrames /\ h.op = "drive" /\ h.c = f.c /\ h.pc = p
      BY <2>1, <2>3, <3>1, DrivePcPut
    <3>3. g = [h EXCEPT !.deps = D]
      BY <2>3, <3>1
    <3> QED
      BY <3>2, <3>3, DriveDepsPut
  <2> QED
    BY <2>3, <2>4
<1>5. y = [x EXCEPT !.drv[c].active = b] /\ r = Append(Front(s), g)
  BY <1>1, <1>2, <1>3
<1>6. Items(y, n, {}) /\ DriveSet(x, y, c, x.drv[c].drive, b)
  BY <1>2, <1>5, ActiveSet
<1>7. y.st = x.st /\ \A e \in Clients : e # c => y.drv[e] = x.drv[e]
  BY <1>6 DEF DriveSet
<1>8. Moved(x.drv[c], y.drv[c], Last(s), g, c)
  <2>2. pumps(Last(s), c) <=> pc \in {"pump", "pumped"}
    BY <1>1, <1>2 DEF pumps
  <2>3. ~drains(Last(s), c) /\ ~polls(Last(s), c) /\ ~loops(Last(s), c) /\ drives(Last(s), c)
    BY <1>1, <1>2 DEF drains, polls, loops, drives
  <2>4. ~drains(g, c) /\ ~polls(g, c) /\ ~loops(g, c) /\ drives(g, c) /\ (pumps(g, c) <=> b)
    BY <1>4 DEF drains, polls, loops, drives, pumps
  <2>5. ~pumps(Last(s), c) => ~x.drv[c].active
    BY <1>2, <2>3, NotPumping
  <2> QED
    BY <1>6, <2>2, <2>3, <2>4, <2>5 DEF DriveSet, Moved, Shift
<1>9. StackInv(y, r)
  <2>1. /\ g.op # "lua" /\ g.op = Last(s).op /\ Last(s).c = c
    BY <1>1, <1>2, <1>4
  <2> QED
    BY <1>2, <1>4, <1>5, <1>7, <1>8, <2>1, FlagStep
<1> QED
  BY <1>1, <1>6, <1>9 DEF CallsInv, ManagedInv

LEMMA DriveBeginStep ==
  ASSUME CallsInv, DriveBegin
  PROVE  CallsInv'
<1>1. PICK pc, p : pc = "tick" /\ p = "pump"
  OBVIOUS
<1>2. At("drive", pc) /\ calls' = calls /\ pc \notin {"pump", "pumped"}
  BY <1>1 DEF DriveBegin
<1>3. CASE ~m.drv[Current.c].pump
  <2>1. m' = [m EXCEPT !.drv[Current.c].drive = FALSE] /\ stack' = Below
    BY <1>3 DEF DriveBegin
  <2> QED
    BY <1>2, <2>1, DriveReturns
<1>4. CASE m.drv[Current.c].pump
  <2>1. PICK D : D = crossClientDependencies(Current.c)
    OBVIOUS
  <2>2. D \in SUBSET Clients
    BY <2>1, Dependencies
  <2>3. PICK b : b = TRUE
    OBVIOUS
  <2>4. /\ m' = [m EXCEPT !.drv[Current.c].active = b]
        /\ stack' = Append(Below, [Current EXCEPT !.pc = p, !.deps = D])
    BY <1>1, <1>4, <2>1, <2>3 DEF DriveBegin
  <2>5. b \in BOOLEAN /\ p \in {"pump", "pumped", "round"} /\ (b <=> p \in {"pump", "pumped"})
          /\ (b <=> pc \notin {"pump", "pumped"})
    BY <1>1, <2>3
  <2> QED
    BY Zenon, <1>2, <2>2, <2>4, <2>5, DriveGoesOn
<1> QED
  BY <1>3, <1>4

LEMMA DriveRoundStep ==
  ASSUME CallsInv, DriveRound
  PROVE  CallsInv'
<1>1. PICK pc, p : pc = "pumped" /\ p = "round"
  OBVIOUS
<1>2. At("drive", pc) /\ calls' = calls
  BY <1>1 DEF DriveRound
<1>3. PICK round \in BOOLEAN :
        stack' = Append(Below, [Current EXCEPT !.pc = "round", !.deps = IF round THEN @ ELSE {}])
  <2>1. PICK round \in IF Current.deadline = "timeout" THEN BOOLEAN ELSE {TRUE} :
        stack' = Append(Below, [Current EXCEPT !.pc = "round", !.deps = IF round THEN @ ELSE {}])
    BY Zenon DEF DriveRound
  <2>2. round \in BOOLEAN
    BY <2>1
  <2> QED
    BY Zenon, <2>1, <2>2
<1>4. Current \in CallFrames /\ Current.op = "drive"
  <2>1. Last(stack) \in CallFrames /\ Last(stack).op = "drive" /\ Current = Last(stack)
    BY <1>2, CallOnTop
  <2> QED
    BY <2>1
<1>5. PICK D : D = IF round THEN Current.deps ELSE {}
  OBVIOUS
<1>6. D \in SUBSET Clients
  <2>1. Current.deps \in SUBSET Clients
    BY <1>4, FrameTypes
  <2> QED
    BY <1>5, <2>1
<1>7. PICK b : b = FALSE
  OBVIOUS
<1>8. m' = [m EXCEPT !.drv[Current.c].active = b]
  BY <1>7 DEF DriveRound
<1>9. [Current EXCEPT !.pc = "round", !.deps = IF round THEN @ ELSE {}]
        = [Current EXCEPT !.pc = p, !.deps = D]
  <2>1. PICK f \in DriveFrames : f = Current
    BY <1>4 DEF CallFrames, DriveFrames
  <2>2. D = IF round THEN f.deps ELSE {}
    BY <1>5, <2>1
  <2>3. [f EXCEPT !.pc = "round", !.deps = IF round THEN @ ELSE {}] = [f EXCEPT !.pc = p, !.deps = D]
    BY <1>1, <2>2 DEF DriveFrames
  <2> QED
    BY <2>1, <2>3
<1>10. stack' = Append(Below, [Current EXCEPT !.pc = p, !.deps = D])
  BY <1>3, <1>9
<1>11. b \in BOOLEAN /\ p \in {"pump", "pumped", "round"} /\ (b <=> p \in {"pump", "pumped"})
         /\ (b <=> pc \notin {"pump", "pumped"})
  BY <1>1, <1>7
<1> QED
  BY Zenon, <1>2, <1>6, <1>8, <1>10, <1>11, DriveGoesOn

\* A call goes on after a call of tick().
LEMMA TickThen ==
  ASSUME CallsInv, NEW op \in {"drive", "poll", "loop", "wait"}, NEW pc, At(op, pc), NEW z,
         Items(z, calls, {}), Keeps(m, z), NEW g \in CallFrames, g.op = op, g.c = Current.c,
         g.op = "drive" => (g.pc \in {"pump", "pumped"} <=> pc \in {"pump", "pumped"}),
         NEW w, m' = z, stack' = Append(Below, g) \o Tick(w, Current.c), calls' = calls
  PROVE  CallsInv'
<1>1. PICK x, y, s, r, n, c : /\ x = m /\ y = m' /\ s = stack /\ r = stack' /\ n = calls
                              /\ c = Last(stack).c
  OBVIOUS
<1>2. /\ StackInv(x, s) /\ c \in Clients /\ Current = Last(s)
      /\ s # <<>> /\ Last(s).op = op /\ Last(s).pc = pc /\ Below = Front(s)
  BY <1>1, CallOnTop
<1>3. g.op # "lua" /\ g.op # "tick" /\ g.op = Last(s).op /\ g.c = Last(s).c /\ y = z
  BY <1>1, <1>2
<1>4. StackInv(y, Append(Front(s), g))
  BY <1>1, <1>2, <1>3, GoOnStep
<1>5. PICK v : v = Append(Front(s), g)
  OBVIOUS
<1>6. v # <<>> => Last(v).op # "tick"
  <2>1. Front(s) \in Seq(CallFrames)
    BY <1>2, TopOf DEF StackInv, StackShape
  <2>2. v \in Seq(CallFrames) /\ Len(v) = Len(Front(s)) + 1 /\ v[Len(Front(s)) + 1] = g
    BY <1>5, <2>1, AppendProperties
  <2>3. v # <<>> => Last(v) = v[Len(v)]
    BY <2>2, TopOf
  <2> QED
    BY <1>3, <2>2, <2>3
<1>7. StackInv(y, v \o Tick(w, c))
  BY <1>2, <1>4, <1>5, <1>6, TickStep
<1>8. r = v \o Tick(w, c)
  BY <1>1, <1>2, <1>5
<1> QED
  BY <1>1, <1>3, <1>7, <1>8 DEF CallsInv, ManagedInv

-----------------------------------------------------------------------------
(***************************************************************************)
(* A read of the transport.                                                *)
(***************************************************************************)

LEMMA PumpedStep ==
  ASSUME CallsInv, At("drive", "pump"), NEW z, Items(z, calls, {}), Keeps(m, z), Pumped(z)
  PROVE  CallsInv'
<1>1. PICK op, pc, p : op = "drive" /\ pc = "pump" /\ p = "pumped"
  OBVIOUS
<1>2. At(op, pc) /\ op \in {"drive", "poll", "loop", "wait"} /\ op \in {"tick", "drive", "poll", "loop", "wait"}
  BY <1>1
<1>3. Last(stack) \in CallFrames /\ Last(stack).op = op /\ Current = Last(stack)
  BY <1>2, CallOnTop
<1>4. PICK g : g = [Current EXCEPT !.pc = p]
  OBVIOUS
<1>5. g \in CallFrames /\ g.op = op /\ g.c = Current.c /\ g.pc = p
  <2>1. p \in {"tick", "pump", "pumped", "round", "last"} /\ Current \in CallFrames /\ Current.op = "drive"
    BY <1>1, <1>3
  <2> QED
    BY <1>1, <1>4, <2>1, DrivePcPut
<1>6. m' = z /\ stack' = Append(Below, g) \o Tick(z, Current.c) /\ calls' = calls
  BY <1>1, <1>4 DEF Pumped, GoTo
<1>7. g.op = "drive" => (g.pc \in {"pump", "pumped"} <=> pc \in {"pump", "pumped"})
  BY <1>1, <1>5
<1> QED
  BY <1>2, <1>5, <1>6, <1>7, TickThen

LEMMA PumpNothingStep ==
  ASSUME CallsInv, PumpNothing
  PROVE  CallsInv'
<1>1. Items(m, calls, {}) /\ Keeps(m, m)
  BY KeepsSame DEF CallsInv, ManagedInv
<1> QED
  BY <1>1, PumpedStep DEF PumpNothing

LEMMA PumpResponseStep ==
  ASSUME CallsInv, NEW i \in Ids, PumpResponse(i)
  PROVE  CallsInv'
<1>1. PICK x, n, c : x = m /\ n = calls /\ c = Current.c
  OBVIOUS
<1>2. At("drive", "pump")
  BY DEF PumpResponse
<1>3. Items(x, n, {}) /\ c \in Clients
  BY <1>1, <1>2, CallOnTop
<1>4. PICK status : status = IF x.st[i].kind = "Future" THEN "resolved" ELSE "ready"
  OBVIOUS
<1>5. PICK y : y = [x EXCEPT !.st[i].status = status, !.drv[c].ready = Append(@, i)]
  OBVIOUS
<1>6. x.st[i].status = "pending" /\ x.st[i].client = c /\ status \in {"resolved", "ready"}
  BY <1>1, <1>4 DEF PumpResponse
<1>7. Items(y, n, {}) /\ Keeps(x, y)
  BY Zenon, <1>3, <1>5, <1>6, ResponseItems
<1>8. Pumped(y)
  BY <1>1, <1>4, <1>5 DEF PumpResponse
<1> QED
  BY <1>1, <1>2, <1>7, <1>8, PumpedStep

\* What has come for client c is handed to its consumer or dropped.
LEMMA HandItems ==
  ASSUME NEW x, NEW n, NEW c, NEW i, Held(x, n, c, i),
         hasGenericPumpConsumer(x, c) => NextInLine(x.drv[c], tasks(x, c), i), NEW y,
         \/ y = observeManagedUpdate(x, c, i)
         \/ y = [x EXCEPT !.st[i].status = "dropped"]
  PROVE  Items(y, n, {}) /\ Keeps(x, y)
<1>1. CASE y = observeManagedUpdate(x, c, i)
  BY <1>1, ObserveItems
<1>2. CASE y = [x EXCEPT !.st[i].status = "dropped"]
  <2>1. PICK status \in {"dropped", "done"} : status = "dropped"
    OBVIOUS
  <2>2. y = [x EXCEPT !.st[i].status = status]
    BY <1>2, <2>1
  <2> QED
    BY <2>2, DropItems
<1> QED
  BY <1>1, <1>2

LEMMA PumpPreservedStep ==
  ASSUME CallsInv, PumpPreserved
  PROVE  CallsInv'
<1>1. PICK x, n, c : x = m /\ n = calls /\ c = Current.c
  OBVIOUS
<1>2. At("drive", "pump")
  BY DEF PumpPreserved
<1>3. Items(x, n, {}) /\ c \in Clients /\ x \in Managed
  BY <1>1, <1>2, CallOnTop
<1>4. PICK i : i = Head(x.drv[c].preserved)
  OBVIOUS
<1>5. PICK y : y = [x EXCEPT !.drv[c].preserved = Tail(@)]
  OBVIOUS
<1>6. PICK z : z = IF hasGenericPumpConsumer(x, c) THEN observeManagedUpdate(y, c, i)
                   ELSE [y EXCEPT !.st[i].status = "dropped"]
  OBVIOUS
<1>7. Pumped(z) /\ x.drv[c].preserved # <<>>
  BY Zenon, <1>1, <1>4, <1>5, <1>6 DEF PumpPreserved, Preserved
<1>8. PICK q : q = Tail(x.drv[c].preserved)
  OBVIOUS
<1>9. x.drv[c] \in DriverRec /\ x.drv[c].preserved \in Seq(Ids) /\ q \in Seq(Ids)
  BY <1>3, <1>7, <1>8, ManagedType, DriverType
<1>10. PICK d : d = [x.drv[c] EXCEPT !.preserved = q]
  OBVIOUS
<1>11. /\ d \in DriverRec /\ d.consumer = x.drv[c].consumer /\ d.drive = x.drv[c].drive
       /\ d.active = x.drv[c].active /\ d.selecting = x.drv[c].selecting
       /\ d.selected = x.drv[c].selected /\ d.draining = x.drv[c].draining
       /\ d.ready = x.drv[c].ready /\ d.preserved = q
       /\ d.notifications = x.drv[c].notifications /\ d.observer = x.drv[c].observer
  BY <1>9, <1>10, PreservedPut
<1>12. y = [x EXCEPT !.drv[c] = d]
  BY <1>5, <1>8, <1>10
<1>13. /\ y \in Managed /\ y.drv[c] = d /\ y.st = x.st
       /\ \A e \in Clients : e # c => y.drv[e] = x.drv[e]
  BY <1>3, <1>11, <1>12, PutDriver
<1>14. Held(y, n, c, i) /\ NextInLine(y.drv[c], tasks(y, c), i)
  BY <1>3, <1>4, <1>7, <1>8, <1>11, <1>13, TakePreserved
<1>15. Items(z, n, {}) /\ Keeps(y, z)
  BY <1>6, <1>14, HandItems
<1>16. Keeps(x, y)
  <2>1. \A e \in Clients : SameFlags(y.drv[e], x.drv[e])
    BY <1>11, <1>13 DEF SameFlags
  <2> QED
    BY <1>13, <2>1 DEF Keeps
<1>17. Keeps(x, z)
  BY <1>15, <1>16, KeepsTrans
<1> QED
  BY <1>1, <1>2, <1>7, <1>15, <1>17, PumpedStep

\* What comes new to client c comes behind all that it has, which is nothing if there is
\* somebody to hand it to.
LEMMA NewItem ==
  ASSUME NEW x, NEW n, NEW i \in Ids, NEW c \in Clients, Items(x, n, {}), Fresh(x, i),
         NEW kind \in {"Update", "Raw"},
         hasGenericPumpConsumer(x, c) => x.drv[c].preserved = <<>>
  PROVE  LET y == Put(x, i, kind, c, "taken") IN
         /\ Held(y, n, c, i) /\ Keeps(x, y) /\ y.drv = x.drv /\ y.st[i].kind = kind
         /\ hasGenericPumpConsumer(y, c) <=> hasGenericPumpConsumer(x, c)
         /\ hasGenericPumpConsumer(y, c) => NextInLine(y.drv[c], tasks(y, c), i)
         /\ \A j \in Ids : isKept(y.drv[c], j) \/ j \in tasks(y, c) => j < i
<1>1. PICK p, k : p = "taken" /\ k = kind
  OBVIOUS
<1>2. p \in {"pending", "taken"} /\ k \in {"Future", "Task", "Update", "Raw"}
        /\ (p = "pending" <=> k \in {"Future", "Task"})
  BY <1>1
<1>3. PICK y : y = Put(x, i, k, c, p)
  OBVIOUS
<1>4. /\ Local(x, y, c, i) /\ y.drv = x.drv /\ y.st[i].kind = k
      /\ \A j \in Ids : isKept(x.drv[c], j) \/ j \in tasks(x, c) => j < i
  BY <1>2, <1>3, FreshFields
<1>5. /\ p = "taken" => Held(y, n, c, i)
      /\ x.drv[c].preserved = <<>> => NextInLine(y.drv[c], tasks(y, c), i)
      /\ tasks(y, c) = tasks(x, c)
  BY <1>2, <1>3, FreshItems
<1>6. Keeps(x, y)
  BY <1>2, <1>3, FreshKeeps
<1>7. hasGenericPumpConsumer(y, c) <=> hasGenericPumpConsumer(x, c)
  BY <1>4 DEF hasGenericPumpConsumer, Observing
<1> QED
  BY <1>1, <1>3, <1>4, <1>5, <1>6, <1>7

LEMMA NotPreserved ==
  ASSUME ~Preserved, NEW c, c = Current.c
  PROVE  hasGenericPumpConsumer(m, c) => m.drv[c].preserved = <<>>
BY DEF Preserved

LEMMA PumpUpdateStep ==
  ASSUME CallsInv, PumpUpdate
  PROVE  CallsInv'
<1>1. PICK x, n, c : x = m /\ n = calls /\ c = Current.c
  OBVIOUS
<1>2. At("drive", "pump") /\ ~Preserved
  BY DEF PumpUpdate
<1>3. Items(x, n, {}) /\ c \in Clients /\ (hasGenericPumpConsumer(x, c) => x.drv[c].preserved = <<>>)
  BY <1>1, <1>2, CallOnTop, NotPreserved
<1>4. PICK kind : kind = "Update"
  OBVIOUS
<1>5. PICK i \in Ids : Fresh(x, i) /\ Pumped(observeManagedUpdate(Put(x, i, kind, c, "taken"), c, i))
  BY <1>1, <1>4 DEF PumpUpdate
<1>6. PICK y : y = Put(x, i, kind, c, "taken")
  OBVIOUS
<1>7. PICK z : z = observeManagedUpdate(y, c, i)
  OBVIOUS
<1>8. kind \in {"Update", "Raw"}
  BY <1>4
<1>9. /\ Held(y, n, c, i) /\ Keeps(x, y)
      /\ hasGenericPumpConsumer(y, c) => NextInLine(y.drv[c], tasks(y, c), i)
  BY <1>3, <1>5, <1>6, <1>8, NewItem
<1>10. Items(z, n, {}) /\ Keeps(y, z)
  BY <1>7, <1>9, HandItems
<1>11. Keeps(x, z)
  BY <1>9, <1>10, KeepsTrans
<1>12. Pumped(z)
  BY <1>5, <1>6, <1>7
<1> QED
  BY <1>1, <1>2, <1>10, <1>11, <1>12, PumpedStep

LEMMA PumpRawStep ==
  ASSUME CallsInv, PumpRaw
  PROVE  CallsInv'
<1>1. PICK x, n, c : x = m /\ n = calls /\ c = Current.c
  OBVIOUS
<1>2. At("drive", "pump") /\ ~Preserved
  BY DEF PumpRaw
<1>3. Items(x, n, {}) /\ c \in Clients /\ (hasGenericPumpConsumer(x, c) => x.drv[c].preserved = <<>>)
  BY <1>1, <1>2, CallOnTop, NotPreserved
<1>4. PICK kind : kind = "Raw"
  OBVIOUS
<1>5. PICK i \in Ids :
        LET y == Put(x, i, kind, c, "taken") IN
        /\ Fresh(x, i)
        /\ Pumped(IF hasGenericPumpConsumer(x, c) THEN observeManagedUpdate(y, c, i)
                  ELSE IF Current.discard THEN [y EXCEPT !.st[i].status = "dropped"]
                  ELSE [y EXCEPT !.drv[c].preserved = Append(@, i)])
  BY <1>1, <1>4 DEF PumpRaw
<1>6. PICK y : y = Put(x, i, kind, c, "taken")
  OBVIOUS
<1>7. PICK z : z = IF hasGenericPumpConsumer(x, c) THEN observeManagedUpdate(y, c, i)
                   ELSE IF Current.discard THEN [y EXCEPT !.st[i].status = "dropped"]
                   ELSE [y EXCEPT !.drv[c].preserved = Append(@, i)]
  OBVIOUS
<1>8. kind \in {"Update", "Raw"} /\ Fresh(x, i)
  BY <1>4, <1>5
<1>9. /\ Held(y, n, c, i) /\ Keeps(x, y) /\ y.st[i].kind = kind
      /\ hasGenericPumpConsumer(y, c) => NextInLine(y.drv[c], tasks(y, c), i)
      /\ \A j \in Ids : isKept(y.drv[c], j) \/ j \in tasks(y, c) => j < i
  BY <1>3, <1>6, <1>8, NewItem
<1>10. Items(z, n, {}) /\ Keeps(y, z)
  <2>1. CASE hasGenericPumpConsumer(x, c) \/ Current.discard
    <3>1. \/ z = observeManagedUpdate(y, c, i)
          \/ z = [y EXCEPT !.st[i].status = "dropped"]
      BY <1>7, <2>1
    <3> QED
      BY <1>9, <3>1, HandItems
  <2>2. CASE ~(hasGenericPumpConsumer(x, c) \/ Current.discard)
    <3>1. z = [y EXCEPT !.drv[c].preserved = Append(@, i)]
      BY <1>7, <2>2
    <3>2. y.st[i].kind # "LoopTask"
      BY <1>4, <1>9
    <3> QED
      BY <1>9, <3>1, <3>2, PreserveStep
  <2> QED
    BY <2>1, <2>2
<1>11. Keeps(x, z)
  BY <1>9, <1>10, KeepsTrans
<1>12. Pumped(z)
  BY <1>5, <1>6, <1>7
<1> QED
  BY <1>1, <1>2, <1>10, <1>11, <1>12, PumpedStep

LEMMA DriveLastStep ==
  ASSUME CallsInv, DriveLast
  PROVE  CallsInv'
<1>1. PICK op, pc, p : op = "drive" /\ pc = "round" /\ p = "last"
  OBVIOUS
<1>2. /\ At(op, pc) /\ op \in {"drive", "poll", "loop", "wait"}
      /\ op \in {"tick", "drive", "poll", "loop", "wait"}
  BY <1>1 DEF DriveLast
<1>3. Last(stack) \in CallFrames /\ Last(stack).op = op /\ Current = Last(stack) /\ Items(m, calls, {})
  BY <1>2, CallOnTop
<1>4. PICK g : g = [Current EXCEPT !.pc = p]
  OBVIOUS
<1>5. g \in CallFrames /\ g.op = op /\ g.c = Current.c /\ g.pc = p
  <2>1. p \in {"tick", "pump", "pumped", "round", "last"} /\ Current \in CallFrames /\ Current.op = "drive"
    BY <1>1, <1>3
  <2> QED
    BY <1>1, <1>4, <2>1, DrivePcPut
<1>6. m' = m /\ stack' = Append(Below, g) \o Tick(m, Current.c) /\ calls' = calls
  BY <1>1, <1>4 DEF DriveLast, GoTo
<1>7. g.op = "drive" => (g.pc \in {"pump", "pumped"} <=> pc \in {"pump", "pumped"})
  BY <1>1, <1>5
<1>8. Keeps(m, m)
  BY KeepsSame
<1> QED
  BY <1>2, <1>3, <1>5, <1>6, <1>7, <1>8, TickThen

\* A call goes on with a drive.
LEMMA DriveThen ==
  ASSUME CallsInv, NEW op \in {"drive", "poll", "loop", "wait"}, NEW pc, At(op, pc),
         NEW z, Items(z, calls, {}), NEW g \in CallFrames, g.op = op, g.c = Current.c,
         StackInv(z, Append(Below, g)), NEW c \in Clients, NEW deadline \in Deadlines,
         NEW discard \in BOOLEAN,
         StartDrive(z, Append(Below, g), c, deadline, discard), calls' = calls
  PROVE  CallsInv'
<1>1. PICK y, r, n, v : y = m' /\ r = stack' /\ n = calls /\ v = Append(Below, g)
  OBVIOUS
<1>2. DriveStarted(z, v, c, deadline, discard, y, r)
  BY <1>1 DEF StartDrive, DriveStarted
<1>3. v # <<>> => Last(v).op # "tick"
  <2>1. Below \in Seq(CallFrames)
    <3>1. StackInv(m, stack) /\ stack # <<>> /\ Below = Front(stack)
      BY CallOnTop
    <3> QED
      BY <3>1, TopOf DEF StackInv, StackShape
  <2>2. v \in Seq(CallFrames) /\ Len(v) = Len(Below) + 1 /\ v[Len(Below) + 1] = g
    BY <1>1, <2>1, AppendProperties
  <2>3. v # <<>> => Last(v) = v[Len(v)]
    BY <2>2, TopOf
  <2> QED
    BY <2>2, <2>3
<1>4. Items(z, n, {}) /\ StackInv(z, v)
  BY <1>1
<1>5. Items(y, n, {}) /\ StackInv(y, r)
  BY <1>2, <1>3, <1>4, DriveStep
<1> QED
  BY <1>1, <1>5 DEF CallsInv, ManagedInv

LEMMA DriveDependencyStep ==
  ASSUME CallsInv, NEW d \in Clients, DriveDependency(d)
  PROVE  CallsInv'
<1>1. PICK op, pc, discard : op = "drive" /\ pc = "round" /\ discard = FALSE
  OBVIOUS
<1>2. /\ At(op, pc) /\ op \in {"drive", "poll", "loop", "wait"}
      /\ op \in {"tick", "drive", "poll", "loop", "wait"}
  BY <1>1 DEF DriveDependency
<1>3. /\ Items(m, calls, {}) /\ StackInv(m, stack) /\ stack # <<>> /\ Last(stack) \in CallFrames
      /\ Last(stack).op = op /\ Last(stack).pc = pc /\ Current = Last(stack) /\ Below = Front(stack)
  BY <1>2, CallOnTop
<1>4. PICK D : D = Current.deps \ {d}
  OBVIOUS
<1>5. PICK f \in CallFrames : f = Current /\ f.op = "drive"
  BY <1>1, <1>3
<1>6. D \in SUBSET Clients /\ f.deadline \in Deadlines
  <2>1. f.deps \in SUBSET Clients /\ f.deadline \in Deadlines
    BY <1>5, FrameTypes
  <2> QED
    BY <1>4, <1>5, <2>1
<1>7. PICK g : g = [f EXCEPT !.deps = D]
  OBVIOUS
<1>8. g \in CallFrames /\ g.op = "drive" /\ g.c = f.c /\ g.pc = f.pc
  BY <1>5, <1>6, <1>7, DriveDepsPut
<1>9. StartDrive(m, Append(Below, g), d, f.deadline, discard) /\ calls' = calls
  <2>1. [Current EXCEPT !.deps = @ \ {d}] = g
    BY <1>4, <1>5, <1>7
  <2> QED
    BY <1>1, <1>5, <2>1 DEF DriveDependency
<1>10. StackInv(m, Append(Below, g))
  <2>1. /\ g.op # "lua" /\ g.op = Last(stack).op /\ g.c = Last(stack).c
        /\ g.op = "drive" => (g.pc \in {"pump", "pumped"} <=> Last(stack).pc \in {"pump", "pumped"})
        /\ g.op = "tick" => (g.pc = "ready" <=> Last(stack).pc = "ready")
    BY <1>3, <1>5, <1>8
  <2>2. Keeps(m, m)
    BY KeepsSame
  <2>3. StackInv(m, Append(Front(stack), g))
    BY <1>3, <1>8, <2>1, <2>2, GoOnStep
  <2> QED
    BY <1>3, <2>3
<1>11. discard \in BOOLEAN /\ g.op = op /\ g.c = Current.c
  BY <1>1, <1>5, <1>8
<1> QED
  BY <1>2, <1>3, <1>6, <1>8, <1>9, <1>10, <1>11, DriveThen

-----------------------------------------------------------------------------
(***************************************************************************)
(* poll(), loop() and waits above it.                                      *)
(***************************************************************************)

LEMMA PollMoved ==
  ASSUME NEW x, NEW s, NEW g \in CallFrames, NEW c \in Clients, StackInv(x, s), s # <<>>,
         Last(s).op = "poll", Last(s).c = c, g.op = "poll", g.c = c,
         NEW y, NEW b \in BOOLEAN, PollSet(x, y, c, b)
  PROVE  StackInv(y, Append(Front(s), g))
<1>1. Moved(x.drv[c], y.drv[c], Last(s), g, c)
  BY DEF PollSet, Moved, Shift, drives, pumps, drains, polls, loops
<1>2. y.st = x.st /\ \A e \in Clients : e # c => y.drv[e] = x.drv[e]
  BY DEF PollSet
<1>3. g.op # "lua" /\ g.op = Last(s).op
  OBVIOUS
<1> QED
  BY <1>1, <1>2, <1>3, FlagStep

LEMMA PollDriveStep ==
  ASSUME CallsInv, PollDrive
  PROVE  CallsInv'
<1>1. PICK op, pc, discard : op = "poll" /\ pc = "select" /\ discard = FALSE
  BY Zenon
<1>2. /\ At(op, pc) /\ op \in {"drive", "poll", "loop", "wait"}
      /\ op \in {"tick", "drive", "poll", "loop", "wait"}
  BY <1>1 DEF PollDrive
<1>3. /\ Items(m, calls, {}) /\ StackInv(m, stack) /\ stack # <<>> /\ Last(stack) \in CallFrames
      /\ Last(stack).op = op /\ Last(stack).pc = pc /\ Current = Last(stack) /\ Below = Front(stack)
      /\ m \in Managed /\ Last(stack).c \in Clients
  BY <1>2, CallOnTop
<1>4. PICK f \in CallFrames : f = Current /\ f.op = "poll"
  BY <1>1, <1>3
<1>5. PICK c \in Clients : c = f.c
  BY <1>3, <1>4
<1>6. PICK g : g = [f EXCEPT !.attempted = TRUE]
  OBVIOUS
<1>7. g \in CallFrames /\ g.op = "poll" /\ g.c = f.c /\ g.pc = f.pc
  BY <1>4, <1>6, AttemptedPut
<1>8. f.deadline \in Deadlines
  BY <1>4, FrameTypes
<1>9. PICK d : d = [m.drv[c] EXCEPT !.selecting = TRUE]
  OBVIOUS
<1>10. m.drv[c] \in DriverRec
  BY <1>3, ManagedType
<1>11. /\ d \in DriverRec /\ d.consumer = m.drv[c].consumer /\ d.drive = m.drv[c].drive
       /\ d.active = m.drv[c].active /\ d.selecting = TRUE
       /\ d.selected = m.drv[c].selected /\ d.draining = m.drv[c].draining
       /\ d.ready = m.drv[c].ready /\ d.preserved = m.drv[c].preserved
       /\ d.notifications = m.drv[c].notifications /\ d.observer = m.drv[c].observer
  BY <1>9, <1>10, SelectingPut
<1>12. PICK z : z = [m EXCEPT !.drv[c].selecting = TRUE]
  OBVIOUS
<1>13. z = [m EXCEPT !.drv[c] = d]
  BY <1>9, <1>12
<1>14. /\ Items(z, calls, {}) /\ z.st = m.st /\ z.drv[c] = d
       /\ \A e \in Clients : e # c => z.drv[e] = m.drv[e]
  BY <1>3, <1>11, <1>13, FlagItems
<1>15. PICK b \in BOOLEAN : b = TRUE
  OBVIOUS
<1>16. PollSet(m, z, c, b)
  BY <1>11, <1>14, <1>15 DEF PollSet
<1>17. StackInv(z, Append(Below, g))
  <2>1. Last(stack).op = "poll" /\ Last(stack).c = c /\ g.c = c
    BY <1>1, <1>3, <1>4, <1>5, <1>7
  <2>2. StackInv(z, Append(Front(stack), g))
    BY <1>3, <1>7, <1>16, <2>1, PollMoved
  <2> QED
    BY <1>3, <2>2
<1>18. StartDrive(z, Append(Below, g), c, f.deadline, discard) /\ calls' = calls
  BY <1>1, <1>4, <1>5, <1>6, <1>12 DEF PollDrive
<1>19. discard \in BOOLEAN /\ g.op = op /\ g.c = Current.c
  BY <1>1, <1>4, <1>7
<1> QED
  BY <1>2, <1>7, <1>8, <1>14, <1>17, <1>18, <1>19, DriveThen

LEMMA PollEnoughStep ==
  ASSUME CallsInv, PollEnough
  PROVE  CallsInv'
<1>1. PICK op, pc, p : op = "poll" /\ pc = "select" /\ p = "take"
  OBVIOUS
<1>2. /\ At(op, pc) /\ op \in {"drive", "poll", "loop", "wait"}
      /\ op \in {"tick", "drive", "poll", "loop", "wait"}
  BY <1>1 DEF PollEnough
<1>3. Last(stack) \in CallFrames /\ Last(stack).op = op /\ Current = Last(stack) /\ Items(m, calls, {})
  BY <1>2, CallOnTop
<1>4. PICK g : g = [Current EXCEPT !.pc = p]
  OBVIOUS
<1>5. g \in CallFrames /\ g.op = op /\ g.c = Current.c /\ g.pc = p
  <2>1. p \in {"select", "take", "return"} /\ Current \in CallFrames /\ Current.op = "poll"
    BY <1>1, <1>3
  <2> QED
    BY <1>1, <1>4, <2>1, PollPcPut
<1>6. m' = m /\ stack' = Append(Below, g) \o Tick(m, Current.c) /\ calls' = calls
  BY <1>1, <1>4 DEF PollEnough, GoTo
<1>7. g.op = "drive" => (g.pc \in {"pump", "pumped"} <=> pc \in {"pump", "pumped"})
  BY <1>1, <1>5
<1>8. Keeps(m, m)
  BY KeepsSame
<1> QED
  BY <1>2, <1>3, <1>5, <1>6, <1>7, <1>8, TickThen

LEMMA CallTickStep ==
  ASSUME CallsInv, CallTick
  PROVE  CallsInv'
<1>1. PICK op, pc, p : op \in {"loop", "wait"} /\ At(op, pc) /\ pc = "tick" /\ p = "check"
  BY DEF CallTick
<1>2. op \in {"drive", "poll", "loop", "wait"} /\ op \in {"tick", "drive", "poll", "loop", "wait"}
  BY <1>1
<1>3. Last(stack) \in CallFrames /\ Last(stack).op = op /\ Current = Last(stack) /\ Items(m, calls, {})
  BY <1>1, <1>2, CallOnTop
<1>4. PICK g : g = [Current EXCEPT !.pc = p]
  OBVIOUS
<1>5. g \in CallFrames /\ g.op = op /\ g.c = Current.c /\ g.pc = p
  <2>1. /\ p \in {"tick", "check", "return"} /\ Current \in CallFrames /\ Current.op \in {"loop", "wait"}
        /\ (Current.op = "wait" => p # "return")
    BY <1>1, <1>3
  <2>2. Current.op = op
    BY <1>3
  <2> QED
    BY <1>4, <2>1, <2>2, CallPut
<1>6. m' = m /\ stack' = Append(Below, g) \o Tick(m, Current.c) /\ calls' = calls
  BY <1>1, <1>4 DEF CallTick, GoTo
<1>7. g.op = "drive" => (g.pc \in {"pump", "pumped"} <=> pc \in {"pump", "pumped"})
  BY <1>1, <1>5
<1>8. Keeps(m, m)
  BY KeepsSame
<1> QED
  BY <1>1, <1>2, <1>3, <1>5, <1>6, <1>7, <1>8, TickThen

\* A loop or a wait goes on as it is.
LEMMA CallGoesOn ==
  ASSUME CallsInv, NEW op \in {"loop", "wait"}, NEW pc, At(op, pc), NEW p \in {"tick", "check", "return"},
         op = "wait" => p # "return"
  PROVE  LET g == [Current EXCEPT !.pc = p] IN
         /\ g \in CallFrames /\ g.op = op /\ g.c = Current.c /\ StackInv(m, Append(Below, g))
<1>1. op \in {"tick", "drive", "poll", "loop", "wait"}
  OBVIOUS
<1>2. /\ StackInv(m, stack) /\ stack # <<>> /\ Last(stack) \in CallFrames
      /\ Last(stack).op = op /\ Current = Last(stack) /\ Below = Front(stack)
  BY <1>1, CallOnTop
<1>3. PICK f \in CallFrames : f = Current /\ f.op = op
  BY <1>2
<1>4. PICK g : g = [f EXCEPT !.pc = p]
  OBVIOUS
<1>5. g \in CallFrames /\ g.op = f.op /\ g.c = f.c /\ g.pc = p
  <2>1. f.op \in {"loop", "wait"} /\ (f.op = "wait" => p # "return")
    BY <1>3
  <2> QED
    BY <1>4, <2>1, CallPut
<1>6. /\ g.op # "lua" /\ g.op = Last(stack).op /\ g.c = Last(stack).c
      /\ g.op # "drive" /\ g.op # "tick"
  BY <1>2, <1>3, <1>5
<1>7. Keeps(m, m)
  BY KeepsSame
<1>8. StackInv(m, Append(Front(stack), g))
  BY <1>2, <1>5, <1>6, <1>7, GoOnStep
<1> QED
  BY <1>2, <1>3, <1>4, <1>5, <1>8

LEMMA LoopCheckStep ==
  ASSUME CallsInv, LoopCheck
  PROVE  CallsInv'
<1>1. PICK op, pc, deadline : op = "loop" /\ pc = "check" /\ deadline = "never"
  OBVIOUS
<1>2. /\ At(op, pc) /\ op \in {"drive", "poll", "loop", "wait"} /\ op \in {"loop", "wait"}
      /\ op \in {"tick", "drive", "poll", "loop", "wait"} /\ calls' = calls /\ deadline \in Deadlines
  BY <1>1 DEF LoopCheck, Deadlines
<1>3. /\ Items(m, calls, {}) /\ StackInv(m, stack) /\ Last(stack) \in CallFrames
      /\ Last(stack).op = op /\ Current = Last(stack) /\ Last(stack).c \in Clients
  BY <1>2, CallOnTop
<1>4. PICK p : \/ p = "tick" /\ StartDrive(m, GoTo(p), Current.c, deadline, ~Current.callback)
               \/ p = "return" /\ m' = m /\ stack' = GoTo(p)
  BY <1>1 DEF LoopCheck
<1>5. p \in {"tick", "check", "return"} /\ (op = "wait" => p # "return")
  BY <1>1, <1>4
<1>6. PICK g : g = [Current EXCEPT !.pc = p]
  OBVIOUS
<1>7. /\ g \in CallFrames /\ g.op = op /\ g.c = Current.c /\ StackInv(m, Append(Below, g))
  BY <1>2, <1>5, <1>6, CallGoesOn
<1>8. CASE StartDrive(m, GoTo(p), Current.c, deadline, ~Current.callback)
  <2>1. PICK discard : discard = ~Current.callback
    OBVIOUS
  <2>2. discard \in BOOLEAN
    <3>1. Current.callback \in BOOLEAN
      BY <1>1, <1>3, FrameTypes
    <3> QED
      BY <2>1, <3>1
  <2>3. StartDrive(m, Append(Below, g), Current.c, deadline, discard) /\ Current.c \in Clients
    BY <1>3, <1>6, <1>8, <2>1 DEF GoTo
  <2> QED
    BY <1>2, <1>3, <1>7, <2>2, <2>3, DriveThen
<1>9. CASE m' = m /\ stack' = GoTo(p)
  <2>1. stack' = Append(Below, g)
    BY <1>6, <1>9 DEF GoTo
  <2> QED
    BY <1>2, <1>3, <1>7, <1>9, <2>1 DEF CallsInv, ManagedInv
<1> QED
  BY <1>4, <1>8, <1>9

LEMMA WaitCheckStep ==
  ASSUME CallsInv, WaitCheck
  PROVE  CallsInv'
<1>1. PICK op, pc, p, deadline, discard : op = "wait" /\ pc = "check" /\ p = "tick" /\ deadline = "never" /\ discard = FALSE
  BY Zenon
<1>2. /\ At(op, pc) /\ op \in {"drive", "poll", "loop", "wait"} /\ op \in {"loop", "wait"}
      /\ op \in {"tick", "drive", "poll", "loop", "wait"} /\ calls' = calls /\ deadline \in Deadlines
      /\ p \in {"tick", "check", "return"} /\ (op = "wait" => p # "return") /\ discard \in BOOLEAN
  BY <1>1 DEF WaitCheck, Deadlines
<1>3. /\ Items(m, calls, {}) /\ StackInv(m, stack) /\ stack # <<>>
      /\ Last(stack).op = op /\ Current = Last(stack) /\ Last(stack).c \in Clients /\ Below = Front(stack)
  BY <1>2, CallOnTop
<1>4. PICK g : g = [Current EXCEPT !.pc = p]
  OBVIOUS
<1>5. /\ g \in CallFrames /\ g.op = op /\ g.c = Current.c /\ StackInv(m, Append(Below, g))
  BY <1>2, <1>4, CallGoesOn
<1>6. \/ m' = m /\ stack' = Below
      \/ StartDrive(m, GoTo(p), Current.c, deadline, discard)
  BY <1>1 DEF WaitCheck
<1>7. CASE m' = m /\ stack' = Below
  <2>1. Keeps(m, m) /\ Quiet(Last(stack))
    BY <1>1, <1>3, KeepsSame DEF Quiet
  <2>2. StackInv(m, Front(stack))
    BY <1>3, <2>1, LeaveStep
  <2> QED
    BY <1>2, <1>3, <1>7, <2>2 DEF CallsInv, ManagedInv
<1>8. CASE StartDrive(m, GoTo(p), Current.c, deadline, discard)
  <2>1. StartDrive(m, Append(Below, g), Current.c, deadline, discard) /\ Current.c \in Clients
    BY <1>3, <1>4, <1>8 DEF GoTo
  <2> QED
    BY <1>2, <1>3, <1>5, <2>1, DriveThen
<1> QED
  BY <1>6, <1>7, <1>8

\* A call of poll() or loop() ends.
LEMMA EndStep ==
  ASSUME NEW x, NEW s, NEW c \in Clients, StackInv(x, s), s # <<>>,
         Last(s).op \in {"poll", "loop"}, Last(s).c = c, NEW w, NEW n, Items(w, n, {}),
         \A i \in Ids : x.st[i].status \in Entered => w.st[i].status \in Entered,
         \A e \in Clients : e # c => w.drv[e] = x.drv[e],
         w.drv[c].drive = x.drv[c].drive, w.drv[c].active = x.drv[c].active,
         w.drv[c].draining = x.drv[c].draining, NEW y, y = endUpdateConsumer(w, c)
  PROVE  Items(y, n, {}) /\ StackInv(y, Front(s))
<1>1. PICK C : C = {c}
  OBVIOUS
<1>2. C \in SUBSET Clients /\ y = endUpdateConsumers(w, C)
  BY <1>1 DEF endUpdateConsumer
<1>3. /\ Items(y, n, {})
      /\ \A i \in Ids : w.st[i].status \in Entered => y.st[i].status \in Entered
      /\ \A e \in Clients : e \notin C => y.drv[e] = w.drv[e]
      /\ \A e \in C : /\ ~y.drv[e].consumer /\ ~y.drv[e].selecting /\ y.drv[e].observer.id = 0
                      /\ y.drv[e].drive = w.drv[e].drive /\ y.drv[e].active = w.drv[e].active
                      /\ y.drv[e].draining = w.drv[e].draining
  BY <1>2, EndItems
<1>4. /\ ~y.drv[c].consumer /\ ~y.drv[c].selecting /\ y.drv[c].observer.id = 0
      /\ y.drv[c].drive = x.drv[c].drive /\ y.drv[c].active = x.drv[c].active
      /\ y.drv[c].draining = x.drv[c].draining
  BY <1>1, <1>3
<1>5. /\ \A i \in Ids : x.st[i].status \in Entered => y.st[i].status \in Entered
      /\ \A e \in Clients : e # c => y.drv[e] = x.drv[e]
  BY <1>1, <1>3
<1>6. Moved(x.drv[c], y.drv[c], Last(s), NoFrame, c)
  BY <1>4 DEF Moved, Shift, drives, pumps, drains, polls, loops, NoFrame
<1>7. StackInv(y, Front(s))
  BY <1>5, <1>6, ReturnStep
<1> QED
  BY <1>3, <1>7

LEMMA ReturnsStep ==
  ASSUME CallsInv, Return
  PROVE  CallsInv'
<1>1. PICK op, pc : op \in {"poll", "loop"} /\ At(op, pc)
  BY DEF Return
<1>2. op \in {"tick", "drive", "poll", "loop", "wait"}
  BY <1>1
<1>3. PICK x, n, s, c : x = m /\ n = calls /\ s = stack /\ c = Last(stack).c
  OBVIOUS
<1>4. /\ Items(x, n, {}) /\ StackInv(x, s) /\ s # <<>> /\ c \in Clients
      /\ Last(s).op \in {"poll", "loop"} /\ Current.c = c /\ Below = Front(s)
  BY <1>1, <1>2, <1>3, CallOnTop
<1>5. PICK y : y = endUpdateConsumer(x, c)
  OBVIOUS
<1>6. m' = y /\ stack' = Front(s) /\ calls' = n
  BY <1>3, <1>4, <1>5 DEF Return
<1>7. Items(y, n, {}) /\ StackInv(y, Front(s))
  BY <1>3, <1>4, <1>5, EndStep
<1> QED
  BY <1>6, <1>7 DEF CallsInv, ManagedInv

LEMMA PollTakeStep ==
  ASSUME CallsInv, PollTake
  PROVE  CallsInv'
<1>1. PICK op, pc, p : op = "poll" /\ pc = "take" /\ p = "return"
  OBVIOUS
<1>2. At(op, pc) /\ op \in {"tick", "drive", "poll", "loop", "wait"}
  BY <1>1 DEF PollTake
<1>3. PICK x, n, s, c : x = m /\ n = calls /\ s = stack /\ c = Last(stack).c
  OBVIOUS
<1>4. /\ Items(x, n, {}) /\ StackInv(x, s) /\ x \in Managed /\ s # <<>> /\ c \in Clients
      /\ Last(s) \in CallFrames /\ Last(s).op = "poll" /\ Current = Last(s) /\ Current.c = c
      /\ Below = Front(s)
  BY <1>1, <1>2, <1>3, CallOnTop
<1>5. PICK i : i = x.drv[c].selected
  OBVIOUS
<1>6. PICK w : w = [x EXCEPT !.drv[c].selected = 0, !.drv[c].selecting = FALSE]
  OBVIOUS
<1>7. PICK f : f = [x.drv[c] EXCEPT !.selected = 0]
  OBVIOUS
<1>8. x.drv[c] \in DriverRec /\ 0 \in {0} \cup Ids
  BY <1>4, ManagedType
<1>9. /\ f \in DriverRec /\ f.consumer = x.drv[c].consumer /\ f.drive = x.drv[c].drive
      /\ f.active = x.drv[c].active /\ f.selecting = x.drv[c].selecting
      /\ f.selected = 0 /\ f.draining = x.drv[c].draining
      /\ f.ready = x.drv[c].ready /\ f.preserved = x.drv[c].preserved
      /\ f.notifications = x.drv[c].notifications /\ f.observer = x.drv[c].observer
  BY <1>7, <1>8, SelectedPut
<1>10. PICK d : d = [f EXCEPT !.selecting = FALSE]
  OBVIOUS
<1>11. /\ d \in DriverRec /\ d.consumer = x.drv[c].consumer /\ d.drive = x.drv[c].drive
       /\ d.active = x.drv[c].active /\ d.selecting = FALSE
       /\ d.selected = 0 /\ d.draining = x.drv[c].draining
       /\ d.ready = x.drv[c].ready /\ d.preserved = x.drv[c].preserved
       /\ d.notifications = x.drv[c].notifications /\ d.observer = x.drv[c].observer
  BY <1>9, <1>10, SelectingPut
<1>12. w = [x EXCEPT !.drv[c] = d]
  <2>1. x.drv \in [Clients -> DriverRec] /\ x = [st |-> x.st, drv |-> x.drv]
    BY <1>4, ManagedType DEF Managed
  <2> QED
    BY <1>4, <1>6, <1>7, <1>10, <2>1
<1>13. /\ w \in Managed /\ w.drv[c] = d /\ w.st = x.st
       /\ \A e \in Clients : e # c => w.drv[e] = x.drv[e]
  BY <1>4, <1>11, <1>12, PutDriver
<1>14. PICK b \in BOOLEAN : b = FALSE
  OBVIOUS
<1>15. PollSet(x, w, c, b)
  BY <1>11, <1>13, <1>14 DEF PollSet
<1>16. Last(s).op \in {"poll", "loop"} /\ Last(s).c = c
  BY <1>3, <1>4
<1>17. CASE i = 0
  <2>1. Items(w, n, {})
    <3>1. d.selected = x.drv[c].selected
      BY <1>5, <1>11, <1>17
    <3> QED
      BY <1>4, <1>11, <1>12, <3>1, FlagItems
  <2>2. PICK y : y = endUpdateConsumer(w, c)
    OBVIOUS
  <2>3. m' = y /\ stack' = Front(s) /\ calls' = n
    BY <1>3, <1>4, <1>5, <1>6, <1>17, <2>2 DEF PollTake
  <2>4. Items(y, n, {}) /\ StackInv(y, Front(s))
    BY <1>4, <1>11, <1>13, <1>16, <2>1, <2>2, EndStep
  <2> QED
    BY <2>3, <2>4 DEF CallsInv, ManagedInv
<1>18. CASE i # 0
  <2>1. Held(w, n, c, i)
    BY <1>4, <1>5, <1>11, <1>13, <1>18, TakeSelected
  <2>2. CASE ~Current.callback
    <3>1. PICK status \in {"dropped", "done"} : status = "done"
      OBVIOUS
    <3>2. PICK v : v = [w EXCEPT !.st[i].status = status]
      OBVIOUS
    <3>3. Items(v, n, {}) /\ Keeps(w, v)
      BY <2>1, <3>2, DropItems
    <3>7. v.drv = w.drv
      BY <1>13, <3>2 DEF Managed
    <3>4. PICK y : y = endUpdateConsumer(v, c)
      BY Zenon
    <3>5. m' = y /\ stack' = Front(s) /\ calls' = n
      BY <1>3, <1>4, <1>5, <1>6, <1>18, <2>2, <3>1, <3>2, <3>4 DEF PollTake
    <3>6. Items(y, n, {}) /\ StackInv(y, Front(s))
      <4>1. /\ \A j \in Ids : x.st[j].status \in Entered => v.st[j].status \in Entered
            /\ \A e \in Clients : e # c => v.drv[e] = x.drv[e]
            /\ v.drv[c].drive = x.drv[c].drive /\ v.drv[c].active = x.drv[c].active
            /\ v.drv[c].draining = x.drv[c].draining
        BY <1>11, <1>13, <3>3, <3>7 DEF Keeps
      <4> QED
        BY <1>4, <1>16, <3>3, <3>4, <4>1, EndStep
    <3> QED
      BY <3>5, <3>6 DEF CallsInv, ManagedInv
  <2>3. CASE Current.callback
    <3>1. PICK v : v = createUpdateTask(w, "PollTask", c, i)
      OBVIOUS
    <3>2. Items(v, n, {}) /\ Keeps(w, v)
      BY <2>1, <3>1, PollTaskItems
    <3>3. PICK g : g = [Last(s) EXCEPT !.pc = p]
      OBVIOUS
    <3>4. g \in CallFrames /\ g.op = "poll" /\ g.c = c /\ g.pc = p
      <4>1. p \in {"select", "take", "return"}
        BY <1>1
      <4> QED
        BY <1>4, <1>16, <3>3, <4>1, PollPcPut
    <3>5. m' = v /\ stack' = Append(Front(s), g) \o Tick(v, c) /\ calls' = n
      BY Zenon, <1>1, <1>3, <1>4, <1>5, <1>6, <1>18, <2>3, <3>1, <3>3 DEF PollTake, GoTo
    <3>6. StackInv(w, Append(Front(s), g))
      BY <1>4, <1>15, <1>16, <3>4, PollMoved
    <3>7. PICK r : r = Append(Front(s), g)
      OBVIOUS
    <3>8. StackInv(v, r)
      BY <3>2, <3>6, <3>7, StayStep
    <3>9. r # <<>> => Last(r).op # "tick"
      <4>1. Front(s) \in Seq(CallFrames)
        BY <1>4, TopOf DEF StackInv, StackShape
      <4>2. r \in Seq(CallFrames) /\ Len(r) = Len(Front(s)) + 1 /\ r[Len(Front(s)) + 1] = g
        BY <3>4, <3>7, <4>1, AppendProperties
      <4>3. r # <<>> => Last(r) = r[Len(r)]
        BY <4>2, TopOf
      <4> QED
        BY <3>4, <4>2, <4>3
    <3>10. StackInv(v, r \o Tick(v, c))
      BY <1>4, <3>8, <3>9, TickStep
    <3> QED
      BY <3>2, <3>5, <3>7, <3>10 DEF CallsInv, ManagedInv
  <2> QED
    BY <2>2, <2>3
<1> QED
  BY <1>17, <1>18

-----------------------------------------------------------------------------
(***************************************************************************)
(* The theorem.                                                            *)
(***************************************************************************)

LEMMA ManagedInitInv == ManagedInit => CallsInv
<1> SUFFICES ASSUME ManagedInit PROVE CallsInv
  OBVIOUS
<1>1. NoState \in StateRec /\ NoState.kind = "none" /\ NoState.status = "none"
  BY DEF NoState, StateRec
<1>2. NoObserver \in ObserverRec /\ NoObserver.id = 0 /\ NoObserver.concurrent
        /\ NoObserver.queue = <<>> /\ ~NoObserver.stopped
  BY NoObserverType
<1>3. PICK d : d = [pump |-> TRUE, consumer |-> FALSE, drive |-> FALSE, active |-> FALSE,
                    selecting |-> FALSE, selected |-> 0, draining |-> FALSE,
                    ready |-> <<>>, errors |-> 0, preserved |-> <<>>,
                    notifications |-> {}, observer |-> NoObserver]
  OBVIOUS
<1>4. d \in DriverRec
  BY <1>2, <1>3 DEF DriverRec
<1>5. m = [st |-> [i \in Ids |-> NoState], drv |-> [c \in Clients |-> d]] /\ stack = <<>> /\ calls = 0
  BY <1>3 DEF ManagedInit
<1>6. /\ m \in Managed /\ \A i \in Ids : m.st[i] = NoState
      /\ \A c \in Clients : m.drv[c] = d
  BY <1>1, <1>4, <1>5 DEF Managed
<1>7. \A i \in Ids : Known(m, i) /\ OfLoop(m, i, 0)
  BY <1>1, <1>6 DEF Known, OfLoop
<1>8. ASSUME NEW c \in Clients
      PROVE  /\ Listed(m, c) /\ Watched(m, c, 0) /\ InTurn(m.drv[c], tasks(m, c))
             /\ InPlace(m.drv[c], taken(m, c) \ {})
  <2>1. /\ d.ready = <<>> /\ d.preserved = <<>> /\ d.notifications = {} /\ d.selected = 0
        /\ d.observer = NoObserver
    BY <1>3
  <2>2. Listed(m, c)
    BY <1>6, <2>1 DEF Listed, OnceEach
  <2>3. Watched(m, c, 0)
    BY <1>2, <1>6, <2>1 DEF Watched
  <2>4. InTurn(m.drv[c], tasks(m, c))
    BY <1>2, <1>6, <2>1 DEF InTurn, Rises
  <2>5. taken(m, c) = {}
    BY <1>1, <1>6 DEF taken
  <2>6. InPlace(m.drv[c], taken(m, c) \ {})
    BY <1>2, <1>6, <2>1, <2>5, EmptyHas, IdsNat DEF InPlace, isKept
  <2> QED
    BY <2>2, <2>3, <2>4, <2>6
<1>9. Items(m, 0, {})
  BY <1>6, <1>7, <1>8 DEF Items
<1>10. StackInv(m, stack)
  <2>1. StackShape(stack) /\ Running(m, stack)
    BY <1>5 DEF StackShape, Running
  <2>2. \A c \in Clients : /\ Driving(stack, c) = {} /\ Pumping(stack, c) = {}
                           /\ Draining(stack, c) = {} /\ Polling(stack, c) = {}
                           /\ Looping(stack, c) = {}
    BY <1>5 DEF Driving, Pumping, Draining, Polling, Looping
  <2>3. ~d.drive /\ ~d.active /\ ~d.draining /\ ~d.consumer /\ ~d.selecting /\ d.observer.id = 0
    BY <1>2, <1>3
  <2>4. Flags(m, stack)
    BY <1>6, <2>2, <2>3 DEF Flags, Once
  <2> QED
    BY <2>1, <2>4 DEF StackInv
<1> QED
  BY <1>5, <1>9, <1>10 DEF CallsInv, ManagedInv

LEMMA MainCodeStep ==
  ASSUME CallsInv, MainCode
  PROVE  CallsInv'
<1>1. /\ FALSE \in BOOLEAN /\ TRUE \in BOOLEAN
      /\ "never" \in Deadlines /\ "timeout" \in Deadlines /\ "zero" \in Deadlines
  BY DEF Deadlines
<1>2. CASE \E c \in Clients, kind \in {"Future", "Task"} : Submit(c, kind)
  BY <1>2, SubmitStep
<1>3. CASE \E c \in Clients : Collect(c)
  BY <1>3, CollectStep
<1>4. CASE \E c \in Clients, callback \in BOOLEAN, deadline \in Deadlines : Poll(c, callback, deadline)
  BY <1>4, PollStep
<1>5. CASE \E c \in Clients, callback \in BOOLEAN, concurrent \in BOOLEAN : Loop(c, callback, concurrent)
  BY <1>5, LoopStep
<1>6. CASE \E i \in Ids : Wait(i)
  BY <1>6, WaitStep
<1> QED
  BY Zenon, <1>1, <1>2, <1>3, <1>4, <1>5, <1>6 DEF MainCode

LEMMA TransportStep ==
  ASSUME CallsInv, Transport
  PROVE  CallsInv'
BY PumpPreservedStep, PumpNothingStep, PumpUpdateStep, PumpRawStep, PumpResponseStep DEF Transport

LEMMA SchedulingStep ==
  ASSUME CallsInv, Scheduling
  PROVE  CallsInv'
<1>1. CASE \E t \in Ids : TickNotify(t) \/ FailStranded(t)
  BY <1>1, TickNotifyStep, FailStrandedStep
<1>2. CASE TickEnter \/ TickRun \/ TickEnd \/ Throw
  BY <1>2, TickEnterStep, TickRunStep, TickEndStep, ThrowsStep
<1>3. CASE DriveBegin \/ DriveRound \/ DriveLast \/ DriveEnd
  BY <1>3, DriveBeginStep, DriveRoundStep, DriveLastStep, DriveEndStep
<1>4. CASE \E d \in Clients : DriveDependency(d)
  BY <1>4, DriveDependencyStep
<1>5. CASE PollDrive \/ PollEnough \/ PollTake \/ Return \/ CallTick \/ LoopCheck \/ WaitCheck
  BY <1>5, PollDriveStep, PollEnoughStep, PollTakeStep, ReturnsStep, CallTickStep,
     LoopCheckStep, WaitCheckStep
<1> QED
  BY <1>1, <1>2, <1>3, <1>4, <1>5 DEF Scheduling

LEMMA ManagedNextInv ==
  ASSUME CallsInv, [ManagedNext]_managed
  PROVE  CallsInv'
<1>1. CASE MainCode
  BY <1>1, MainCodeStep
<1>2. CASE Coroutine
  BY <1>2, SuspendStep, FinishStep DEF Coroutine
<1>3. CASE Transport
  BY <1>3, TransportStep
<1>4. CASE Scheduling
  BY <1>4, SchedulingStep
<1>5. CASE UNCHANGED managed
  BY <1>5 DEF managed, CallsInv
<1> QED
  BY <1>1, <1>2, <1>3, <1>4, <1>5 DEF ManagedNext, Rest

\* The flags of one kind, of a predicate P of frames and the frames above it.
LEMMA FlagsFollow == ASSUME CallsInv PROVE FlagsFollowStack
<1>1. \A c \in Clients :
        /\ Frames("drive", c) = Driving(stack, c)
        /\ {k \in Frames("drive", c) : stack[k].pc \in {"pump", "pumped"}} = Pumping(stack, c)
        /\ {k \in Frames("tick", c) : stack[k].pc \in {"ready"}} = Draining(stack, c)
        /\ Frames("poll", c) = Polling(stack, c) /\ Frames("loop", c) = Looping(stack, c)
  BY DEF Frames, Driving, Pumping, Draining, Polling, Looping, drives, pumps, drains, polls, loops
<1>2. Flags(m, stack)
  BY DEF CallsInv, ManagedInv, StackInv
<1> QED
  BY <1>1, <1>2 DEF FlagsFollowStack, Flags, Once

\* What a client keeps, in one list.
LEMMA ConcatHas ==
  ASSUME NEW q \in Seq(Ids), NEW r \in Seq(Ids)
  PROVE  \A i : has(q \o r, i) <=> has(q, i) \/ has(r, i)
<1>1. /\ q \o r \in Seq(Ids) /\ Len(q \o r) = Len(q) + Len(r)
      /\ \A k \in 1 .. Len(q) + Len(r) : (q \o r)[k] = IF k <= Len(q) THEN q[k] ELSE r[k - Len(q)]
  BY ConcatProperties
<1>2. DOMAIN q = 1 .. Len(q) /\ DOMAIN r = 1 .. Len(r) /\ DOMAIN (q \o r) = 1 .. Len(q) + Len(r)
        /\ Len(q) \in Nat /\ Len(r) \in Nat
  BY <1>1, LenProperties
<1>3. ASSUME NEW i, has(q \o r, i)
      PROVE  has(q, i) \/ has(r, i)
  <2>1. PICK k \in 1 .. Len(q) + Len(r) : (q \o r)[k] = i
    BY <1>2, <1>3 DEF has
  <2>2. CASE k <= Len(q)
    <3>1. k \in DOMAIN q /\ q[k] = i
      BY <1>1, <1>2, <2>1, <2>2
    <3> QED
      BY <3>1 DEF has
  <2>3. CASE ~(k <= Len(q))
    <3>1. k - Len(q) \in DOMAIN r /\ r[k - Len(q)] = i
      BY <1>1, <1>2, <2>1, <2>3
    <3> QED
      BY <3>1 DEF has
  <2> QED
    BY <2>2, <2>3
<1>4. ASSUME NEW i, has(q, i)
      PROVE  has(q \o r, i)
  <2>1. PICK k \in DOMAIN q : q[k] = i
    BY <1>4 DEF has
  <2>2. k \in DOMAIN (q \o r) /\ (q \o r)[k] = i
    BY <1>1, <1>2, <2>1
  <2> QED
    BY <2>2 DEF has
<1>5. ASSUME NEW i, has(r, i)
      PROVE  has(q \o r, i)
  <2>1. PICK k \in DOMAIN r : r[k] = i
    BY <1>5 DEF has
  <2>2. k + Len(q) \in DOMAIN (q \o r) /\ (q \o r)[k + Len(q)] = i
    BY <1>1, <1>2, <2>1
  <2> QED
    BY <2>2 DEF has
<1> QED
  BY <1>3, <1>4, <1>5

LEMMA RisesOnce == ASSUME NEW q \in Seq(Ids), Rises(q) PROVE OnceEach(q)
<1> SUFFICES ASSUME NEW j \in DOMAIN q, NEW k \in DOMAIN q, q[j] = q[k] PROVE j = k
  BY DEF OnceEach
<1>1. /\ j \in Nat /\ k \in Nat /\ q[j] \in Nat /\ q[k] \in Nat
  <2>1. DOMAIN q = 1 .. Len(q) /\ Len(q) \in Nat
    BY LenProperties
  <2>2. j \in 1 .. Len(q) /\ k \in 1 .. Len(q)
    BY <2>1
  <2>3. q[j] \in Ids /\ q[k] \in Ids
    BY <2>2, ElementOfSeq
  <2>4. q[j] \in Nat /\ q[k] \in Nat
    BY <2>3, IdsNat
  <2>5. j \in Nat /\ k \in Nat
    BY <2>1, <2>2
  <2> QED
    BY <2>4, <2>5
<1>2. ~(j < k) /\ ~(k < j)
  BY <1>1 DEF Rises
<1> QED
  BY <1>1, <1>2

LEMMA UpdatesAreKept == ASSUME CallsInv PROVE UpdatesKept
<1> SUFFICES ASSUME NEW c \in Clients
             PROVE  LET o == m.drv[c].observer
                        kept == m.drv[c].preserved \o m.drv[c].observer.queue
                                  \o (IF m.drv[c].selected = 0 THEN <<>> ELSE <<m.drv[c].selected>>)
                        unfinished == {i \in Ids : /\ m.st[i].kind = "LoopTask" /\ m.st[i].observer = o.id
                                                   /\ m.st[i].status \in {"ready", "running", "waiting"}}
                    IN /\ IsInjective(kept)
                       /\ ToSet(kept) = {i \in Ids : m.st[i].client = c /\ m.st[i].status = "taken"}
                       /\ o.id # 0 /\ ~o.concurrent =>
                            /\ \A i, j \in unfinished : i = j
                            /\ \A i \in unfinished, j \in ToSet(o.queue) : i < j
                            /\ \A j, k \in DOMAIN o.queue : j < k => o.queue[j] < o.queue[k]
  BY DEF UpdatesKept
<1>1. PICK d : d = m.drv[c]
  OBVIOUS
<1>2. PICK T : T = tasks(m, c)
  OBVIOUS
<1>3. InTurn(d, T) /\ InPlace(d, taken(m, c) \ {}) /\ m \in Managed
  BY <1>1, <1>2 DEF CallsInv, ManagedInv, Items
<1>4. d \in DriverRec /\ d.preserved \in Seq(Ids) /\ d.selected \in {0} \cup Ids
        /\ d.observer \in ObserverRec /\ d.observer.queue \in Seq(Ids)
  BY <1>1, <1>3, ManagedType, DriverType, ObserverType
<1>5. PICK p, q, r : /\ p = d.preserved /\ q = d.observer.queue
                     /\ r = IF d.selected = 0 THEN <<>> ELSE <<d.selected>>
  OBVIOUS
<1>6. p \in Seq(Ids) /\ q \in Seq(Ids) /\ r \in Seq(Ids) /\ OnceEach(r)
        /\ \A i : has(r, i) <=> i = d.selected /\ d.selected # 0
  <2>1. CASE d.selected = 0
    BY <1>4, <1>5, <2>1, EmptyHas DEF OnceEach
  <2>2. CASE d.selected # 0
    <3>1. r = <<d.selected>> /\ d.selected \in Ids
      BY <1>4, <1>5, <2>2
    <3>2. r \in Seq(Ids) /\ DOMAIN r = {1} /\ r[1] = d.selected
      BY <3>1
    <3> QED
      BY <1>4, <1>5, <2>2, <3>2 DEF OnceEach, has
  <2> QED
    BY <2>1, <2>2
<1>7. OnceEach(p) /\ OnceEach(q)
  BY <1>3, <1>5, <1>6, RisesOnce DEF InTurn
<1>8. \A i \in Ids : /\ isKept(d, i) <=> i \in taken(m, c)
                     /\ ~(has(p, i) /\ has(q, i))
                     /\ d.selected = i => ~has(p, i) /\ ~has(q, i)
  BY <1>3, <1>5 DEF InPlace
<1>9. p \o q \in Seq(Ids) /\ OnceEach(p \o q)
  <2>1. \A j \in DOMAIN p, k \in DOMAIN q : p[j] # q[k]
    <3>1. SUFFICES ASSUME NEW j \in DOMAIN p, NEW k \in DOMAIN q, p[j] = q[k] PROVE FALSE
      OBVIOUS
    <3>2. p[j] \in Ids
      BY <1>6, ElementOfSeq, LenProperties
    <3>3. has(p, p[j]) /\ has(q, p[j])
      BY <3>1 DEF has
    <3> QED
      BY <1>8, <3>2, <3>3
  <2> QED
    BY <1>6, <1>7, <2>1, ConcatOnce
<1>10. \A i : has(p \o q, i) <=> has(p, i) \/ has(q, i)
  BY <1>6, ConcatHas
<1>11. PICK pq : pq = p \o q
  OBVIOUS
<1>12. pq \o r \in Seq(Ids) /\ OnceEach(pq \o r)
  <2>1. \A j \in DOMAIN pq, k \in DOMAIN r : pq[j] # r[k]
    <3>1. SUFFICES ASSUME NEW j \in DOMAIN pq, NEW k \in DOMAIN r, pq[j] = r[k] PROVE FALSE
      OBVIOUS
    <3>2. pq[j] \in Ids
      BY <1>9, <1>11, ElementOfSeq, LenProperties
    <3>3. has(pq, pq[j]) /\ has(r, pq[j])
      BY <3>1 DEF has
    <3> QED
      BY <1>6, <1>8, <1>10, <1>11, <3>2, <3>3
  <2> QED
    BY <1>6, <1>9, <1>11, <2>1, ConcatOnce
<1>13. \A i : has(pq \o r, i) <=> has(p, i) \/ has(q, i) \/ (i = d.selected /\ d.selected # 0)
  BY <1>6, <1>9, <1>10, <1>11, ConcatHas
<1>14. PICK kept : kept = pq \o r
  OBVIOUS
<1>15. IsInjective(kept)
  BY <1>12, <1>14 DEF IsInjective, OnceEach
<1>16. ToSet(kept) = taken(m, c)
  <2>1. \A i : i \in ToSet(kept) <=> has(kept, i)
    BY DEF ToSet, has
  <2>2. \A i : has(kept, i) => i \in Ids
    <3>1. SUFFICES ASSUME NEW k \in DOMAIN kept PROVE kept[k] \in Ids
      BY DEF has
    <3> QED
      BY <1>12, <1>14, ElementOfSeq, LenProperties
  <2>3. \A i \in Ids : has(kept, i) <=> i \in taken(m, c)
    BY <1>5, <1>8, <1>13, <1>14, IdsNat DEF isKept
  <2>4. taken(m, c) \subseteq Ids
    BY DEF taken
  <2> QED
    BY <2>1, <2>2, <2>3, <2>4
<1>17. ASSUME ~d.observer.concurrent
       PROVE  /\ \A i, j \in T : i = j
              /\ \A i \in T, j \in ToSet(q) : i < j
              /\ \A j, k \in DOMAIN q : j < k => q[j] < q[k]
  <2>1. /\ \A i, j \in T : i = j
        /\ \A i \in T : Above(i, q)
        /\ Rises(q)
    BY Zenon, <1>3, <1>5, <1>17 DEF InTurn
  <2> QED
    BY <2>1 DEF Above, Rises, ToSet
<1>18. kept = m.drv[c].preserved \o m.drv[c].observer.queue
                \o (IF m.drv[c].selected = 0 THEN <<>> ELSE <<m.drv[c].selected>>)
  BY <1>1, <1>5, <1>11, <1>14
<1>19. /\ T = {i \in Ids : /\ m.st[i].kind = "LoopTask" /\ m.st[i].observer = m.drv[c].observer.id
                           /\ m.st[i].status \in {"ready", "running", "waiting"}}
       /\ taken(m, c) = {i \in Ids : m.st[i].client = c /\ m.st[i].status = "taken"}
       /\ q = m.drv[c].observer.queue /\ d.observer = m.drv[c].observer
  BY <1>1, <1>2, <1>5 DEF tasks, taken, Unfinished
<1> QED
  BY <1>15, <1>16, <1>17, <1>18, <1>19

LEMMA CallsInvKept == CallsInv => KeptInOrder
BY FlagsFollow, UpdatesAreKept DEF KeptInOrder

\* The invariant holds of whatever main code, callbacks and Tasks drive.
THEOREM ManagedInvariance == ManagedSpec => []CallsInv
  BY ManagedInitInv, ManagedNextInv, PTL DEF ManagedSpec

\* What a poll, a loop or the client has taken is in one place until somebody gets it,
\* a serial loop is at work on the eldest item alone, and the flags that say who drives,
\* pumps, drains or consumes follow the calls in progress, also when an error unwinds
\* several of them.
THEOREM TakenIsKept == ManagedSpec => []KeptInOrder
  BY ManagedInvariance, CallsInvKept, PTL
=============================================================================
