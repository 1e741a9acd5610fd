---------------------------- MODULE BrokerProofs ----------------------------
(***************************************************************************)
(* Theorems about Broker, for any number of subscriptions and publishers   *)
(* and any channel capacity.                                               *)
(***************************************************************************)
EXTENDS Broker, SequenceTheorems, TLAPS

-----------------------------------------------------------------------------
(* Sequences *)

\* Moving the head of b to the end of t leaves their concatenation as it was.
LEMMA FeedReceive ==
  ASSUME NEW S, NEW t \in Seq(S), NEW b \in Seq(S), b # <<>>
  PROVE  Append(t, Head(b)) \o Tail(b) = t \o b
<1>1. /\ Head(b) \in S
      /\ Tail(b) \in Seq(S)
      /\ <<Head(b)>> \in Seq(S)
  BY EmptySeq, HeadTailProperties
<1>2. <<Head(b)>> \o Tail(b) = b
  <2>1. Len(b) \in Nat \ {0}
    BY EmptySeq
  <2>2. b = SubSeq(b, 1, Len(b))
    BY SubSeqFull
  <2>3. SubSeq(b, 1, Len(b)) = <<b[1]>> \o SubSeq(b, 2, Len(b))
    BY <2>1, SubSeqRecursiveFirst
  <2>4. Head(b) = b[1]
    BY <2>1, <2>2, HeadTailOfSubSeq
  <2> QED
    BY <2>2, <2>3, <2>4, TailIsSubSeq
<1>3. Append(t, Head(b)) = t \o <<Head(b)>>
  BY <1>1, AppendIsConcat
<1> QED
  BY <1>1, <1>2, <1>3, ConcatAssociative

\* An event appended to b is appended to the whole.
LEMMA FeedOffer ==
  ASSUME NEW S, NEW t \in Seq(S), NEW b \in Seq(S), NEW e \in S
  PROVE  t \o Append(b, e) = Append(t \o b, e)
<1>1. Append(b, e) = b \o <<e>> /\ Append(t \o b, e) = (t \o b) \o <<e>>
  BY AppendIsConcat, ConcatProperties
<1> QED
  BY <1>1, ConcatAssociative
-----------------------------------------------------------------------------
(* The types *)

\* The state is well-typed in every reachable state; in particular no channel
\* ever holds more than its capacity.
THEOREM TypeCorrect == Spec => []TypeOK
<1>1. Init => TypeOK
  <2>1. <<>> \in Seq(Event) /\ Len(<<>>) = 0
    BY EmptySeq
  <2>2. SUFFICES ASSUME Init PROVE TypeOK
    OBVIOUS
  <2>3. /\ buf \in [Sub -> Seq(Event)]
        /\ taken \in [Sub -> Seq(Event)]
    BY <2>1, <2>2 DEF Init
  <2>4. \A s \in Sub : Len(buf[s]) <= Cap
    BY <2>1, <2>2, BrokerAssumption DEF Init
  <2>5. /\ todo \in [Pub -> SUBSET Sub]
        /\ seq \in [Pub -> Nat]
    BY <2>2 DEF Init
  <2> QED
    BY <2>2, <2>3, <2>4, <2>5 DEF Init, TypeOK, Phase
<1>2. TypeOK /\ [Next]_vars => TypeOK'
  <2> SUFFICES ASSUME TypeOK, [Next]_vars PROVE TypeOK'
    OBVIOUS
  <2> USE DEF TypeOK, Phase
  <2>1. CASE \E s \in Sub : Lock(s)
    BY <2>1 DEF Lock
  <2>2. CASE \E s \in Sub : Subscribe(s)
    BY <2>2 DEF Subscribe, Exclusive
  <2>3. CASE \E s \in Sub : Unsubscribe(s)
    BY <2>3 DEF Unsubscribe, Exclusive
  <2>4. CASE \E s \in Sub : CloseChan(s)
    BY <2>4 DEF CloseChan
  <2>5. CASE \E p \in Pub : BeginPublish(p)
    BY <2>5 DEF BeginPublish
  <2>6. CASE \E p \in Pub, s \in Sub : Offer(p, s)
    <3> PICK p \in Pub, s \in Sub : Offer(p, s)
      BY <2>6
    <3>1. <<p, seq[p]>> \in Event
      BY DEF Event
    <3>2. /\ Append(buf[s], <<p, seq[p]>>) \in Seq(Event)
          /\ Len(Append(buf[s], <<p, seq[p]>>)) = Len(buf[s]) + 1
          /\ Len(buf[s]) \in Nat
      BY <3>1, AppendProperties, LenProperties
    <3> QED
      BY <3>1, <3>2, BrokerAssumption DEF Offer, Room, Remaining
  <2>7. CASE \E p \in Pub : EndPublish(p)
    BY <2>7 DEF EndPublish
  <2>8. CASE \E s \in Sub : Receive(s)
    <3> PICK s \in Sub : Receive(s)
      BY <2>8
    <3>1. buf[s] \in Seq(Event) /\ buf[s] # <<>> /\ taken[s] \in Seq(Event)
      BY DEF Receive
    <3>2. /\ Head(buf[s]) \in Event
          /\ Tail(buf[s]) \in Seq(Event)
          /\ Len(Tail(buf[s])) = Len(buf[s]) - 1
          /\ Len(buf[s]) \in Nat
      BY <3>1, HeadTailProperties, LenProperties
    <3>3. Append(taken[s], Head(buf[s])) \in Seq(Event)
      BY <3>1, <3>2, AppendProperties
    <3> QED
      BY <3>2, <3>3, BrokerAssumption DEF Receive
  <2>9. CASE \E s \in Sub : Written(s)
    BY <2>9 DEF Written, AfterWrite
  <2>10. CASE \E s \in Sub : NoticeGone(s)
    BY <2>10 DEF NoticeGone
  <2>11. CASE \E s \in Sub : HangUp(s)
    BY <2>11 DEF HangUp
  <2>12. CASE \E s \in Sub : Disconnect(s)
    BY <2>12 DEF Disconnect
  <2>13. CASE Quiet \/ UNCHANGED vars
    BY <2>13 DEF Quiet, vars
  <2> QED
    BY <2>1, <2>2, <2>3, <2>4, <2>5, <2>6, <2>7, <2>8, <2>9, <2>10, <2>11, <2>12, <2>13 DEF Next
<1> QED
  BY <1>1, <1>2, PTL DEF Spec
-----------------------------------------------------------------------------
(* The lock and the channels *)

\* The inductive invariant behind NoPanic: a publisher's snapshot only holds
\* subscriptions, and the channel of a subscription is open.
Safe == LockDiscipline /\ NoPanic

\* No channel is closed and nobody publishes or holds the lock at the start.
LEMMA SafeInit == Init => Safe
  BY BrokerAssumption DEF Init, Safe, LockDiscipline, NoPanic

\* No operation on the map, the lock or a channel breaks the discipline: a channel
\* that is closed is in no publisher's loop.
LEMMA SafeStep == TypeOK /\ Safe /\ [Next]_vars => Safe'
<1> SUFFICES ASSUME TypeOK, Safe, [Next]_vars PROVE Safe'
  OBVIOUS
<1> USE BrokerAssumption DEF TypeOK, Phase, Safe, LockDiscipline, NoPanic
<1>1. CASE \E s \in Sub : Lock(s)
  BY <1>1 DEF Lock
<1>2. CASE \E s \in Sub : Subscribe(s)
  BY <1>2 DEF Subscribe, Exclusive
<1>3. CASE \E s \in Sub : Unsubscribe(s)
  BY <1>3 DEF Unsubscribe, Exclusive
<1>4. CASE \E s \in Sub : CloseChan(s)
  BY <1>4 DEF CloseChan
<1>5. CASE \E p \in Pub : BeginPublish(p)
  <2> PICK p \in Pub : BeginPublish(p)
    BY <1>5
  <2>1. \A q \in Pub : todo'[q] \subseteq subs
    BY DEF BeginPublish
  <2>2. \A q \in Pub \ readers' : todo'[q] = {}
    BY DEF BeginPublish
  <2>3. UNCHANGED <<pc, subs, chan, busy, writer, panicked>>
    BY DEF BeginPublish
  <2>4. (\A q \in Pub : todo[q] \subseteq subs)'
    BY <2>1, <2>3
  <2>5. (\A q \in Pub \ readers : todo[q] = {})'
    BY <2>2
  <2> QED
    BY <2>3, <2>4, <2>5
<1>6. CASE \E p \in Pub, s \in Sub : Offer(p, s)
  <2> PICK p \in Pub, s \in Sub : Offer(p, s)
    BY <1>6
  <2>1. todo'[p] = todo[p] \ {s} /\ \A q \in Pub \ {p} : todo'[q] = todo[q]
    BY DEF Offer, Remaining
  <2>2. UNCHANGED <<pc, subs, chan, busy, writer, readers>>
    BY DEF Offer
  <2>3. panicked' = FALSE
    \* s is in the snapshot, so its channel is open
    <3>1. chan[s] # "closed"
      BY DEF Offer
    <3> QED
      BY <3>1 DEF Offer
  <2>4. (\A q \in Pub : todo[q] \subseteq subs)'
    BY <2>1, <2>2
  <2>5. (\A q \in Pub \ readers : todo[q] = {})'
    BY <2>1, <2>2
  <2> QED
    BY <2>2, <2>3, <2>4, <2>5
<1>7. CASE \E p \in Pub : EndPublish(p)
  <2> PICK p \in Pub : EndPublish(p)
    BY <1>7
  <2>1. \A q \in Pub : todo'[q] \subseteq subs
    BY DEF EndPublish
  <2>2. \A q \in Pub \ readers' : todo'[q] = {}
    BY DEF EndPublish
  <2>3. UNCHANGED <<pc, subs, chan, busy, writer, panicked>>
    BY DEF EndPublish
  <2>4. (\A q \in Pub : todo[q] \subseteq subs)'
    BY <2>1, <2>3
  <2>5. (\A q \in Pub \ readers : todo[q] = {})'
    BY <2>2
  <2> QED
    BY <2>3, <2>4, <2>5
<1>8. CASE \E s \in Sub : Receive(s)
  BY <1>8 DEF Receive, Reading
<1>9. CASE \E s \in Sub : Written(s)
  BY <1>9 DEF Written, AfterWrite
<1>10. CASE \E s \in Sub : NoticeGone(s)
  BY <1>10 DEF NoticeGone
<1>11. CASE \E s \in Sub : HangUp(s)
  BY <1>11 DEF HangUp
<1>12. CASE \E s \in Sub : Disconnect(s)
  BY <1>12 DEF Disconnect
<1>13. CASE Quiet \/ UNCHANGED vars
  BY <1>13 DEF Quiet, vars
<1> QED
  BY <1>1, <1>2, <1>3, <1>4, <1>5, <1>6, <1>7, <1>8, <1>9, <1>10, <1>11, <1>12, <1>13 DEF Next

\* Nothing is ever sent on a closed channel and none is closed twice, for any
\* number of publishers, readers and hang-ups.
THEOREM NeverPanics == Spec => []NoPanic
<1>1. Safe => NoPanic
  BY DEF Safe
<1> QED
  BY <1>1, TypeCorrect, SafeInit, SafeStep, PTL DEF Spec
-----------------------------------------------------------------------------
(* The feed of a subscription *)

\* A feed is what was taken and what waits, so its length is the sum of theirs.
LEMMA FeedType ==
  ASSUME TypeOK, NEW s \in Sub
  PROVE  /\ Feed(s) \in Seq(Event)
         /\ Len(Feed(s)) = Len(taken[s]) + Len(buf[s])
         /\ Len(taken[s]) \in Nat
         /\ Len(buf[s]) \in Nat
<1>1. taken[s] \in Seq(Event) /\ buf[s] \in Seq(Event)
  BY DEF TypeOK
<1> QED
  BY <1>1, ConcatProperties, LenProperties DEF Feed

\* Receiving moves an event from the channel to the reader and no more.
LEMMA FeedUnderReceive ==
  ASSUME TypeOK, NEW s \in Sub, Receive(s)
  PROVE  \A u \in Sub : Feed(u)' = Feed(u)
<1>1. /\ taken[s] \in Seq(Event) /\ buf[s] \in Seq(Event) /\ buf[s] # <<>>
      /\ taken' = [taken EXCEPT ![s] = Append(taken[s], Head(buf[s]))]
      /\ buf' = [buf EXCEPT ![s] = Tail(buf[s])]
      /\ taken \in [Sub -> Seq(Event)] /\ buf \in [Sub -> Seq(Event)]
  BY DEF Receive, TypeOK
<1>2. /\ taken'[s] = Append(taken[s], Head(buf[s]))
      /\ buf'[s] = Tail(buf[s])
      /\ \A u \in Sub \ {s} : taken'[u] = taken[u] /\ buf'[u] = buf[u]
  BY <1>1
<1>3. taken'[s] \o buf'[s] = taken[s] \o buf[s]
  BY <1>1, <1>2, FeedReceive
<1> QED
  BY <1>2, <1>3 DEF Feed

\* An offer appends the event to the feed of the one subscription it is made
\* to, if that has room.
LEMMA FeedUnderOffer ==
  ASSUME TypeOK, NEW p \in Pub, NEW s \in Sub, Offer(p, s)
  PROVE  /\ <<p, seq[p]>> \in Event
         /\ Feed(s)' = IF chan[s] = "open" /\ Room(s)
                       THEN Append(Feed(s), <<p, seq[p]>>)
                       ELSE Feed(s)
         /\ \A u \in Sub \ {s} : Feed(u)' = Feed(u)
<1>1. /\ taken[s] \in Seq(Event) /\ buf[s] \in Seq(Event)
      /\ <<p, seq[p]>> \in Event
      /\ taken' = taken
      /\ buf \in [Sub -> Seq(Event)]
  BY DEF Offer, TypeOK, Event
<1>2. \A u \in Sub \ {s} : buf'[u] = buf[u]
  BY <1>1 DEF Offer
<1>3. CASE chan[s] = "open" /\ Room(s)
  <2>1. buf'[s] = Append(buf[s], <<p, seq[p]>>)
    BY <1>1, <1>3 DEF Offer
  <2>2. taken[s] \o Append(buf[s], <<p, seq[p]>>) = Append(taken[s] \o buf[s], <<p, seq[p]>>)
    <3> DEFINE t == taken[s]
               b == buf[s]
               e == <<p, seq[p]>>
    <3>1. t \in Seq(Event) /\ b \in Seq(Event) /\ e \in Event
      BY <1>1
    <3> HIDE DEF t, b, e
    <3>2. t \o Append(b, e) = Append(t \o b, e)
      BY <3>1, FeedOffer
    <3> QED
      BY <3>2 DEF t, b, e
  <2> QED
    BY <1>1, <1>2, <1>3, <2>1, <2>2 DEF Feed
<1>4. CASE ~(chan[s] = "open" /\ Room(s))
  BY <1>1, <1>2, <1>4 DEF Feed, Offer
<1> QED
  BY <1>3, <1>4
-----------------------------------------------------------------------------
(* The order of the feeds *)

\* What makes FeedOrdered inductive: a feed holds no event of a broadcast that
\* has not begun, and the event of a broadcast that is going on only in the
\* feeds that this broadcast has settled.
Settled(p, n, s) == n < seq[p] \/ (n = seq[p] /\ p \in readers /\ s \notin todo[p])

Past ==
  \A s \in Sub : \A i \in 1..Len(Feed(s)) : Settled(Feed(s)[i][1], Feed(s)[i][2], s)

\* The feeds are empty at the start.
LEMMA OrderInit == Init => Past /\ FeedOrdered
<1> SUFFICES ASSUME Init PROVE Past /\ FeedOrdered
  OBVIOUS
<1>1. \A s \in Sub : Len(Feed(s)) = 0
  <2>1. <<>> \in Seq(Event) /\ Len(<<>>) = 0
    BY EmptySeq
  <2>2. <<>> \o <<>> = <<>>
    BY <2>1, ConcatEmptySeq
  <2> QED
    BY <2>1, <2>2 DEF Init, Feed
<1> QED
  BY <1>1 DEF Past, FeedOrdered

\* An event that Publish puts into a channel is later than all that the feed has of
\* its publisher, and no other step changes a feed.
LEMMA OrderStep ==
  TypeOK /\ Past /\ FeedOrdered /\ [Next]_vars => Past' /\ FeedOrdered'
<1> SUFFICES ASSUME TypeOK, Past, FeedOrdered, [Next]_vars
             PROVE  Past' /\ FeedOrdered'
  OBVIOUS
<1>e. ASSUME NEW s \in Sub, NEW i \in 1..Len(Feed(s))
      PROVE  Feed(s)[i][1] \in Pub /\ Feed(s)[i][2] \in Nat
  <2>1. Feed(s)[i] \in Event
    BY FeedType, ElementOfSeq
  <2> QED
    BY <2>1 DEF Event
<1>1. CASE \E p \in Pub : BeginPublish(p)
  <2> PICK p \in Pub : BeginPublish(p)
    BY <1>1
  <2>1. \A s \in Sub : Feed(s)' = Feed(s)
    BY DEF BeginPublish, Feed
  <2>2. /\ seq' = seq
        /\ p \notin readers
        /\ readers' = readers \cup {p}
        /\ \A q \in Pub \ {p} : todo'[q] = todo[q]
    BY DEF BeginPublish, TypeOK
  <2>3. \A q \in Pub, n \in Nat, s \in Sub : Settled(q, n, s) => Settled(q, n, s)'
    BY <2>2 DEF Settled
  <2> QED
    BY <2>1, <2>3, <1>e DEF Past, FeedOrdered
<1>2. CASE \E p \in Pub, s \in Sub : Offer(p, s)
  <2> PICK p \in Pub, s \in Sub : Offer(p, s)
    BY <1>2
  <2>1. /\ <<p, seq[p]>> \in Event
        /\ Feed(s)' = IF chan[s] = "open" /\ Room(s)
                      THEN Append(Feed(s), <<p, seq[p]>>)
                      ELSE Feed(s)
        /\ \A u \in Sub \ {s} : Feed(u)' = Feed(u)
    BY FeedUnderOffer
  <2>2. /\ p \in readers /\ s \in todo[p]
        /\ seq' = seq /\ readers' = readers
        /\ todo'[p] = todo[p] \ {s}
        /\ \A q \in Pub \ {p} : todo'[q] = todo[q]
    BY DEF Offer, Remaining, TypeOK
  <2>5. \A q \in Pub, n \in Nat, u \in Sub : Settled(q, n, u) => Settled(q, n, u)'
    BY <2>2 DEF Settled, TypeOK
  <2>3. CASE Feed(s)' = Feed(s)
    BY <2>1, <2>3, <2>5, <1>e DEF Past, FeedOrdered
  <2>4. CASE Feed(s)' = Append(Feed(s), <<p, seq[p]>>)
    <3> DEFINE n == Len(Feed(s))
    <3>1. /\ n \in Nat
          /\ Len(Feed(s)') = n + 1
          /\ \A i \in 1..n : Feed(s)'[i] = Feed(s)[i]
          /\ Feed(s)'[n + 1] = <<p, seq[p]>>
      BY <2>1, <2>4, FeedType, LenProperties, AppendProperties
    <3>2. \A i \in 1..n : Feed(s)[i][1] = p => Feed(s)[i][2] < seq[p]
      BY <2>2, <1>e DEF Past, Settled
    <3>3. Past'
      <4>1. Settled(p, seq[p], s)'
        BY <2>2 DEF Settled, TypeOK
      <4>2. \A i \in 1..(n + 1) : Settled(Feed(s)[i][1], Feed(s)[i][2], s)'
        <5> TAKE i \in 1..(n + 1)
        <5>1. CASE i = n + 1
          BY <2>2, <3>1, <4>1, <5>1 DEF Settled
        <5>2. CASE i \in 1..n
          <6> PICK q \in Pub, m \in Nat : q = Feed(s)[i][1] /\ m = Feed(s)[i][2]
            BY <1>e, <5>2
          <6>1. Settled(q, m, s)'
            BY <2>5, <5>2 DEF Past
          <6>2. q = Feed(s)'[i][1] /\ m = Feed(s)'[i][2]
            BY <3>1, <5>2
          <6>3. \/ m < seq'[q]
                \/ m = seq'[q] /\ q \in readers' /\ s \notin todo'[q]
            BY <6>1 DEF Settled
          <6> QED
            BY <6>2, <6>3 DEF Settled
        <5> QED
          BY <5>1, <5>2, <3>1
      <4>3. \A u \in Sub \ {s} : \A i \in 1..Len(Feed(u)') :
               Settled(Feed(u)[i][1], Feed(u)[i][2], u)'
        BY <2>1, <2>5, <1>e DEF Past, Settled
      <4> QED
        BY <3>1, <4>2, <4>3 DEF Past
    <3>4. FeedOrdered'
      <4> SUFFICES ASSUME NEW u \in Sub,
                          NEW i \in 1..Len(Feed(u)'), NEW j \in 1..Len(Feed(u)'),
                          i < j, Feed(u)'[i][1] = Feed(u)'[j][1]
                   PROVE  Feed(u)'[i][2] < Feed(u)'[j][2]
        BY DEF FeedOrdered
      <4>1. CASE u # s
        BY <2>1, <4>1 DEF FeedOrdered
      <4>2. CASE u = s /\ j <= n
        BY <3>1, <4>2 DEF FeedOrdered
      <4>3. CASE u = s /\ j = n + 1
        BY <3>1, <3>2, <4>3
      <4> QED
        BY <3>1, <4>1, <4>2, <4>3
    <3> QED
      BY <3>3, <3>4
  <2> QED
    BY <2>1, <2>3, <2>4
<1>3. CASE \E p \in Pub : EndPublish(p)
  <2> PICK p \in Pub : EndPublish(p)
    BY <1>3
  <2>1. \A s \in Sub : Feed(s)' = Feed(s)
    BY DEF EndPublish, Feed
  <2>2. /\ readers' = readers \ {p}
        /\ todo' = todo
        /\ seq[p] \in Nat /\ seq'[p] = seq[p] + 1
        /\ \A q \in Pub \ {p} : seq'[q] = seq[q]
    BY DEF EndPublish, TypeOK
  <2>4. \A q \in Pub, n \in Nat, s \in Sub : Settled(q, n, s) => Settled(q, n, s)'
    BY <2>2 DEF Settled, TypeOK
  <2>3. Past'
    BY <2>1, <2>4, <1>e DEF Past
  <2> QED
    BY <2>1, <2>3 DEF FeedOrdered
<1>4. CASE \E s \in Sub : Receive(s)
  <2>1. \A s \in Sub : Feed(s)' = Feed(s)
    BY <1>4, FeedUnderReceive
  <2>2. UNCHANGED <<seq, readers, todo>>
    BY <1>4 DEF Receive
  <2> QED
    BY <2>1, <2>2 DEF Past, Settled, FeedOrdered
<1>5. CASE UNCHANGED <<buf, taken, seq, readers, todo>>
  <2>1. \A s \in Sub : Feed(s)' = Feed(s)
    BY <1>5 DEF Feed
  <2> QED
    BY <2>1, <1>5 DEF Past, Settled, FeedOrdered
<1>6. \/ \E p \in Pub : BeginPublish(p)
      \/ \E p \in Pub, s \in Sub : Offer(p, s)
      \/ \E p \in Pub : EndPublish(p)
      \/ \E s \in Sub : Receive(s)
      \/ UNCHANGED <<buf, taken, seq, readers, todo>>
  BY DEF Next, vars, Lock, Subscribe, Unsubscribe, CloseChan, Written, NoticeGone,
         HangUp, Disconnect, Quiet
<1> QED
  BY <1>1, <1>2, <1>3, <1>4, <1>5, <1>6

\* Every reader sees the events of one publisher in the order they were
\* published and none of them twice, however many it misses.
THEOREM FeedsStayOrdered == Spec => []FeedOrdered
BY TypeCorrect, OrderInit, OrderStep, PTL DEF Spec
-----------------------------------------------------------------------------
(* The broker implements the best-effort broadcast *)

\* A broker that was just made is a broadcast that nobody has joined.
LEMMA AbsInit == Init => Abs!Init
<1> SUFFICES ASSUME Init PROVE Abs!Init
  OBVIOUS
<1>1. <<>> \o <<>> = <<>> /\ Len(<<>>) = 0
  BY EmptySeq, ConcatEmptySeq
<1>2. /\ [s \in Sub |-> Feed(s)] = [s \in Sub |-> <<>>]
      /\ [s \in Sub |-> Len(taken[s])] = [s \in Sub |-> 0]
  BY <1>1 DEF Init, Feed
<1> QED
  BY <1>2 DEF Init, Abs!Init

\* The state the refinement maps to, when nothing an abstract observer sees
\* has changed.
LEMMA AbsStutter ==
  ASSUME UNCHANGED <<subs, readers, todo, seq, buf, taken>>,
         \A s \in Sub : pc[s] \in {"removed", "done"} <=> pc'[s] \in {"removed", "done"}
  PROVE  UNCHANGED Abs!vars
<1>1. \A s \in Sub : Feed(s)' = Feed(s) /\ taken'[s] = taken[s]
  BY DEF Feed
<1>2. /\ [s \in Sub |-> Feed(s)]' = [s \in Sub |-> Feed(s)]
      /\ [s \in Sub |-> Len(taken[s])]' = [s \in Sub |-> Len(taken[s])]
  BY <1>1
<1>3. {s \in Sub : pc[s] \in {"removed", "done"}}' = {s \in Sub : pc[s] \in {"removed", "done"}}
  OBVIOUS
<1> QED
  BY <1>2, <1>3 DEF Abs!vars

\* Each step of the broker, seen through the feeds and memberships, is one step of the
\* broadcast or none.
LEMMA AbsStep == TypeOK /\ Safe /\ [Next]_vars => [Abs!Next]_(Abs!vars)
<1> SUFFICES ASSUME TypeOK, Safe, [Next]_vars PROVE Abs!Next \/ UNCHANGED Abs!vars
  OBVIOUS
<1> DEFINE Left == {s \in Sub : pc[s] \in {"removed", "done"}}
           Feeds == [s \in Sub |-> Feed(s)]
           Seen == [s \in Sub |-> Len(taken[s])]
<1>1. CASE \E s \in Sub : Subscribe(s)
  <2> PICK s \in Sub : Subscribe(s)
    BY <1>1
  <2>1. /\ readers = {}
        /\ s \notin subs \cup Left
        /\ subs' = subs \cup {s}
        /\ UNCHANGED <<readers, todo, seq>>
    BY DEF Subscribe, Exclusive, Safe, LockDiscipline
  <2>2. Left' = Left
    BY DEF Subscribe, TypeOK
  <2>3. Feeds' = Feeds /\ Seen' = Seen
    BY DEF Subscribe, Feed
  <2>4. Abs!Join(s)
    BY <2>1, <2>2, <2>3 DEF Abs!Join
  <2> QED
    BY <2>4 DEF Abs!Next
<1>2. CASE \E s \in Sub : Unsubscribe(s)
  <2> PICK s \in Sub : Unsubscribe(s)
    BY <1>2
  <2>1. /\ readers = {}
        /\ s \in subs
        /\ subs' = subs \ {s}
        /\ UNCHANGED <<readers, todo, seq>>
    BY DEF Unsubscribe, Exclusive, Safe, LockDiscipline
  <2>2. Left' = Left \cup {s}
    BY DEF Unsubscribe, TypeOK
  <2>3. Feeds' = Feeds /\ Seen' = Seen
    BY DEF Unsubscribe, Feed
  <2>4. Abs!Leave(s)
    BY <2>1, <2>2, <2>3 DEF Abs!Leave
  <2> QED
    BY <2>4 DEF Abs!Next
<1>3. CASE \E p \in Pub : BeginPublish(p)
  <2> PICK p \in Pub : BeginPublish(p)
    BY <1>3
  <2>1. Left' = Left /\ Feeds' = Feeds /\ Seen' = Seen
    BY DEF BeginPublish, Feed
  <2>2. Abs!Begin(p)
    BY <2>1 DEF BeginPublish, Abs!Begin
  <2> QED
    BY <2>2 DEF Abs!Next
<1>4. CASE \E p \in Pub, s \in Sub : Offer(p, s)
  <2> PICK p \in Pub, s \in Sub : Offer(p, s)
    BY <1>4
  <2>1. chan[s] = "open"
    BY DEF Offer, Safe, LockDiscipline, TypeOK, Phase
  <2>2. Room(s) <=> Len(Feed(s)) - Len(taken[s]) < Cap
    <3>1. /\ Len(Feed(s)) = Len(taken[s]) + Len(buf[s])
          /\ Len(taken[s]) \in Nat /\ Len(buf[s]) \in Nat
      BY FeedType
    <3> QED
      BY <3>1, BrokerAssumption DEF Room
  <2>3. Feeds' = IF Len(Feeds[s]) - Seen[s] < Cap
                 THEN [Feeds EXCEPT ![s] = Append(Feeds[s], <<p, seq[p]>>)]
                 ELSE Feeds
    BY <2>1, <2>2, FeedUnderOffer
  <2>4. Left' = Left /\ Seen' = Seen
    BY DEF Offer
  <2>5. Abs!Settle(p, s)
    BY <2>3, <2>4 DEF Offer, Remaining, Abs!Settle
  <2> QED
    BY <2>5 DEF Abs!Next
<1>5. CASE \E p \in Pub : EndPublish(p)
  <2> PICK p \in Pub : EndPublish(p)
    BY <1>5
  <2>1. Left' = Left /\ Feeds' = Feeds /\ Seen' = Seen
    BY DEF EndPublish, Feed
  <2>2. Abs!End(p)
    BY <2>1 DEF EndPublish, Abs!End
  <2> QED
    BY <2>2 DEF Abs!Next
<1>6. CASE \E s \in Sub : Receive(s)
  <2> PICK s \in Sub : Receive(s)
    BY <1>6
  <2>1. /\ taken[s] \in Seq(Event) /\ buf[s] \in Seq(Event) /\ buf[s] # <<>>
        /\ taken \in [Sub -> Seq(Event)]
        /\ taken' = [taken EXCEPT ![s] = Append(taken[s], Head(buf[s]))]
        /\ UNCHANGED <<pc, subs, readers, todo, seq>>
    BY DEF Receive, TypeOK
  <2>2. Len(taken'[s]) = Len(taken[s]) + 1 /\ Len(buf[s]) > 0
    <3>1. Head(buf[s]) \in Event /\ Len(buf[s]) \in Nat \ {0}
      BY <2>1, HeadTailProperties, EmptySeq
    <3> QED
      BY <2>1, <3>1, AppendProperties
  <2>3. Seen[s] < Len(Feeds[s])
    <3>1. /\ Len(Feed(s)) = Len(taken[s]) + Len(buf[s])
          /\ Len(taken[s]) \in Nat /\ Len(buf[s]) \in Nat
      BY FeedType
    <3>2. Len(buf[s]) > 0
      BY <2>2
    <3> DEFINE t == Len(taken[s])
               b == Len(buf[s])
               f == Len(Feed(s))
    <3>3. t \in Nat /\ b \in Nat /\ f = t + b /\ b > 0
      BY <3>1, <3>2
    <3> HIDE DEF t, b, f
    <3>4. t < f
      BY <3>3
    <3> QED
      BY <3>4 DEF t, f
  <2>4. Seen' = [Seen EXCEPT ![s] = @ + 1]
    BY <2>1, <2>2
  <2>5. Left' = Left /\ Feeds' = Feeds
    BY <2>1, FeedUnderReceive
  <2>6. Abs!Read(s)
    BY <2>1, <2>3, <2>4, <2>5 DEF Abs!Read
  <2> QED
    BY <2>6 DEF Abs!Next
<1>7. CASE \E s \in Sub :
             \/ Lock(s) \/ CloseChan(s) \/ Written(s) \/ NoticeGone(s)
             \/ HangUp(s) \/ Disconnect(s)
  <2>1. UNCHANGED <<subs, readers, todo, seq, buf, taken>>
    BY <1>7 DEF Lock, CloseChan, Written, NoticeGone, HangUp, Disconnect
  <2>2. \A s \in Sub : pc[s] \in {"removed", "done"} <=> pc'[s] \in {"removed", "done"}
    <3> PICK s \in Sub :
           \/ Lock(s) \/ CloseChan(s) \/ Written(s) \/ NoticeGone(s)
           \/ HangUp(s) \/ Disconnect(s)
      BY <1>7
    <3>0. \/ Lock(s) \/ CloseChan(s) \/ Written(s) \/ NoticeGone(s)
          \/ HangUp(s) \/ Disconnect(s)
      OBVIOUS
    <3>1. \/ pc' = pc
          \/ /\ pc[s] = "live"
             /\ pc' = [pc EXCEPT ![s] = "leaving"]
          \/ /\ pc[s] = "removed"
             /\ pc' = [pc EXCEPT ![s] = "done"]
      <4>1. CASE Written(s)
        BY <4>1, BrokerAssumption DEF Written, AfterWrite, Safe, LockDiscipline
      <4> QED
        BY <4>1, <3>0 DEF Lock, CloseChan, NoticeGone, HangUp, Disconnect
    <3>2. pc \in [Sub -> Phase]
      BY DEF TypeOK
    <3> QED
      BY <3>1, <3>2
  <2> QED
    BY <2>1, <2>2, AbsStutter
<1>8. CASE Quiet \/ UNCHANGED vars
  BY <1>8, AbsStutter DEF Quiet, vars
<1> QED
  BY <1>1, <1>2, <1>3, <1>4, <1>5, <1>6, <1>7, <1>8 DEF Next

\* The locks, the snapshot and the non-blocking send together give exactly the
\* best-effort broadcast of FanOut, whatever the interleaving.
THEOREM ImplementsFanOut == Spec => IsFanOut
<1>1. Spec => [](TypeOK /\ Safe)
  BY TypeCorrect, SafeInit, SafeStep, PTL DEF Spec
<1>2. Spec => Abs!Spec
  BY <1>1, AbsInit, AbsStep, PTL DEF Spec, Abs!Spec
<1> QED
  BY <1>2 DEF IsFanOut
=============================================================================
