------------------------------- MODULE Broker -------------------------------
(***************************************************************************)
(* The pub/sub hub of internal/control/server.go (Broker for alerts,       *)
(* LogBroker for log lines: the same code, capacities 64 and 256) and the  *)
(* goroutines that use it:                                                 *)
(*                                                                         *)
(*  - publishers, which call Publish and hold the read lock over the       *)
(*    whole loop over the subscribers;                                     *)
(*  - handlers of `logitcat tail` connections (TailSub), which notice a    *)
(*    vanished client only when a write fails;                             *)
(*  - handlers of SSE streams (SseSub), which also watch the request       *)
(*    context;                                                             *)
(*  - pipe mode's forwarders (FwdSub), which range over a channel that     *)
(*    another goroutine, main, unsubscribes.                               *)
(*                                                                         *)
(* Subscribe makes a fresh channel each time, so a subscription and its    *)
(* channel are the same thing here, and each is made at most once.         *)
(* Close is never called by the program and is not modelled.               *)
(***************************************************************************)
EXTENDS Naturals, Sequences

CONSTANTS
  TailSub, SseSub, FwdSub,  \* subscriptions by the kind of goroutine reading them
  Pub,        \* goroutines that call Publish: the dispatcher, push handlers
  Cap,        \* capacity of a subscriber's channel
  MaxEvents,  \* events each publisher may publish (bound)
  None        \* no goroutine

Sub == TailSub \cup SseSub \cup FwdSub

ASSUME BrokerAssumption ==
  /\ Cap \in Nat \ {0}
  /\ MaxEvents \in Nat
  /\ TailSub \cap SseSub = {}
  /\ (TailSub \cup SseSub) \cap FwdSub = {}
  /\ None \notin Sub

VARIABLES
  pc,         \* where each subscription is in its life
  subs,       \* b.subs: the channels Publish ranges over
  chan,       \* "nil" | "open" | "closed"
  buf,        \* the buffered events of each channel
  taken,      \* the events received from each channel so far
  busy,       \* goroutines writing out the last event they received
  peer,       \* the subscriptions whose client is still connected
  writer,     \* b.mu: the goroutine in Lock or None; a waiting one keeps readers out
  readers,    \* b.mu: the publishers holding the read lock
  todo,       \* channels a publisher's range loop has not reached
  seq,        \* number of each publisher's current or next event
  panicked    \* a send on, or a close of, a closed channel

vars == <<pc, subs, chan, buf, taken, busy, peer, writer, readers, todo, seq, panicked>>

Phase == {"idle", "live", "leaving", "removed", "done"}

Event == Pub \X Nat

Init ==
  /\ pc = [s \in Sub |-> "idle"]
  /\ subs = {}
  /\ chan = [s \in Sub |-> "nil"]
  /\ buf = [s \in Sub |-> <<>>]
  /\ taken = [s \in Sub |-> <<>>]
  /\ busy = {}
  /\ peer = Sub
  /\ writer = None
  /\ readers = {}
  /\ todo = [p \in Pub |-> {}]
  /\ seq = [p \in Pub |-> 1]
  /\ panicked = FALSE
-----------------------------------------------------------------------------
(* The read-write mutex. Lock announces itself first: from then on new     *)
(* readers wait, and the writer enters once the current ones have left.    *)

Lock(s) ==
  /\ pc[s] \in {"idle", "leaving"}
  /\ writer = None
  /\ writer' = s
  /\ UNCHANGED <<pc, subs, chan, buf, taken, busy, peer, readers, todo, seq, panicked>>

\* Mutant: a Lock that does not wait for the readers.
Exclusive_NoWait(s) == writer = s

Exclusive(s) == writer = s /\ readers = {}
-----------------------------------------------------------------------------
(* Subscribe and Unsubscribe. *)

Subscribe(s) ==
  /\ pc[s] = "idle"
  /\ Exclusive(s)
  /\ pc' = [pc EXCEPT ![s] = "live"]
  /\ subs' = subs \cup {s}
  /\ chan' = [chan EXCEPT ![s] = "open"]
  /\ writer' = None
  /\ UNCHANGED <<buf, taken, busy, peer, readers, todo, seq, panicked>>

Unsubscribe(s) ==
  /\ pc[s] = "leaving"
  /\ Exclusive(s)
  /\ pc' = [pc EXCEPT ![s] = "removed"]
  /\ subs' = subs \ {s}
  /\ writer' = None
  /\ UNCHANGED <<chan, buf, taken, busy, peer, readers, todo, seq, panicked>>

\* The close that follows the unlock in Unsubscribe.
CloseChan(s) ==
  /\ pc[s] = "removed"
  /\ pc' = [pc EXCEPT ![s] = "done"]
  /\ chan' = [chan EXCEPT ![s] = "closed"]
  /\ panicked' = (panicked \/ chan[s] = "closed")
  /\ UNCHANGED <<subs, buf, taken, busy, peer, writer, readers, todo, seq>>
-----------------------------------------------------------------------------
(* Publish. *)

BeginPublish(p) ==
  /\ p \notin readers
  /\ writer = None
  /\ seq[p] <= MaxEvents
  /\ readers' = readers \cup {p}
  /\ todo' = [todo EXCEPT ![p] = subs]
  /\ UNCHANGED <<pc, subs, chan, buf, taken, busy, peer, writer, seq, panicked>>

\* Mutant: a subscription's events in a slice without a limit.
Room_Always(s) == TRUE

Room(s) == Len(buf[s]) < Cap

\* Mutant: a channel that is offered the event again.
Remaining_Same(p, s) == todo

Remaining(p, s) == [todo EXCEPT ![p] = @ \ {s}]

\* Mutant: a plain send, which waits for room.
Offer_Waits(p, s) ==
  /\ p \in readers
  /\ s \in todo[p]
  /\ Room(s)
  /\ todo' = Remaining(p, s)
  /\ buf' = [buf EXCEPT ![s] = Append(@, <<p, seq[p]>>)]
  /\ UNCHANGED <<pc, subs, chan, taken, busy, peer, writer, readers, seq, panicked>>

\* One iteration of the range loop: the non-blocking send of select/default.
Offer(p, s) ==
  /\ p \in readers
  /\ s \in todo[p]
  /\ todo' = Remaining(p, s)
  /\ panicked' = (panicked \/ chan[s] = "closed")
  /\ buf' = IF chan[s] = "open" /\ Room(s)
            THEN [buf EXCEPT ![s] = Append(@, <<p, seq[p]>>)]
            ELSE buf
  /\ UNCHANGED <<pc, subs, chan, taken, busy, peer, writer, readers, seq>>

EndPublish(p) ==
  /\ p \in readers
  /\ todo[p] = {}
  /\ readers' = readers \ {p}
  /\ seq' = [seq EXCEPT ![p] = @ + 1]
  /\ UNCHANGED <<pc, subs, chan, buf, taken, busy, peer, writer, todo, panicked>>
-----------------------------------------------------------------------------
(* The reading side. A handler reads until it decides to leave; a          *)
(* forwarder's range loop goes on over what a closed channel still holds.  *)

Reading(s) == pc[s] = "live" \/ (s \in FwdSub /\ pc[s] # "idle")

Receive(s) ==
  /\ Reading(s)
  /\ s \notin busy
  /\ buf[s] # <<>>
  /\ taken' = [taken EXCEPT ![s] = Append(@, Head(buf[s]))]
  /\ buf' = [buf EXCEPT ![s] = Tail(@)]
  /\ busy' = busy \cup {s}
  /\ UNCHANGED <<pc, subs, chan, peer, writer, readers, todo, seq, panicked>>

\* Mutant: handleTail drops the result of Encode.
AfterWrite_Ignored(s) == pc

\* handleTail leaves on an error; the SSE handlers and the forwarders ignore it.
AfterWrite(s) ==
  IF s \in TailSub /\ s \notin peer THEN [pc EXCEPT ![s] = "leaving"] ELSE pc

\* The write returns.
Written(s) ==
  /\ s \in busy
  /\ busy' = busy \ {s}
  /\ pc' = AfterWrite(s)
  /\ UNCHANGED <<subs, chan, buf, taken, peer, writer, readers, todo, seq, panicked>>

\* The context case of the SSE handlers' select.
NoticeGone(s) ==
  /\ s \in SseSub
  /\ pc[s] = "live"
  /\ s \notin busy
  /\ s \notin peer
  /\ pc' = [pc EXCEPT ![s] = "leaving"]
  /\ UNCHANGED <<subs, chan, buf, taken, busy, peer, writer, readers, todo, seq, panicked>>

\* main unsubscribes a forwarder's channel when stdin ends.
HangUp(s) ==
  /\ s \in FwdSub
  /\ pc[s] = "live"
  /\ pc' = [pc EXCEPT ![s] = "leaving"]
  /\ UNCHANGED <<subs, chan, buf, taken, busy, peer, writer, readers, todo, seq, panicked>>

\* The environment: a client goes away.
Disconnect(s) ==
  /\ s \in TailSub \cup SseSub
  /\ pc[s] = "live"
  /\ s \in peer
  /\ peer' = peer \ {s}
  /\ UNCHANGED <<pc, subs, chan, buf, taken, busy, writer, readers, todo, seq, panicked>>
\* Nobody has anything left to do: only a tail handler whose client is gone
\* may still be there, waiting for an event to tell it so.
Quiet ==
  /\ \A p \in Pub : p \notin readers /\ seq[p] > MaxEvents
  /\ \A s \in Sub :
       /\ s \notin busy
       /\ \/ pc[s] = "done" /\ (s \in FwdSub => buf[s] = <<>>)
          \/ s \in TailSub \ peer /\ pc[s] = "live" /\ buf[s] = <<>>
  /\ UNCHANGED vars
-----------------------------------------------------------------------------
Next ==
  \/ \E s \in Sub :
       \/ Lock(s) \/ Subscribe(s) \/ Unsubscribe(s) \/ CloseChan(s)
       \/ Receive(s) \/ Written(s) \/ NoticeGone(s) \/ HangUp(s) \/ Disconnect(s)
  \/ \E p \in Pub : BeginPublish(p) \/ EndPublish(p)
  \/ \E p \in Pub, s \in Sub : Offer(p, s)
  \/ Quiet

Spec == Init /\ [][Next]_vars

(***************************************************************************)
(* A goroutine that can run does run. Nothing is assumed of clients: they  *)
(* may never connect, never leave, and hold up a write for ever while they *)
(* stay connected, so Written is fair only for a client that is gone (the  *)
(* write then fails). Nothing is assumed of a forwarder's POST either: the *)
(* process may end before it returns (Pipe).                               *)
(***************************************************************************)
Fairness ==
  /\ \A s \in Sub :
       /\ WF_vars(Lock(s) /\ pc[s] = "leaving")
       /\ WF_vars(Subscribe(s))
       /\ WF_vars(Unsubscribe(s))
       /\ WF_vars(CloseChan(s))
       /\ WF_vars(NoticeGone(s))
       /\ WF_vars(Receive(s))
       /\ WF_vars(Written(s) /\ s \notin peer)
  /\ \A p \in Pub :
       /\ WF_vars(\E s \in Sub : Offer(p, s))
       /\ WF_vars(EndPublish(p))

FairSpec == Spec /\ Fairness
-----------------------------------------------------------------------------
(* Properties *)

TypeOK ==
  /\ pc \in [Sub -> Phase]
  /\ subs \subseteq Sub
  /\ chan \in [Sub -> {"nil", "open", "closed"}]
  /\ buf \in [Sub -> Seq(Event)]
  /\ \A s \in Sub : Len(buf[s]) <= Cap
  /\ taken \in [Sub -> Seq(Event)]
  /\ busy \subseteq Sub
  /\ peer \subseteq Sub
  /\ writer \in Sub \cup {None}
  /\ readers \subseteq Pub
  /\ todo \in [Pub -> SUBSET Sub]
  /\ seq \in [Pub -> Nat]
  /\ panicked \in BOOLEAN

\* No interleaving of publishing, subscribing and hanging up sends on a
\* closed channel or closes one twice, either of which would end the process.
\* Unsubscribe closes after it has let go of the lock; what makes that safe
\* is that no publisher still holds a snapshot of subs with the channel in it.
NoPanic == ~panicked

\* The strengthening of NoPanic that every step preserves.
LockDiscipline ==
  /\ subs = {s \in Sub : pc[s] \in {"live", "leaving"}}
  /\ \A s \in Sub : chan[s] = "closed" <=> pc[s] = "done"
  /\ \A s \in Sub : chan[s] = "nil" <=> pc[s] = "idle"
  /\ \A p \in Pub : todo[p] \subseteq subs
  /\ \A p \in Pub \ readers : todo[p] = {}
  /\ writer # None => pc[writer] \in {"idle", "leaving"}
  /\ \A s \in busy \ FwdSub : pc[s] = "live"

Feed(s) == taken[s] \o buf[s]

\* Whatever a slow reader loses, what it does get from one publisher is in
\* the order of publication and has no duplicates. (Of two publishers this
\* does not hold: their loops over the subscribers run at the same time.)
FeedOrdered ==
  \A s \in Sub : \A i, j \in 1..Len(Feed(s)) :
    i < j /\ Feed(s)[i][1] = Feed(s)[j][1] => Feed(s)[i][2] < Feed(s)[j][2]

\* The broker and its users implement the best-effort broadcast: the locks
\* give every broadcast one membership from its beginning to its end.
Abs == INSTANCE FanOut WITH
  live <- subs,
  left <- {s \in Sub : pc[s] \in {"removed", "done"}},
  active <- readers,
  owed <- todo,
  feed <- [s \in Sub |-> Feed(s)],
  seen <- [s \in Sub |-> Len(taken[s])]

IsFanOut == Abs!Spec

\* Publish always returns, whatever the clients do: a reader that has stopped
\* reading costs itself events, never the pipeline its progress.
PublishCompletes == \A p \in Pub : p \in readers ~> p \notin readers

\* The subscription of a client that has gone is given back: by an SSE
\* handler in any case, by a tail handler once an event is there to be written.
DeadClientReaped ==
  \A s \in TailSub \cup SseSub :
    (/\ pc[s] = "live"
     /\ s \notin peer
     /\ s \in TailSub => buf[s] # <<>>) ~> pc[s] = "done"
=============================================================================
