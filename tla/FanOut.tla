------------------------------- MODULE FanOut -------------------------------
(***************************************************************************)
(* What a Broker promises its users, with no lock, channel or connection:  *)
(* a best-effort broadcast.                                                *)
(*                                                                         *)
(*  - Membership changes only between broadcasts, so a broadcast owes      *)
(*    every subscriber that was live when it began, and nobody else.       *)
(*  - Each owed subscriber is settled exactly once: it gets the event when *)
(*    it has fewer than Cap unread events and misses it otherwise.         *)
(*  - Broadcasts by different publishers may overlap, so two subscribers   *)
(*    may see them in different orders.                                    *)
(***************************************************************************)
EXTENDS Naturals, Sequences

CONSTANTS
  Sub,        \* the subscriptions ever made
  Pub,        \* the goroutines that publish
  Cap,        \* unread events a subscription can hold
  MaxEvents   \* events each publisher may publish

VARIABLES
  live,       \* the current subscriptions
  left,       \* the subscriptions that have ended
  active,     \* the publishers in the middle of a broadcast
  owed,       \* per publisher, the subscriptions its broadcast has not settled
  seq,        \* per publisher, the number of its current or next event
  feed,       \* per subscription, every event it was given
  seen        \* per subscription, how many events of its feed were read

vars == <<live, left, active, owed, seq, feed, seen>>

Init ==
  /\ live = {}
  /\ left = {}
  /\ active = {}
  /\ owed = [p \in Pub |-> {}]
  /\ seq = [p \in Pub |-> 1]
  /\ feed = [s \in Sub |-> <<>>]
  /\ seen = [s \in Sub |-> 0]

Join(s) ==
  /\ active = {}
  /\ s \notin live \cup left
  /\ live' = live \cup {s}
  /\ UNCHANGED <<left, active, owed, seq, feed, seen>>

Leave(s) ==
  /\ active = {}
  /\ s \in live
  /\ live' = live \ {s}
  /\ left' = left \cup {s}
  /\ UNCHANGED <<active, owed, seq, feed, seen>>

Begin(p) ==
  /\ p \notin active
  /\ seq[p] <= MaxEvents
  /\ active' = active \cup {p}
  /\ owed' = [owed EXCEPT ![p] = live]
  /\ UNCHANGED <<live, left, seq, feed, seen>>

Settle(p, s) ==
  /\ p \in active
  /\ s \in owed[p]
  /\ owed' = [owed EXCEPT ![p] = @ \ {s}]
  /\ feed' = IF Len(feed[s]) - seen[s] < Cap
             THEN [feed EXCEPT ![s] = Append(@, <<p, seq[p]>>)]
             ELSE feed
  /\ UNCHANGED <<live, left, active, seq, seen>>

End(p) ==
  /\ p \in active
  /\ owed[p] = {}
  /\ active' = active \ {p}
  /\ seq' = [seq EXCEPT ![p] = @ + 1]
  /\ UNCHANGED <<live, left, owed, feed, seen>>

Read(s) ==
  /\ seen[s] < Len(feed[s])
  /\ seen' = [seen EXCEPT ![s] = @ + 1]
  /\ UNCHANGED <<live, left, active, owed, seq, feed>>

Next ==
  \/ \E s \in Sub : Join(s) \/ Leave(s) \/ Read(s)
  \/ \E p \in Pub : Begin(p) \/ End(p)
  \/ \E p \in Pub, s \in Sub : Settle(p, s)

Spec == Init /\ [][Next]_vars
=============================================================================
