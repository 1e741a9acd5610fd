---------------------------- MODULE QueueLemmas ----------------------------
(***************************************************************************)
(* What a channel, and a goroutine's hand, hold after a send or a receive. *)
(* Channels are sequences in every module of the project that has them, so *)
(* the proofs share these facts.                                           *)
(***************************************************************************)
EXTENDS Integers, Sequences, SequenceTheorems, TLAPS

\* A send to a channel c.
LEMMA Sent ==
  ASSUME NEW S, NEW c \in Seq(S), NEW e \in S
  PROVE  /\ Append(c, e) \in Seq(S)
         /\ Append(c, e) # <<>>
         /\ Len(c) \in Nat
         /\ Len(Append(c, e)) = Len(c) + 1
         /\ \A k \in 1..Len(c) : Append(c, e)[k] = c[k]
         /\ Append(c, e)[Len(c) + 1] = e
  BY AppendProperties, LenProperties

\* A receive from a channel c that is not empty.
LEMMA Taken ==
  ASSUME NEW S, NEW c \in Seq(S), c # <<>>
  PROVE  /\ Head(c) \in S
         /\ Head(c) = c[1]
         /\ Tail(c) \in Seq(S)
         /\ Len(c) \in Nat \ {0}
         /\ Len(Tail(c)) = Len(c) - 1
         /\ \A k \in 1..Len(Tail(c)) : Tail(c)[k] = c[k + 1]
<1>1. Len(c) \in Nat \ {0}
  BY EmptySeq
<1>2. c = SubSeq(c, 1, Len(c))
  BY SubSeqFull
<1>3. Head(c) = c[1]
  BY <1>1, <1>2, HeadTailOfSubSeq
<1> QED
  BY <1>1, <1>3, HeadTailProperties

\* What was received is in hand.
LEMMA Held ==
  ASSUME NEW S, NEW x \in S
  PROVE  <<x>> \in Seq(S) /\ <<x>> # <<>> /\ Len(<<x>>) = 1 /\ <<x>>[1] = x
  OBVIOUS

\* An empty channel or hand.
LEMMA Empty ==
  ASSUME NEW S
  PROVE  <<>> \in Seq(S) /\ Len(<<>>) = 0
  BY EmptySeq

\* A hand that is not empty holds one element.
LEMMA Holding ==
  ASSUME NEW S, NEW h \in Seq(S), h # <<>>, Len(h) <= 1
  PROVE  h[1] \in S /\ Len(h) = 1
<1>1. Len(h) \in Nat \ {0} /\ h \in [1..Len(h) -> S]
  BY EmptySeq, LenProperties
<1> QED
  BY <1>1

\* The elements of two pieces that are put together.
LEMMA Joined ==
  ASSUME NEW S, NEW a \in Seq(S), NEW b \in Seq(S)
  PROVE  /\ a \o b \in Seq(S)
         /\ Len(a) \in Nat /\ Len(b) \in Nat
         /\ Len(a \o b) = Len(a) + Len(b)
         /\ \A k \in 1..Len(a) : (a \o b)[k] = a[k]
         /\ \A k \in 1..Len(b) : (a \o b)[Len(a) + k] = b[k]
<1>1. /\ Len(a) \in Nat /\ Len(b) \in Nat
  BY LenProperties
<1>2. \A i \in 1..Len(a) + Len(b) : (a \o b)[i] = IF i <= Len(a) THEN a[i] ELSE b[i - Len(a)]
  BY ConcatProperties
<1>3. \A k \in 1..Len(a) : (a \o b)[k] = a[k]
  BY <1>1, <1>2
<1>4. ASSUME NEW k \in 1..Len(b) PROVE (a \o b)[Len(a) + k] = b[k]
  <2>1. Len(a) + k \in 1..Len(a) + Len(b) /\ ~(Len(a) + k <= Len(a)) /\ (Len(a) + k) - Len(a) = k
    BY <1>1
  <2> QED
    BY <1>2, <2>1
<1> QED
  BY <1>1, <1>3, <1>4, ConcatProperties

\* A piece cut out of a sequence.
LEMMA Cut ==
  ASSUME NEW S, NEW c \in Seq(S), NEW m \in Nat, NEW n \in Nat, m + n <= Len(c)
  PROVE  /\ SubSeq(c, m + 1, m + n) \in Seq(S)
         /\ Len(SubSeq(c, m + 1, m + n)) = n
         /\ \A k \in 1..n : SubSeq(c, m + 1, m + n)[k] = c[m + k]
<1>1. c \in [1..Len(c) -> S] /\ Len(c) \in Nat
  BY LenProperties
<1>2. m + 1 \in Int /\ m + n \in Int /\ \A i \in (m + 1)..(m + n) : c[i] \in S
  BY <1>1
<1>3. /\ SubSeq(c, m + 1, m + n) \in Seq(S)
      /\ Len(SubSeq(c, m + 1, m + n)) = IF m + 1 <= m + n THEN (m + n) - (m + 1) + 1 ELSE 0
      /\ \A i \in 1..(m + n) - (m + 1) + 1 : SubSeq(c, m + 1, m + n)[i] = c[(m + 1) + i - 1]
  BY <1>2, SubSeqProperties
<1>4. \A k \in 1..n : k \in 1..(m + n) - (m + 1) + 1 /\ (m + 1) + k - 1 = m + k
  OBVIOUS
<1>5. Len(SubSeq(c, m + 1, m + n)) = n
  BY <1>3
<1>6. \A k \in 1..n : SubSeq(c, m + 1, m + n)[k] = c[m + k]
  BY <1>3, <1>4
<1> QED
  BY <1>3, <1>5, <1>6
=============================================================================
