----------------------------- MODULE PipeProofs -----------------------------
(***************************************************************************)
(* Theorems about the end of pipe mode, for any number of lines, any       *)
(* alerts, any sizes of the channels and of the batches, and whether or    *)
(* not the stages are done within the sleep.                               *)
(***************************************************************************)
EXTENDS Pipe, QueueLemmas, FiniteSetTheorems

\* TypeOK bounds the counters by each other only.
Counters ==
  /\ read \in Nat /\ parsed \in Nat /\ teed \in Nat /\ logged \in Nat
  /\ matched \in Nat /\ published \in Nat /\ acted \in Nat

\* What the log forwarder's control says of its batch, and main's of the hub.
Places ==
  /\ ~flushing => Len(batch) < BatchMax
  /\ flushing => batch # <<>>
  /\ main \in {"select", "sleep"} => hub = {} \/ "logs" \in hub
  /\ main = "hangup" => "logs" \in hub
  /\ main \in {"wait", "flushed", "timedout"} => hub = {}
  /\ forwardDone => hub = {} /\ logCh = <<>> /\ batch = <<>>
  /\ main = "flushed" => forwardDone

Typed == TypeOK /\ Counters /\ Places

\* Three pieces, one behind the other, of a growing sequence of numbers up to n.
Before(a, b) == \A i \in 1..Len(a) : \A j \in 1..Len(b) : a[i] < b[j]

Upto(s, n) == \A i \in 1..Len(s) : s[i] <= n

InLine(a, b, c, n) ==
  /\ Increasing(a) /\ Increasing(b) /\ Increasing(c)
  /\ Before(a, b) /\ Before(a, c) /\ Before(b, c)
  /\ Upto(a, n) /\ Upto(b, n) /\ Upto(c, n)

\* What the daemon got, what a forwarder has in hand and what its channel holds.
Ordered ==
  /\ InLine(gotLogs, batch, logCh, logged)
  /\ InLine(gotAlerts, posting, alertCh, published)

\* How many of the published log events the forwarder could hear.
Heard == IF "logs" \in hub THEN logged ELSE cut

\* Of those each is at the daemon or on its way, or was dropped.
Accounted ==
  /\ \A d \in dropped : d[1] = "logs" => d[2] <= Heard
  /\ daemon => Elements(gotLogs) \cup Elements(batch) \cup Elements(logCh)
                 = {l \in 1..Heard : <<"logs", l>> \notin dropped}
-----------------------------------------------------------------------------
(* Pieces in line *)

\* Where an element of two pieces put together comes from.
LEMMA JoinedPart ==
  ASSUME NEW a \in Seq(Nat), NEW b \in Seq(Nat), NEW i \in 1..Len(a \o b)
  PROVE  \/ i \in 1..Len(a) /\ (a \o b)[i] = a[i]
         \/ \E k \in 1..Len(b) : i = Len(a) + k /\ (a \o b)[i] = b[k]
<1>1. /\ Len(a) \in Nat /\ Len(b) \in Nat
      /\ Len(a \o b) = Len(a) + Len(b)
      /\ \A k \in 1..Len(a) : (a \o b)[k] = a[k]
      /\ \A k \in 1..Len(b) : (a \o b)[Len(a) + k] = b[k]
  BY Joined
<1>2. CASE i <= Len(a)
  BY <1>1, <1>2
<1>3. CASE ~(i <= Len(a))
  <2>1. i - Len(a) \in 1..Len(b) /\ i = Len(a) + (i - Len(a))
    BY <1>1, <1>3
  <2> QED
    BY <1>1, <2>1
<1> QED
  BY <1>2, <1>3

\* Two growing pieces of which one is before the other are a growing one.
LEMMA JoinedGrows ==
  ASSUME NEW a \in Seq(Nat), NEW b \in Seq(Nat), Increasing(a), Increasing(b), Before(a, b)
  PROVE  Increasing(a \o b)
<1> DEFINE d == a \o b
<1>1. \A i \in 1..Len(d) : \/ i \in 1..Len(a) /\ d[i] = a[i]
                           \/ \E k \in 1..Len(b) : i = Len(a) + k /\ d[i] = b[k]
  BY JoinedPart
<1>2. Len(a) \in Nat /\ Len(b) \in Nat
  BY LenProperties
<1> HIDE DEF d
<1>3. ASSUME NEW i \in 1..Len(d), NEW j \in 1..Len(d), i < j PROVE d[i] < d[j]
  <2>1. CASE i \in 1..Len(a) /\ d[i] = a[i]
    <3>1. CASE j \in 1..Len(a) /\ d[j] = a[j]
      BY <1>3, <2>1, <3>1 DEF Increasing
    <3>2. CASE \E k \in 1..Len(b) : j = Len(a) + k /\ d[j] = b[k]
      BY <2>1, <3>2 DEF Before
    <3> QED
      BY <1>1, <3>1, <3>2
  <2>2. CASE \E k \in 1..Len(b) : i = Len(a) + k /\ d[i] = b[k]
    <3>1. PICK k \in 1..Len(b) : i = Len(a) + k /\ d[i] = b[k]
      BY <2>2
    <3>2. PICK l \in 1..Len(b) : j = Len(a) + l /\ d[j] = b[l]
      BY <1>1, <1>2, <1>3, <3>1
    <3>3. k < l
      BY <1>2, <1>3, <3>1, <3>2
    <3> QED
      BY <3>1, <3>2, <3>3 DEF Increasing
  <2> QED
    BY <1>1, <2>1, <2>2
<1> QED
  BY <1>3 DEF Increasing, d

\* Put together, the pieces are one growing sequence.
LEMMA LineUp ==
  ASSUME NEW a \in Seq(Nat), NEW b \in Seq(Nat), NEW c \in Seq(Nat), NEW n, InLine(a, b, c, n)
  PROVE  Increasing(a \o b \o c)
<1>1. /\ Increasing(a) /\ Increasing(b) /\ Increasing(c)
      /\ Before(a, b) /\ Before(a, c) /\ Before(b, c)
  BY DEF InLine
<1>2. a \o b \in Seq(Nat) /\ Increasing(a \o b)
  BY <1>1, Joined, JoinedGrows
<1>3. Before(a \o b, c)
  BY <1>1, JoinedPart DEF Before
<1> QED
  BY <1>1, <1>2, <1>3, JoinedGrows

\* A larger number at the end.
LEMMA LineEnd ==
  ASSUME NEW c \in Seq(Nat), NEW x \in Nat, \A i \in 1..Len(c) : c[i] < x, Increasing(c)
  PROVE  Increasing(Append(c, x))
<1> DEFINE d == Append(c, x)
<1>1. /\ Len(c) \in Nat /\ Len(d) = Len(c) + 1
      /\ \A k \in 1..Len(c) : d[k] = c[k]
      /\ d[Len(c) + 1] = x
  BY Sent
<1> HIDE DEF d
<1>2. ASSUME NEW i \in 1..Len(d), NEW j \in 1..Len(d), i < j PROVE d[i] < d[j]
  <2>1. i \in 1..Len(c) /\ d[i] = c[i]
    BY <1>1, <1>2
  <2>2. CASE j \in 1..Len(c)
    BY <1>1, <1>2, <2>1, <2>2 DEF Increasing
  <2>3. CASE j = Len(c) + 1
    BY <1>1, <2>1, <2>3
  <2> QED
    BY <1>1, <2>2, <2>3
<1> QED
  BY <1>2 DEF Increasing, d

\* A number that comes before a piece, at the end of one that does.
LEMMA EndBefore ==
  ASSUME NEW a \in Seq(Nat), NEW c \in Seq(Nat), NEW x \in Nat,
         Before(a, c), \A j \in 1..Len(c) : x < c[j]
  PROVE  Before(Append(a, x), c)
<1> DEFINE d == Append(a, x)
<1>1. /\ Len(a) \in Nat /\ Len(d) = Len(a) + 1
      /\ \A k \in 1..Len(a) : d[k] = a[k]
      /\ d[Len(a) + 1] = x
  BY Sent
<1> HIDE DEF d
<1>2. ASSUME NEW i \in 1..Len(d), NEW j \in 1..Len(c) PROVE d[i] < c[j]
  <2>1. CASE i \in 1..Len(a)
    BY <1>1, <2>1 DEF Before
  <2>2. CASE i = Len(a) + 1
    BY <1>1, <2>2
  <2>3. i \in 1..Len(a) \/ i = Len(a) + 1
    BY <1>1
  <2> QED
    BY <2>1, <2>2, <2>3
<1> QED
  BY <1>2 DEF Before, d

\* A number that comes after a piece, at the end of one that does.
LEMMA BeforeEnd ==
  ASSUME NEW a \in Seq(Nat), NEW c \in Seq(Nat), NEW x \in Nat,
         Before(a, c), \A i \in 1..Len(a) : a[i] < x
  PROVE  Before(a, Append(c, x))
<1> DEFINE d == Append(c, x)
<1>1. /\ Len(c) \in Nat /\ Len(d) = Len(c) + 1
      /\ \A k \in 1..Len(c) : d[k] = c[k]
      /\ d[Len(c) + 1] = x
  BY Sent
<1> HIDE DEF d
<1>2. ASSUME NEW i \in 1..Len(a), NEW j \in 1..Len(d) PROVE a[i] < d[j]
  <2>1. CASE j \in 1..Len(c)
    BY <1>1, <2>1 DEF Before
  <2>2. CASE j = Len(c) + 1
    BY <1>1, <2>2
  <2>3. j \in 1..Len(c) \/ j = Len(c) + 1
    BY <1>1
  <2> QED
    BY <2>1, <2>2, <2>3
<1> QED
  BY <1>2 DEF Before, d

\* A bounded number at the end.
LEMMA UptoEnd ==
  ASSUME NEW c \in Seq(Nat), NEW x \in Nat, NEW n \in Nat, Upto(c, n), x <= n
  PROVE  Upto(Append(c, x), n)
<1> DEFINE d == Append(c, x)
<1>1. /\ Len(c) \in Nat /\ Len(d) = Len(c) + 1
      /\ \A k \in 1..Len(c) : d[k] = c[k]
      /\ d[Len(c) + 1] = x
  BY Sent
<1> HIDE DEF d
<1>2. \A i \in 1..Len(d) : i \in 1..Len(c) \/ i = Len(c) + 1
  BY <1>1
<1>3. \A i \in 1..Len(d) : d[i] <= n
  BY <1>1, <1>2 DEF Upto
<1> QED
  BY <1>3 DEF Upto, d

\* A piece without its first element.
LEMMA LineTail ==
  ASSUME NEW c \in Seq(Nat), c # <<>>
  PROVE  /\ Head(c) \in Nat /\ Head(c) = c[1] /\ 1 \in 1..Len(c)
         /\ Tail(c) \in Seq(Nat)
         /\ \A k \in 1..Len(Tail(c)) : Tail(c)[k] = c[k + 1] /\ k + 1 \in 1..Len(c)
         /\ Increasing(c) =>
              Increasing(Tail(c)) /\ \A k \in 1..Len(Tail(c)) : Head(c) < Tail(c)[k]
         /\ \A n : Upto(c, n) => Upto(Tail(c), n) /\ Head(c) <= n
         /\ \A a : Before(a, c) => Before(a, Tail(c)) /\ \A i \in 1..Len(a) : a[i] < Head(c)
         /\ \A b : Before(c, b) => Before(Tail(c), b) /\ \A j \in 1..Len(b) : Head(c) < b[j]
<1>1. /\ Len(c) \in Nat \ {0}
      /\ Head(c) \in Nat /\ Head(c) = c[1] /\ Len(Tail(c)) = Len(c) - 1
      /\ Tail(c) \in Seq(Nat)
      /\ \A k \in 1..Len(Tail(c)) : Tail(c)[k] = c[k + 1]
  BY Taken
<1>2. 1 \in 1..Len(c) /\ \A k \in 1..Len(Tail(c)) : k + 1 \in 1..Len(c) /\ 1 < k + 1
  BY <1>1
<1>3. Increasing(c) => Increasing(Tail(c)) /\ \A k \in 1..Len(Tail(c)) : Head(c) < Tail(c)[k]
  BY <1>1, <1>2 DEF Increasing
<1>4. \A n : Upto(c, n) => Upto(Tail(c), n) /\ Head(c) <= n
  BY <1>1, <1>2 DEF Upto
<1>5. \A a : Before(a, c) => Before(a, Tail(c)) /\ \A i \in 1..Len(a) : a[i] < Head(c)
  BY <1>1, <1>2 DEF Before
<1>6. \A b : Before(c, b) => Before(Tail(c), b) /\ \A j \in 1..Len(b) : Head(c) < b[j]
  BY <1>1, <1>2 DEF Before
<1> QED
  BY <1>1, <1>2, <1>3, <1>4, <1>5, <1>6

\* The forwarder takes what is first in its channel.
LEMMA LineTake ==
  ASSUME NEW a \in Seq(Nat), NEW b \in Seq(Nat), NEW c \in Seq(Nat), NEW n \in Nat,
         InLine(a, b, c, n), c # <<>>
  PROVE  InLine(a, Append(b, Head(c)), Tail(c), n)
<1>0. /\ Increasing(a) /\ Increasing(b) /\ Increasing(c)
      /\ Before(a, b) /\ Before(a, c) /\ Before(b, c)
      /\ Upto(a, n) /\ Upto(b, n) /\ Upto(c, n)
  BY DEF InLine
<1> DEFINE h == Head(c)
           t == Tail(c)
<1>1. /\ h \in Nat /\ t \in Seq(Nat) /\ Increasing(t) /\ Upto(t, n) /\ h <= n
      /\ \A k \in 1..Len(t) : h < t[k]
      /\ Before(a, t) /\ Before(b, t)
      /\ \A i \in 1..Len(a) : a[i] < h
      /\ \A i \in 1..Len(b) : b[i] < h
  BY <1>0, LineTail
<1> HIDE DEF h, t
<1>2. Increasing(Append(b, h)) /\ Upto(Append(b, h), n)
  BY <1>0, <1>1, LineEnd, UptoEnd
<1>3. Before(a, Append(b, h)) /\ Before(Append(b, h), t)
  BY <1>0, <1>1, BeforeEnd, EndBefore
<1>4. InLine(a, Append(b, h), t, n)
  BY <1>0, <1>1, <1>2, <1>3 DEF InLine
<1> QED
  BY <1>4 DEF h, t

\* The daemon gets what is first in hand.
LEMMA LineDeliver ==
  ASSUME NEW a \in Seq(Nat), NEW b \in Seq(Nat), NEW c \in Seq(Nat), NEW n \in Nat,
         InLine(a, b, c, n), b # <<>>
  PROVE  InLine(Append(a, Head(b)), Tail(b), c, n)
<1>0. /\ Increasing(a) /\ Increasing(b) /\ Increasing(c)
      /\ Before(a, b) /\ Before(a, c) /\ Before(b, c)
      /\ Upto(a, n) /\ Upto(b, n) /\ Upto(c, n)
  BY DEF InLine
<1> DEFINE h == Head(b)
           t == Tail(b)
<1>1. /\ h \in Nat /\ t \in Seq(Nat) /\ Increasing(t) /\ Upto(t, n) /\ h <= n
      /\ \A k \in 1..Len(t) : h < t[k]
      /\ Before(a, t) /\ Before(t, c)
      /\ \A i \in 1..Len(a) : a[i] < h
      /\ \A j \in 1..Len(c) : h < c[j]
  BY <1>0, LineTail
<1> HIDE DEF h, t
<1>2. Increasing(Append(a, h)) /\ Upto(Append(a, h), n)
  BY <1>0, <1>1, LineEnd, UptoEnd
<1>3. Before(Append(a, h), t) /\ Before(Append(a, h), c)
  BY <1>0, <1>1, EndBefore
<1>4. InLine(Append(a, h), t, c, n)
  BY <1>0, <1>1, <1>2, <1>3 DEF InLine
<1> QED
  BY <1>4 DEF h, t

\* What is first in hand is lost.
LEMMA LineLose ==
  ASSUME NEW a \in Seq(Nat), NEW b \in Seq(Nat), NEW c \in Seq(Nat), NEW n \in Nat,
         InLine(a, b, c, n), b # <<>>
  PROVE  InLine(a, Tail(b), c, n)
BY LineTail DEF InLine

\* The next event is published, and taken by the channel or not.
LEMMA LinePublish ==
  ASSUME NEW a \in Seq(Nat), NEW b \in Seq(Nat), NEW c \in Seq(Nat), NEW n \in Nat,
         InLine(a, b, c, n)
  PROVE  InLine(a, b, c, n + 1) /\ InLine(a, b, Append(c, n + 1), n + 1)
<1>0. /\ Increasing(a) /\ Increasing(b) /\ Increasing(c)
      /\ Before(a, b) /\ Before(a, c) /\ Before(b, c)
      /\ Upto(a, n) /\ Upto(b, n) /\ Upto(c, n)
  BY DEF InLine
<1>1. ASSUME NEW s \in Seq(Nat), Upto(s, n)
      PROVE  Upto(s, n + 1) /\ \A i \in 1..Len(s) : s[i] < n + 1
  <2>1. \A i \in 1..Len(s) : s[i] \in Nat /\ s[i] <= n
    BY <1>1, ElementOfSeq DEF Upto
  <2>2. \A i \in 1..Len(s) : s[i] < n + 1 /\ s[i] <= n + 1
    BY <2>1
  <2> QED
    BY <2>2 DEF Upto
<1>2. n + 1 \in Nat /\ n + 1 <= n + 1
  OBVIOUS
<1>3. Upto(a, n + 1) /\ Upto(b, n + 1) /\ Upto(c, n + 1) /\ Upto(Append(c, n + 1), n + 1)
  BY <1>0, <1>1, <1>2, UptoEnd
<1>4. Increasing(Append(c, n + 1))
  BY <1>0, <1>1, <1>2, LineEnd
<1>5. Before(a, Append(c, n + 1)) /\ Before(b, Append(c, n + 1))
  BY <1>0, <1>1, <1>2, BeforeEnd
<1> QED
  BY <1>0, <1>3, <1>4, <1>5 DEF InLine
-----------------------------------------------------------------------------
(* The types *)

\* How many alerts the first lines raise.
LEMMA Firing ==
  ASSUME NEW n \in Nat
  PROVE  /\ Fired(n) \in Nat /\ Fired(n) <= MaxLines
         /\ Fired(n) <= Fired(n + 1)
<1> DEFINE F(m) == {l \in Alerting : l <= m}
<1>1. IsFiniteSet(1..MaxLines) /\ Cardinality(1..MaxLines) = MaxLines
  BY PipeAssumption, FS_Interval
<1>2. F(n) \subseteq F(n + 1) /\ F(n + 1) \subseteq 1..MaxLines
  <2>1. \A l \in Alerting : l \in Nat /\ l \in 1..MaxLines
    BY PipeAssumption
  <2>2. \A l \in Alerting : l <= n => l <= n + 1
    BY <2>1
  <2> QED
    BY <2>1, <2>2
<1>3. /\ IsFiniteSet(F(n)) /\ IsFiniteSet(F(n + 1))
      /\ Cardinality(F(n)) <= Cardinality(F(n + 1))
      /\ Cardinality(F(n)) <= MaxLines
  BY <1>1, <1>2, FS_Subset, ZenonT(60)
<1>4. Cardinality(F(n)) \in Nat
  BY <1>3, FS_CardinalityType
<1> QED
  BY <1>3, <1>4 DEF Fired

\* All counters are zero and all channels empty at the start.
LEMMA TypeInit == Init => Typed
<1> SUFFICES ASSUME Init PROVE Typed
  OBVIOUS
<1>1. /\ \A S : <<>> \in Seq(S)
      /\ Len(<<>>) = 0
  BY Empty
<1>2. published <= Fired(matched)
  <2>1. Fired(0) \in Nat
    BY Firing
  <2>2. 0 <= Fired(0)
    BY <2>1
  <2> QED
    BY <2>2 DEF Init
<1>3. TypeOK
  <2>1. /\ given = 0 /\ read = 0 /\ parsed = 0 /\ teed = 0 /\ logged = 0 /\ matched = 0
        /\ published = 0 /\ acted = 0 /\ cut = 0 /\ eof \in BOOLEAN
    BY Zenon DEF Init
  <2>2. /\ alertCh \in Seq(Line) /\ Len(alertCh) <= ForwardCap
        /\ logCh \in Seq(Line) /\ Len(logCh) <= ForwardCap
        /\ posting \in Seq(Line) /\ Len(posting) <= 1
        /\ batch \in Seq(Line) /\ Len(batch) <= BatchMax
        /\ gotAlerts \in Seq(Line) /\ gotLogs \in Seq(Line)
    BY <1>1, PipeAssumption DEF Init
  <2>3. /\ hub \subseteq {"alerts", "logs"} /\ daemon \in BOOLEAN
        /\ flushing \in BOOLEAN /\ forwardDone \in BOOLEAN
        /\ dropped \subseteq {"alerts", "logs"} \X Line
        /\ main \in {"select", "sleep", "hangup", "wait"}
    BY DEF Init
  <2> QED
    BY <1>2, <2>1, <2>2, <2>3, PipeAssumption DEF TypeOK
<1> QED
  BY <1>1, <1>3, PipeAssumption DEF Init, Typed, Counters, Places

\* What TypeOK says of the numbers, next to Counters.
LEMMA Numbers ==
  ASSUME Typed
  PROVE  /\ given \in 0..MaxLines /\ MaxLines \in Nat
         /\ matched <= teed /\ teed <= parsed /\ parsed <= read /\ read <= given
         /\ logged <= given
         /\ Fired(matched) \in Nat /\ Fired(matched) <= MaxLines
         /\ published <= Fired(matched)
<1>1. /\ given \in 0..MaxLines /\ MaxLines \in Nat
      /\ matched <= teed /\ teed <= parsed /\ parsed <= read /\ read <= given
      /\ published <= Fired(matched) /\ logged \in {teed, teed - 1}
      /\ matched \in Nat /\ teed \in Nat /\ parsed \in Nat /\ read \in Nat /\ logged \in Nat
  BY PipeAssumption DEF Typed, TypeOK, Counters
<1>2. Fired(matched) \in Nat /\ Fired(matched) <= MaxLines
  BY <1>1, Firing
<1>3. logged <= given
  BY <1>1
<1> QED
  BY <1>1, <1>2, <1>3

\* The environment and the stages.
LEMMA TypeStages ==
  ASSUME Typed, Environment \/ Stage
  PROVE  Typed'
<1>n. /\ given \in 0..MaxLines /\ MaxLines \in Nat
      /\ matched <= teed /\ teed <= parsed /\ parsed <= read /\ read <= given
      /\ logged <= given /\ Fired(matched) \in Nat /\ Fired(matched) <= MaxLines
      /\ published <= Fired(matched)
      /\ read \in Nat /\ parsed \in Nat /\ teed \in Nat /\ logged \in Nat
      /\ matched \in Nat /\ published \in Nat /\ acted \in Nat
  BY Numbers DEF Typed, Counters
<1>1. CASE Give
  <2>1. given' \in 0..MaxLines /\ read <= given'
    BY <1>1, <1>n DEF Give
  <2> QED
    BY <1>1, <2>1 DEF Give, stages, logSide, alertSide, Typed, TypeOK, Counters, Places, Ended
<1>2. CASE CloseStdin
  BY <1>2 DEF CloseStdin, stages, logSide, alertSide, Typed, TypeOK, Counters, Places, Ended,
              Fired
<1>10. CASE DaemonGoes
  BY <1>10 DEF DaemonGoes, stages, logSide, alertSide, Typed, TypeOK, Counters, Places, Ended,
               Fired
<1>11. CASE Interrupt
  BY <1>11 DEF Interrupt, Goto, stages, logSide, alertSide, Typed, TypeOK, Counters, Places,
               Ended, Fired
<1>3. CASE Read
  <2>1. read' = read + 1 /\ read' \in Nat /\ parsed <= read' /\ read' <= given
    BY <1>3, <1>n DEF Read
  <2> QED
    BY <1>3, <2>1 DEF Read, logSide, alertSide, Typed, TypeOK, Counters, Places, Ended
<1>4. CASE Parse
  <2>1. parsed' \in Nat /\ parsed' <= read /\ teed <= parsed'
    BY <1>4, <1>n DEF Parse
  <2> QED
    BY <1>4, <2>1 DEF Parse, logSide, alertSide, Typed, TypeOK, Counters, Places, Ended
<1>5. CASE Tee
  <2>1. teed' \in Nat /\ teed' <= parsed /\ matched <= teed' /\ logged = teed' - 1
    BY <1>5, <1>n DEF Tee
  <2> QED
    BY <1>5, <2>1 DEF Tee, logSide, alertSide, Typed, TypeOK, Counters, Places, Ended
<1>6. CASE TeePublish
  <2>1. /\ logged' = logged + 1 /\ logged' \in Nat /\ logged' = teed
        /\ UNCHANGED <<given, eof, read, parsed, teed, matched, published, acted, hub,
                       batch, flushing, forwardDone, gotLogs, alertCh, posting, gotAlerts,
                       cut, daemon, main>>
    BY <1>6, <1>n DEF TeePublish, alertSide, Typed, TypeOK
  <2>2. logged + 1 \in Line
    BY <2>1, <1>n DEF Line
  <2>3. \/ UNCHANGED logCh
        \/ logCh' = Append(logCh, logged + 1) /\ "logs" \in hub /\ Len(logCh) < ForwardCap
    BY <1>6 DEF TeePublish
  <2>4. logCh' \in Seq(Line) /\ Len(logCh') <= ForwardCap /\ (hub = {} => logCh' = logCh)
    <3>1. /\ logCh \in Seq(Line) /\ Len(logCh) <= ForwardCap /\ Len(logCh) \in Nat
          /\ ForwardCap \in Nat
      BY LenProperties, PipeAssumption DEF Typed, TypeOK
    <3>2. /\ Append(logCh, logged + 1) \in Seq(Line)
          /\ Len(Append(logCh, logged + 1)) = Len(logCh) + 1
      BY <2>2, <3>1, Sent
    <3>3. Len(logCh) < ForwardCap => Len(Append(logCh, logged + 1)) <= ForwardCap
      BY <3>1, <3>2
    <3> QED
      BY <2>3, <3>1, <3>2, <3>3
  <2>5. dropped' \subseteq {"alerts", "logs"} \X Line
    BY <1>6, <2>2 DEF TeePublish, Typed, TypeOK
  <2> QED
    BY <2>1, <2>4, <2>5 DEF Typed, TypeOK, Counters, Places, Ended
<1>7. CASE Match
  <2>1. matched' = matched + 1 /\ matched' \in Nat /\ matched' <= teed
    BY <1>7, <1>n DEF Match
  <2>2. Fired(matched') \in Nat /\ Fired(matched) <= Fired(matched')
    BY <2>1, <1>n, Firing
  <2>3. published <= Fired(matched')
    BY <2>2, <1>n
  <2>4. published <= Fired(matched)'
    BY <2>3 DEF Fired
  <2> QED
    BY <1>7, <2>1, <2>4 DEF Match, logSide, alertSide, Typed, TypeOK, Counters, Places, Ended
<1>8. CASE Dispatch
  <2>1. /\ published' = published + 1 /\ published' \in Nat /\ published' <= Fired(matched)
        /\ acted = published' - 1 /\ acted' = acted
        /\ UNCHANGED <<given, eof, read, parsed, teed, logged, matched, hub, logCh,
                       batch, flushing, forwardDone, gotLogs, posting, gotAlerts,
                       cut, daemon, main>>
    BY <1>8, <1>n DEF Dispatch, logSide
  <2>2. published + 1 \in Line
    BY <2>1, <1>n DEF Line
  <2>3. \/ UNCHANGED alertCh
        \/ alertCh' = Append(alertCh, published + 1) /\ Len(alertCh) < ForwardCap
    BY <1>8 DEF Dispatch
  <2>4. alertCh' \in Seq(Line) /\ Len(alertCh') <= ForwardCap
    <3>1. /\ alertCh \in Seq(Line) /\ Len(alertCh) <= ForwardCap /\ Len(alertCh) \in Nat
          /\ ForwardCap \in Nat
      BY LenProperties, PipeAssumption DEF Typed, TypeOK
    <3>2. /\ Append(alertCh, published + 1) \in Seq(Line)
          /\ Len(Append(alertCh, published + 1)) = Len(alertCh) + 1
      BY <2>2, <3>1, Sent
    <3>3. Len(alertCh) < ForwardCap => Len(Append(alertCh, published + 1)) <= ForwardCap
      BY <3>1, <3>2
    <3> QED
      BY <2>3, <3>1, <3>2, <3>3
  <2>5. dropped' \subseteq {"alerts", "logs"} \X Line
    BY <1>8, <2>2 DEF Dispatch, Typed, TypeOK
  <2>6. published' <= Fired(matched)'
    BY <2>1 DEF Fired
  <2> QED
    BY <2>1, <2>4, <2>5, <2>6 DEF Typed, TypeOK, Counters, Places, Ended
<1>9. CASE Acted
  <2>1. acted' = acted + 1 /\ acted' = published /\ acted' \in Nat
    BY <1>9, <1>n DEF Acted, Typed, TypeOK
  <2> QED
    BY <1>9, <2>1 DEF Acted, logSide, alertSide, Typed, TypeOK, Counters, Places, Ended
<1> QED
  BY <1>1, <1>2, <1>3, <1>4, <1>5, <1>6, <1>7, <1>8, <1>9, <1>10, <1>11 DEF Environment, Stage

\* The forwarders.
LEMMA TypeForwarders ==
  ASSUME Typed, Forwarders
  PROVE  Typed'
<1>1. CASE TakeAlert
  <2>1. /\ alertCh \in Seq(Line) /\ alertCh # <<>> /\ Len(alertCh) <= ForwardCap
        /\ posting' = <<Head(alertCh)>> /\ alertCh' = Tail(alertCh)
    BY <1>1 DEF TakeAlert, Typed, TypeOK
  <2>2. /\ posting' \in Seq(Line) /\ Len(posting') <= 1
        /\ alertCh' \in Seq(Line) /\ Len(alertCh') <= ForwardCap
    BY <2>1, Taken, Held, PipeAssumption
  <2> QED
    BY <1>1, <2>2 DEF TakeAlert, stages, logSide, Typed, TypeOK, Counters, Places, Ended, Fired
<1>2. CASE AlertPosted
  <2>1. gotAlerts' \in Seq(Line)
    BY <1>2, Joined DEF AlertPosted, Typed, TypeOK
  <2>2. posting' \in Seq(Line) /\ Len(posting') <= 1
    BY <1>2, Empty DEF AlertPosted
  <2> QED
    BY <1>2, <2>1, <2>2 DEF AlertPosted, stages, logSide, Typed, TypeOK, Counters, Places,
                            Ended, Fired
<1>3. CASE TakeLog
  <2>1. /\ logCh \in Seq(Line) /\ logCh # <<>> /\ Len(logCh) <= ForwardCap
        /\ batch \in Seq(Line) /\ Len(batch) < BatchMax /\ ~forwardDone
        /\ batch' = Append(batch, Head(logCh)) /\ logCh' = Tail(logCh)
    BY <1>3 DEF TakeLog, Collecting, Typed, TypeOK, Places
  <2>2. /\ batch' \in Seq(Line) /\ Len(batch') = Len(batch) + 1 /\ Len(batch) \in Nat
        /\ batch' # <<>>
        /\ logCh' \in Seq(Line) /\ Len(logCh') <= ForwardCap
    BY <2>1, Taken, Sent, PipeAssumption
  <2>3. /\ Len(batch') <= BatchMax /\ flushing' \in BOOLEAN
        /\ ~flushing' => Len(batch') < BatchMax
    <3>1. BatchMax \in Nat /\ Len(batch') \in Nat /\ Len(batch') <= BatchMax
      BY <2>1, <2>2, PipeAssumption
    <3>2. ~(Len(batch') >= BatchMax) => Len(batch') < BatchMax
      BY <3>1
    <3>3. flushing' = (Len(batch') >= BatchMax)
      BY <1>3, Zenon DEF TakeLog
    <3>4. flushing' \in BOOLEAN
      BY <3>1, <3>3
    <3>5. ~flushing' => ~(Len(batch') >= BatchMax)
      BY <3>3
    <3> QED
      BY <3>1, <3>2, <3>4, <3>5
  <2> QED
    BY <1>3, <2>1, <2>2, <2>3
       DEF TakeLog, stages, alertSide, Typed, TypeOK, Counters, Places, Ended, Fired
<1>4. CASE Ticker \/ LogClosed
  BY <1>4 DEF Ticker, LogClosed, Collecting, Closed, stages, alertSide, Typed, TypeOK,
              Counters, Places, Ended, Fired
<1>5. CASE LogPosted
  <2>1. /\ batch \in Seq(Line) /\ batch # <<>> /\ Len(batch) <= BatchMax /\ ~forwardDone
        /\ batch' = Tail(batch) /\ flushing' = (batch' # <<>>) /\ forwardDone' = forwardDone
        /\ gotLogs' = IF daemon THEN Append(gotLogs, Head(batch)) ELSE gotLogs
    BY <1>5 DEF LogPosted, Typed, TypeOK, Places
  <2>2. /\ batch' \in Seq(Line) /\ Len(batch') <= BatchMax /\ gotLogs' \in Seq(Line)
    BY <2>1, Taken, Sent, PipeAssumption DEF Typed, TypeOK
  <2>3. ~flushing' => Len(batch') < BatchMax
    BY <2>1, Empty, PipeAssumption
  <2>4. flushing' \in BOOLEAN /\ (flushing' => batch' # <<>>)
    BY <2>1
  <2>5. UNCHANGED <<given, eof, read, parsed, teed, logged, matched, published, acted, hub, logCh,
                    alertCh, posting, gotAlerts, dropped, cut, daemon, main>>
    BY <1>5 DEF LogPosted, stages, alertSide
  <2>6. TypeOK' /\ Counters'
    BY <2>1, <2>2, <2>4, <2>5 DEF Typed, TypeOK, Counters, Ended, Fired
  <2> QED
    BY <2>1, <2>3, <2>4, <2>5, <2>6 DEF Typed, Places
<1> QED
  BY <1>1, <1>2, <1>3, <1>4, <1>5 DEF Forwarders

\* The goroutine of cmdPipe.
LEMMA TypeMain ==
  ASSUME Typed, Main
  PROVE  Typed'
<1>1. UNCHANGED <<given, eof, read, parsed, teed, logged, matched, published, acted, alertCh,
                  posting, gotAlerts, logCh, batch, flushing, forwardDone, gotLogs,
                  dropped, daemon>>
  BY DEF Main, StdinDone, SleepEnds, HangUpAlerts, HangUpLogs, SeesDone, TimesOut, Goto,
         stages, logSide, alertSide
<1>2. cut' \in 0..MaxLines
  <2>1. cut' \in {cut, logged} /\ cut \in 0..MaxLines /\ logged \in Nat
    BY DEF Main, StdinDone, SleepEnds, HangUpAlerts, HangUpLogs, SeesDone, TimesOut,
           Typed, TypeOK, Counters
  <2> QED
    BY <2>1, Numbers
<1>3. hub' \subseteq {"alerts", "logs"}
  BY DEF Main, StdinDone, SleepEnds, HangUpAlerts, HangUpLogs, SeesDone, TimesOut,
         Typed, TypeOK
<1>4. main' \in {"sleep", "alone", "hangup", "wait", "flushed", "timedout"}
  BY DEF Main, StdinDone, SleepEnds, HangUpAlerts, HangUpLogs, SeesDone, TimesOut, Goto
<1>5. /\ main' \in {"select", "sleep"} => hub' = {} \/ "logs" \in hub'
      /\ main' = "hangup" => "logs" \in hub'
      /\ main' \in {"wait", "flushed", "timedout"} => hub' = {}
      /\ main' = "flushed" => forwardDone
      /\ forwardDone => hub' = {}
  BY DEF Main, StdinDone, SleepEnds, HangUpAlerts, HangUpLogs, SeesDone, TimesOut, Goto,
         Typed, Places, TypeOK
<1>6. TypeOK'
  BY <1>1, <1>2, <1>3, <1>4 DEF Typed, TypeOK, Ended, Fired
<1> QED
  BY <1>1, <1>5, <1>6 DEF Typed, Counters, Places

\* No step of a stage, a forwarder or main breaks the types.
LEMMA TypeStep == Typed /\ [Next]_vars => Typed'
<1>1. ASSUME Typed, UNCHANGED vars PROVE Typed'
  BY <1>1 DEF vars, stages, logSide, alertSide, Typed, TypeOK, Counters, Places, Ended, Fired
<1> QED
  BY <1>1, TypeStages, TypeForwarders, TypeMain DEF Next, Quiet

\* The types hold always.
LEMMA AlwaysTyped == Spec => []Typed
BY TypeInit, TypeStep, PTL DEF Spec

\* No counter of a stage overtakes the stage before it, and no channel or batch
\* holds more than it may.
THEOREM TypeCorrect == Spec => []TypeOK
<1>1. Typed => TypeOK
  BY DEF Typed
<1> QED
  BY <1>1, AlwaysTyped, PTL
-----------------------------------------------------------------------------
(* The order of what is forwarded *)

\* Numbers of lines and of alerts are naturals.
LEMMA LineSeqs ==
  ASSUME Typed
  PROVE  /\ gotLogs \in Seq(Nat) /\ batch \in Seq(Nat) /\ logCh \in Seq(Nat)
         /\ gotAlerts \in Seq(Nat) /\ posting \in Seq(Nat) /\ alertCh \in Seq(Nat)
         /\ logged \in Nat /\ published \in Nat
<1>1. Line \subseteq Nat
  BY PipeAssumption DEF Line
<1> QED
  BY <1>1, SeqMonotonic DEF Typed, TypeOK, Counters

\* Nothing is forwarded at the start.
LEMMA OrderedInit == Init => Ordered
<1> SUFFICES ASSUME Init PROVE Ordered
  OBVIOUS
<1>1. Len(<<>>) = 0
  BY Empty
<1> QED
  BY <1>1 DEF Init, Ordered, InLine, Increasing, Before, Upto

\* The line of the log events.
LEMMA LogsInLine ==
  ASSUME Typed, InLine(gotLogs, batch, logCh, logged), [Next]_vars
  PROVE  InLine(gotLogs, batch, logCh, logged)'
<1>1. CASE TeePublish
  <2>1. /\ logged' = logged + 1 /\ gotLogs' = gotLogs /\ batch' = batch
        /\ logCh' = logCh \/ logCh' = Append(logCh, logged + 1)
    BY <1>1 DEF TeePublish
  <2> QED
    BY <2>1, LinePublish, LineSeqs
<1>2. CASE TakeLog
  <2>1. /\ logged' = logged /\ gotLogs' = gotLogs
        /\ batch' = Append(batch, Head(logCh)) /\ logCh' = Tail(logCh) /\ logCh # <<>>
    BY <1>2 DEF TakeLog, stages
  <2> QED
    BY <2>1, LineTake, LineSeqs
<1>3. CASE LogPosted
  <2>1. /\ logged' = logged /\ logCh' = logCh /\ batch' = Tail(batch) /\ batch # <<>>
        /\ gotLogs' = Append(gotLogs, Head(batch)) \/ gotLogs' = gotLogs
    BY <1>3 DEF LogPosted, stages, Typed, Places
  <2> QED
    BY <2>1, LineDeliver, LineLose, LineSeqs
<1>4. CASE UNCHANGED <<gotLogs, batch, logCh, logged>>
  BY <1>4
<1> QED
  BY <1>1, <1>2, <1>3, <1>4
     DEF Next, Environment, Stage, Forwarders, Main, Quiet, Give, CloseStdin, DaemonGoes,
         Interrupt, Read, Parse, Tee, Match, Dispatch, Acted, TakeAlert, AlertPosted, Ticker,
         LogClosed, StdinDone, SleepEnds, HangUpAlerts, HangUpLogs, SeesDone, TimesOut, Goto,
         vars, stages, logSide

\* The line of the alerts.
LEMMA AlertsInLine ==
  ASSUME Typed, InLine(gotAlerts, posting, alertCh, published), [Next]_vars
  PROVE  InLine(gotAlerts, posting, alertCh, published)'
<1>1. CASE Dispatch
  <2>1. /\ published' = published + 1 /\ gotAlerts' = gotAlerts /\ posting' = posting
        /\ alertCh' = alertCh \/ alertCh' = Append(alertCh, published + 1)
    BY <1>1 DEF Dispatch
  <2> QED
    BY <2>1, LinePublish, LineSeqs
<1>2. CASE TakeAlert
  <2>1. /\ published' = published /\ gotAlerts' = gotAlerts /\ posting = <<>>
        /\ posting' = <<Head(alertCh)>> /\ alertCh' = Tail(alertCh) /\ alertCh # <<>>
    BY <1>2 DEF TakeAlert, stages
  <2>2. posting' = Append(posting, Head(alertCh))
    BY <2>1
  <2> QED
    BY <2>1, <2>2, LineTake, LineSeqs
<1>3. CASE AlertPosted
  <2>1. /\ published' = published /\ alertCh' = alertCh /\ posting' = <<>> /\ posting # <<>>
        /\ gotAlerts' = gotAlerts \o posting \/ gotAlerts' = gotAlerts
    BY <1>3 DEF AlertPosted, stages
  <2>2. Len(posting) = 1
    BY <2>1, Holding DEF Typed, TypeOK
  <2>3. Head(posting) = posting[1] /\ Tail(posting) \in Seq(Nat) /\ Len(Tail(posting)) = 0
    BY <2>1, <2>2, Taken, LineSeqs
  <2>4. Tail(posting) = <<>>
    BY <2>3, EmptySeq
  <2>5. gotAlerts \o posting = Append(gotAlerts, Head(posting))
    <3>1. posting = <<Head(posting)>>
      <4>1. Head(posting) \in Nat
        BY <2>1, Taken, LineSeqs
      <4>2. /\ <<Head(posting)>> \in Seq(Nat) /\ Len(<<Head(posting)>>) = 1
            /\ <<Head(posting)>>[1] = Head(posting)
        BY <4>1, Held
      <4>3. \A i \in 1..Len(posting) : posting[i] = <<Head(posting)>>[i]
        BY <2>2, <2>3, <4>2
      <4> QED
        BY <2>2, <4>2, <4>3, SeqEqual, LineSeqs
    <3>2. Append(gotAlerts, Head(posting)) = gotAlerts \o <<Head(posting)>>
      <4>1. Head(posting) \in Nat /\ gotAlerts \in Seq(Nat)
        BY <2>1, Taken, LineSeqs
      <4> QED
        BY <4>1, AppendIsConcat
    <3> QED
      BY <3>1, <3>2, Zenon
  <2> QED
    BY <2>1, <2>4, <2>5, LineDeliver, LineLose, LineSeqs
<1>4. CASE UNCHANGED <<gotAlerts, posting, alertCh, published>>
  BY <1>4
<1> QED
  BY <1>1, <1>2, <1>3, <1>4
     DEF Next, Environment, Stage, Forwarders, Main, Quiet, Give, CloseStdin, DaemonGoes,
         Interrupt, Read, Parse, Tee, TeePublish, Match, Acted, TakeLog, LogPosted, Ticker,
         LogClosed, StdinDone, SleepEnds, HangUpAlerts, HangUpLogs, SeesDone, TimesOut, Goto,
         vars, stages, alertSide

\* What a forwarder has, and what waits for it, is in order always.
LEMMA AlwaysOrdered == Spec => [](Typed /\ Ordered)
<1>1. Typed /\ Ordered /\ [Next]_vars => Ordered'
  BY LogsInLine, AlertsInLine DEF Ordered
<1> QED
  BY <1>1, AlwaysTyped, OrderedInit, PTL DEF Spec

\* The daemon gets the log lines, and the alerts, in their order and each at
\* most once, for any sizes of the channels and batches.
THEOREM ForwardingOrdered == Spec => []ForwardedInOrder
<1>1. Typed /\ Ordered => ForwardedInOrder
  BY LineUp, LineSeqs DEF Ordered, ForwardedInOrder
<1> QED
  BY <1>1, AlwaysOrdered, PTL
-----------------------------------------------------------------------------
(* What has arrived when main has seen forwardDone *)

\* The elements of a channel or hand after a send, and before a receive.
LEMMA ElementsOf ==
  ASSUME NEW c \in Seq(Nat)
  PROVE  /\ \A x \in Nat : Elements(Append(c, x)) = Elements(c) \cup {x}
         /\ c # <<>> => Elements(c) = {Head(c)} \cup Elements(Tail(c))
         /\ c = <<>> => Elements(c) = {}
<1>1. ASSUME NEW x \in Nat PROVE Elements(Append(c, x)) = Elements(c) \cup {x}
  <2> DEFINE d == Append(c, x)
  <2>1. /\ Len(c) \in Nat /\ Len(d) = Len(c) + 1
        /\ \A k \in 1..Len(c) : d[k] = c[k]
        /\ d[Len(c) + 1] = x
    BY Sent
  <2> HIDE DEF d
  <2>2. 1..Len(d) = 1..Len(c) \cup {Len(c) + 1}
    BY <2>1
  <2>3. Elements(d) = Elements(c) \cup {x}
    BY <2>1, <2>2 DEF Elements
  <2> QED
    BY <2>3 DEF d
<1>2. ASSUME c # <<>> PROVE Elements(c) = {Head(c)} \cup Elements(Tail(c))
  <2> DEFINE t == Tail(c)
  <2>1. /\ Head(c) = c[1] /\ Len(c) \in Nat \ {0} /\ Len(t) = Len(c) - 1
        /\ \A k \in 1..Len(t) : t[k] = c[k + 1]
    BY <1>2, Taken
  <2> HIDE DEF t
  <2>2. ASSUME NEW k \in 1..Len(c) PROVE k = 1 \/ (k - 1 \in 1..Len(t) /\ c[k] = t[k - 1])
    <3>1. CASE k # 1
      <4>1. k - 1 \in 1..Len(t) /\ (k - 1) + 1 = k
        BY <2>1, <3>1
      <4> QED
        BY <2>1, <4>1
    <3> QED
      BY <3>1
  <2>3. 1 \in 1..Len(c) /\ \A k \in 1..Len(t) : k + 1 \in 1..Len(c)
    BY <2>1
  <2>4. Elements(c) \subseteq {c[1]} \cup Elements(t)
    BY <2>2 DEF Elements
  <2>5. {c[1]} \cup Elements(t) \subseteq Elements(c)
    BY <2>1, <2>3 DEF Elements
  <2> QED
    BY <2>1, <2>4, <2>5 DEF t
<1>3. ASSUME c = <<>> PROVE Elements(c) = {}
  BY <1>3, Empty DEF Elements
<1> QED
  BY <1>1, <1>2, <1>3

\* Nothing is logged at the start, so nothing is to be accounted for.
LEMMA AccountedInit == Init => Accounted
<1> SUFFICES ASSUME Init PROVE Accounted
  OBVIOUS
<1>1. Elements(<<>>) = {}
  BY Empty DEF Elements
<1>2. Heard = 0 /\ 1..0 = {}
  BY DEF Init, Heard
<1> QED
  BY <1>1, <1>2 DEF Init, Accounted

\* No step loses a log event without a trace while the daemon answers.
LEMMA AccountedStep ==
  ASSUME Typed, Accounted, [Next]_vars
  PROVE  Accounted'
<1> DEFINE kept == Elements(gotLogs) \cup Elements(batch) \cup Elements(logCh)
<1>1. CASE TeePublish
  <2>1. /\ logged' = logged + 1 /\ logged \in Nat
        /\ UNCHANGED <<gotLogs, batch, hub, cut, daemon>>
        /\ "logs" \in hub /\ Len(logCh) < ForwardCap =>
             logCh' = Append(logCh, logged + 1) /\ dropped' = dropped
        /\ ~("logs" \in hub /\ Len(logCh) < ForwardCap) => logCh' = logCh
        /\ "logs" \in hub /\ ~(Len(logCh) < ForwardCap) =>
             dropped' = dropped \cup {<<"logs", logged + 1>>}
        /\ "logs" \notin hub => dropped' = dropped
    <3>1. Len(logCh) \in Nat /\ ForwardCap \in Nat
      BY LineSeqs, LenProperties, PipeAssumption
    <3>2. Len(logCh) >= ForwardCap <=> ~(Len(logCh) < ForwardCap)
      BY <3>1
    <3> QED
      BY <1>1, <3>2, LineSeqs DEF TeePublish
  <2>2. CASE "logs" \notin hub
    BY <2>1, <2>2 DEF Accounted, Heard
  <2>3. CASE "logs" \in hub
    <3>1. Heard = logged /\ Heard' = logged + 1
      BY <2>1, <2>3 DEF Heard
    <3>2. \A d \in dropped : d[1] = "logs" => d[2] <= logged /\ d[2] \in Nat
      <4>1. \A d \in dropped : d[2] \in Nat
        BY PipeAssumption DEF Typed, TypeOK, Line
      <4> QED
        BY <3>1, <4>1 DEF Accounted
    <3>3. \A d \in dropped' : d[1] = "logs" => d[2] <= Heard'
      BY <2>1, <2>3, <3>1, <3>2
    <3>4. <<"logs", logged + 1>> \notin dropped
      BY <2>1, <3>2
    <3>5. ASSUME daemon'
          PROVE  (Elements(gotLogs) \cup Elements(batch) \cup Elements(logCh))'
                   = {l \in 1..(logged + 1) : <<"logs", l>> \notin dropped'}
      <4>1. kept = {l \in 1..logged : <<"logs", l>> \notin dropped}
        BY <2>1, <3>1, <3>5 DEF Accounted
      <4>2. 1..(logged + 1) = 1..logged \cup {logged + 1} /\ logged + 1 \notin 1..logged
        BY <2>1
      <4>3. CASE Len(logCh) < ForwardCap
        <5>1. Elements(logCh') = Elements(logCh) \cup {logged + 1} /\ dropped' = dropped
          <6>1. logCh' = Append(logCh, logged + 1) /\ dropped' = dropped /\ logged + 1 \in Nat
            BY <2>1, <2>3, <4>3
          <6>2. Elements(Append(logCh, logged + 1)) = Elements(logCh) \cup {logged + 1}
            BY <6>1, ElementsOf, LineSeqs
          <6> QED
            BY <6>1, <6>2
        <5>2. Elements(gotLogs') = Elements(gotLogs) /\ Elements(batch') = Elements(batch)
          BY <2>1
        <5>3. Elements(gotLogs') \cup Elements(batch') \cup Elements(logCh')
                = kept \cup {logged + 1}
          BY <5>1, <5>2
        <5>4. {l \in 1..(logged + 1) : <<"logs", l>> \notin dropped'}
                = {l \in 1..logged : <<"logs", l>> \notin dropped} \cup {logged + 1}
          BY <3>4, <4>2, <5>1
        <5> QED
          BY <4>1, <5>3, <5>4 DEF Elements
      <4>4. CASE ~(Len(logCh) < ForwardCap)
        <5>1. logCh' = logCh /\ dropped' = dropped \cup {<<"logs", logged + 1>>}
          BY <2>1, <2>3, <4>4
        <5>2. {l \in 1..(logged + 1) : <<"logs", l>> \notin dropped'}
                = {l \in 1..logged : <<"logs", l>> \notin dropped}
          BY <4>2, <5>1
        <5> QED
          BY <2>1, <4>1, <5>1, <5>2 DEF Elements
      <4> QED
        BY <4>3, <4>4
    <3> QED
      BY <3>1, <3>3, <3>5 DEF Accounted
  <2> QED
    BY <2>2, <2>3
<1>2. CASE TakeLog
  <2>1. /\ batch' = Append(batch, Head(logCh)) /\ logCh' = Tail(logCh) /\ logCh # <<>>
        /\ UNCHANGED <<gotLogs, hub, cut, daemon, dropped, logged>>
    BY <1>2 DEF TakeLog, stages
  <2>2. /\ Elements(batch') = Elements(batch) \cup {Head(logCh)}
        /\ Elements(logCh) = {Head(logCh)} \cup Elements(logCh')
        /\ Elements(gotLogs') = Elements(gotLogs)
    <3>1. Head(logCh) \in Nat
      BY <2>1, Taken, LineSeqs
    <3> QED
      BY <2>1, <3>1, ElementsOf, LineSeqs
  <2>3. Elements(gotLogs') \cup Elements(batch') \cup Elements(logCh') = kept
    BY <2>2
  <2> QED
    BY <2>1, <2>3 DEF Accounted, Heard, Elements
<1>3. CASE LogPosted
  <2>1. /\ batch' = Tail(batch) /\ batch # <<>>
        /\ daemon => gotLogs' = Append(gotLogs, Head(batch))
        /\ UNCHANGED <<logCh, hub, cut, daemon, dropped, logged>>
    BY <1>3 DEF LogPosted, stages, Typed, Places
  <2>2. ASSUME daemon
        PROVE  Elements(gotLogs') \cup Elements(batch') \cup Elements(logCh') = kept
    <3>1. Head(batch) \in Nat
      BY <2>1, Taken, LineSeqs
    <3>2. /\ Elements(gotLogs') = Elements(gotLogs) \cup {Head(batch)}
          /\ Elements(batch) = {Head(batch)} \cup Elements(batch')
          /\ Elements(logCh') = Elements(logCh)
      BY <2>1, <2>2, <3>1, ElementsOf, LineSeqs
    <3> QED
      BY <3>2
  <2> QED
    BY <2>1, <2>2 DEF Accounted, Heard, Elements
<1>4. CASE HangUpLogs
  <2>1. /\ hub' = hub \ {"logs"} /\ cut' = logged /\ "logs" \in hub
        /\ UNCHANGED <<gotLogs, batch, logCh, daemon, dropped, logged>>
    BY <1>4 DEF HangUpLogs, Goto, logSide, stages, Typed, Places
  <2>2. Heard' = Heard
    BY <2>1 DEF Heard
  <2> QED
    BY <2>1, <2>2 DEF Accounted
<1>5. CASE HangUpAlerts
  <2>1. hub' = hub \ {"alerts"}
        /\ UNCHANGED <<gotLogs, batch, logCh, daemon, dropped, logged, cut>>
    BY <1>5 DEF HangUpAlerts, Goto, logSide, stages
  <2>2. Heard' = Heard
    BY <2>1 DEF Heard
  <2> QED
    BY <2>1, <2>2 DEF Accounted
<1>6. CASE DaemonGoes
  BY <1>6 DEF DaemonGoes, Accounted, Heard, stages
<1>7. CASE Dispatch
  <2>1. /\ UNCHANGED <<gotLogs, batch, logCh, daemon, logged, cut, hub>>
        /\ dropped' = dropped \/ dropped' = dropped \cup {<<"alerts", published + 1>>}
    BY <1>7 DEF Dispatch, logSide
  <2>2. \A l : <<"logs", l>> \in dropped' <=> <<"logs", l>> \in dropped
    BY <2>1
  <2>3. \A d \in dropped' : d[1] = "logs" => d \in dropped
    BY <2>1
  <2>4. {l \in 1..Heard : <<"logs", l>> \notin dropped'} = {l \in 1..Heard : <<"logs", l>> \notin dropped}
    BY <2>2
  <2>5. Heard' = Heard
    BY <2>1 DEF Heard
  <2>6. \A d \in dropped' : d[1] = "logs" => d[2] <= Heard'
    BY <2>3, <2>5 DEF Accounted
  <2>7. daemon' => (Elements(gotLogs) \cup Elements(batch) \cup Elements(logCh))'
                     = {l \in 1..Heard' : <<"logs", l>> \notin dropped'}
    <3>1. daemon' => (Elements(gotLogs) \cup Elements(batch) \cup Elements(logCh))'
                       = {l \in 1..Heard : <<"logs", l>> \notin dropped'}
      BY <2>1, <2>4 DEF Accounted, Elements
    <3> QED
      BY <3>1, <2>5
  <2> QED
    BY <2>6, <2>7 DEF Accounted
<1>8. CASE UNCHANGED <<gotLogs, batch, logCh, daemon, dropped, logged, cut, hub>>
  BY <1>8 DEF Accounted, Heard
<1> QED
  BY <1>1, <1>2, <1>3, <1>4, <1>5, <1>6, <1>7, <1>8
     DEF Next, Environment, Stage, Forwarders, Main, Quiet, Give, CloseStdin,
         Interrupt, Read, Parse, Tee, Match, Acted, TakeAlert, AlertPosted, Ticker,
         LogClosed, StdinDone, SleepEnds, SeesDone, TimesOut, Goto,
         vars, stages, logSide

\* Every line that was logged is accounted for always.
LEMMA AlwaysAccounted == Spec => [](Typed /\ Accounted)
BY AccountedStep, AlwaysTyped, AccountedInit, PTL DEF Spec

\* The wait for forwardDone is a wait for every log line that the forwarder was
\* given, for any sizes, as long as the daemon answers.
THEOREM FlushComplete == Spec => []FlushedWhenDone
<1>1. ASSUME Typed, Accounted PROVE FlushedWhenDone
  <2> SUFFICES ASSUME main = "flushed", daemon
               PROVE  Elements(gotLogs) = {l \in 1..cut : <<"logs", l>> \notin dropped}
    BY DEF FlushedWhenDone
  <2>1. hub = {} /\ logCh = <<>> /\ batch = <<>>
    BY <1>1 DEF Typed, Places
  <2>2. Elements(<<>>) = {}
    BY Empty DEF Elements
  <2>3. Heard = cut
    BY <2>1 DEF Heard
  <2> QED
    BY <1>1, <2>1, <2>2, <2>3 DEF Accounted
<1> QED
  BY <1>1, AlwaysAccounted, PTL
=============================================================================
