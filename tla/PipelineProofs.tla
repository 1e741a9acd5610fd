--------------------------- MODULE PipelineProofs ---------------------------
(***************************************************************************)
(* Theorems about Pipeline, for any rules, any channel capacities and any  *)
(* number of lines.                                                        *)
(***************************************************************************)
EXTENDS Pipeline, QueueLemmas
-----------------------------------------------------------------------------
(* The types *)

\* All channels and hands are empty at the start.
LEMMA TypeInit == Init => TypeOK /\ ControlOK
<1> SUFFICES ASSUME Init PROVE TypeOK /\ ControlOK
  OBVIOUS
<1>1. /\ \A S : <<>> \in Seq(S)
      /\ Len(<<>>) = 0
  BY Empty
<1>2. /\ RawCap \in Nat /\ EntCap \in Nat /\ AlertCap \in Nat /\ NumRules \in Nat
  BY PipelineAssumption
<1>3. TypeOK
  BY <1>1, <1>2 DEF Init, TypeOK, Never
<1> QED
  BY <1>3 DEF Init, ControlOK

\* No step of a stage, a handler or the clock breaks the types: one item at most is in a hand,
\* and a channel is sent to only when it has room.
LEMMA TypeStep == TypeOK /\ ControlOK /\ [Next]_vars => TypeOK' /\ ControlOK'
<1> SUFFICES ASSUME TypeOK, ControlOK, [Next]_vars PROVE TypeOK' /\ ControlOK'
  OBVIOUS
<1> USE PipelineAssumption DEF pushVars
<1>1. ASSUME NEW text \in Text, Emit(text) PROVE TypeOK' /\ ControlOK'
  <2>1. /\ rawLines \in Seq(RawLine) /\ Len(rawLines) < RawCap
        /\ accepted \in Seq(Text)
        /\ rawLines' = Append(rawLines, [line |-> Len(accepted) + 1, text |-> text])
        /\ accepted' = Append(accepted, text)
    BY <1>1 DEF Emit, TypeOK
  <2>2. [line |-> Len(accepted) + 1, text |-> text] \in RawLine
    BY <2>1, LenProperties DEF RawLine
  <2>3. /\ rawLines' \in Seq(RawLine) /\ Len(rawLines') <= RawCap
        /\ accepted' \in Seq(Text)
    BY <2>1, <2>2, Sent
  <2> QED
    BY <1>1, <2>3 DEF Emit, teeVars, matchVars, dispatchVars, TypeOK, ControlOK
<1>2. ASSUME ParserReceive PROVE TypeOK' /\ ControlOK'
  <2>1. /\ rawLines \in Seq(RawLine) /\ rawLines # <<>> /\ Len(rawLines) <= RawCap
        /\ parsing' = <<Head(rawLines)>> /\ rawLines' = Tail(rawLines)
    BY <1>2 DEF ParserReceive, TypeOK
  <2>2. /\ rawLines' \in Seq(RawLine) /\ Len(rawLines') <= RawCap
        /\ parsing' \in Seq(RawLine) /\ Len(parsing') <= 1 /\ parsing' # <<>>
    BY <2>1, Taken, Held
  <2> QED
    BY <1>2, <2>2 DEF ParserReceive, teeVars, matchVars, dispatchVars, TypeOK, ControlOK
<1>3. ASSUME ParserSend PROVE TypeOK' /\ ControlOK'
  <2>1. /\ parsing \in Seq(RawLine) /\ parsing # <<>> /\ Len(parsing) <= 1
        /\ entries \in Seq(Entry) /\ Len(entries) < EntCap
        /\ entries' = Append(entries, Parse(parsing[1]))
        /\ parsing' = <<>>
    BY <1>3 DEF ParserSend, TypeOK
  <2>2. parsing[1] \in RawLine
    BY <2>1, Holding
  <2>3. Parse(parsing[1]) \in Entry
    BY <2>2 DEF Parse, RawLine, Entry
  <2>4. /\ entries' \in Seq(Entry) /\ Len(entries') <= EntCap
        /\ parsing' \in Seq(RawLine) /\ Len(parsing') <= 1
    BY <2>1, <2>3, Sent, Empty
  <2> QED
    BY <1>3, <2>4 DEF ParserSend, teeVars, matchVars, dispatchVars, TypeOK, ControlOK
<1>4. ASSUME TeeReceive PROVE TypeOK' /\ ControlOK'
  <2>1. /\ entries \in Seq(Entry) /\ entries # <<>> /\ Len(entries) <= EntCap
        /\ teeing' = <<Head(entries)>> /\ entries' = Tail(entries)
    BY <1>4 DEF TeeReceive, TypeOK
  <2>2. /\ entries' \in Seq(Entry) /\ Len(entries') <= EntCap
        /\ teeing' \in Seq(Entry) /\ Len(teeing') <= 1 /\ teeing' # <<>>
    BY <2>1, Taken, Held
  <2> QED
    BY <1>4, <2>2 DEF TeeReceive, feedVars, matchVars, dispatchVars, TypeOK, ControlOK
<1>5. ASSUME TeeSend PROVE TypeOK' /\ ControlOK'
  <2>1. /\ teeing \in Seq(Entry) /\ teeing # <<>> /\ Len(teeing) <= 1
        /\ entries2 \in Seq(Entry) /\ Len(entries2) < EntCap
        /\ entries2' = Append(entries2, teeing[1])
        /\ teeing' = <<>>
    BY <1>5 DEF TeeSend, TypeOK
  <2>2. teeing[1] \in Entry
    BY <2>1, Holding
  <2>3. /\ entries2' \in Seq(Entry) /\ Len(entries2') <= EntCap
        /\ teeing' \in Seq(Entry) /\ Len(teeing') <= 1
    BY <2>1, <2>2, Sent, Empty
  <2> QED
    BY <1>5, <2>1, <2>3 DEF TeeSend, feedVars, matchVars, dispatchVars, TypeOK, ControlOK
<1>6. ASSUME TeePublish PROVE TypeOK' /\ ControlOK'
  <2>1. /\ logging \in Seq(Entry) /\ logging # <<>> /\ Len(logging) <= 1
        /\ logged' = logging[1].line
        /\ logging' = <<>>
    BY <1>6 DEF TeePublish, TypeOK
  <2>2. logging[1] \in Entry
    BY <2>1, Holding
  <2>3. logged' \in Nat /\ logging' \in Seq(Entry) /\ Len(logging') <= 1
    BY <2>1, <2>2, Empty DEF Entry
  <2> QED
    BY <1>6, <2>1, <2>3 DEF TeePublish, feedVars, matchVars, dispatchVars, TypeOK, ControlOK
<1>7. ASSUME MatchReceive PROVE TypeOK' /\ ControlOK'
  <2>1. /\ entries2 \in Seq(Entry) /\ entries2 # <<>> /\ Len(entries2) <= EntCap
        /\ matching' = <<Head(entries2)>> /\ entries2' = Tail(entries2)
    BY <1>7 DEF MatchReceive, TypeOK
  <2>2. /\ entries2' \in Seq(Entry) /\ Len(entries2') <= EntCap
        /\ matching' \in Seq(Entry) /\ Len(matching') <= 1 /\ matching' # <<>>
    BY <2>1, Taken, Held
  <2> QED
    BY <1>7, <2>2 DEF MatchReceive, feedVars, teeVars, dispatchVars, TypeOK, ControlOK
<1>8. ASSUME Test PROVE TypeOK' /\ ControlOK'
  <2>1. /\ step = "test" /\ matching # <<>>
        /\ rule \in 1..NumRules
    BY <1>8 DEF Test, TypeOK
  <2>2. \/ rule' = rule + 1 /\ step' = "test"
        \/ rule' = rule /\ step' = "stamp" /\ Cooldown[rule] = 0
        \/ rule' = rule /\ step' = "arm" /\ Cooldown[rule] # 0
    BY <1>8 DEF Test
  <2>3. UNCHANGED <<accepted, rawLines, entries, entries2, alerts, parsing, teeing, logging,
                    logged, matching, matched, lastFired, outbox, now, fired,
                    dispatching, phase, alertCount, published, tried, pushed, pushing>>
    BY <1>8 DEF Test, feedVars, teeVars, dispatchVars
  <2>4. /\ rule' \in 1..(NumRules + 1)
        /\ step' \in {"test", "arm", "stamp"}
        /\ step' # "test" => rule' <= NumRules
        /\ step' = "arm" => Cooldown[rule'] # 0
        /\ step' = "stamp" => Cooldown[rule'] = 0
    BY <2>1, <2>2
  <2>5. outbox = <<>>
    BY <2>1 DEF ControlOK
  <2>6. TypeOK'
    BY <2>3, <2>4 DEF TypeOK
  <2> QED
    BY <2>1, <2>3, <2>4, <2>5, <2>6 DEF ControlOK
<1>9. ASSUME Arm PROVE TypeOK' /\ ControlOK'
  <2>1. /\ rule \in Rule
        /\ lastFired' \in [Rule -> Nat \cup {Never}]
        /\ lastFired'[rule] \in Nat
    BY <1>9 DEF Arm, TypeOK, ControlOK, Rule
  <2>2. lastFired'[rule] # Never
    BY <2>1 DEF Never
  <2> QED
    BY <1>9, <2>1, <2>2 DEF Arm, feedVars, teeVars, dispatchVars, TypeOK, ControlOK
<1>10. ASSUME Stamp PROVE TypeOK' /\ ControlOK'
  <2> DEFINE a == [rule |-> rule, line |-> matching[1].line, time |-> now,
                   armed |-> IF Cooldown[rule] = 0 THEN now ELSE lastFired[rule]]
  <2>1. /\ rule \in Rule
        /\ matching \in Seq(Entry) /\ matching # <<>> /\ Len(matching) <= 1
        /\ Cooldown[rule] # 0 => lastFired[rule] \in Nat
        /\ now \in Nat
    BY <1>10, SMTT(40) DEF Stamp, TypeOK, ControlOK, Rule
  <2>2. matching[1].line \in Nat
    <3>1. matching[1] \in Entry
      BY <2>1, Holding
    <3> QED
      BY <3>1 DEF Entry
  <2>3. a \in Alert
    BY <2>1, <2>2 DEF Alert
  <2>4. outbox' \in Seq(Alert) /\ Len(outbox') <= 1 /\ outbox' # <<>>
    BY <1>10, <2>3, Held DEF Stamp
  <2> QED
    BY <1>10, <2>4 DEF Stamp, feedVars, teeVars, dispatchVars, TypeOK, ControlOK
<1>11. ASSUME MatchSend PROVE TypeOK' /\ ControlOK'
  <2>1. /\ outbox \in Seq(Alert) /\ outbox # <<>> /\ Len(outbox) <= 1
        /\ alerts \in Seq(Alert) /\ Len(alerts) < AlertCap
        /\ fired \in Seq(Alert)
        /\ alerts' = Append(alerts, outbox[1])
        /\ fired' = Append(fired, outbox[1])
        /\ outbox' = <<>>
    BY <1>11 DEF MatchSend, TypeOK, ControlOK
  <2>2. outbox[1] \in Alert
    BY <2>1, Holding
  <2>3. /\ alerts' \in Seq(Alert) /\ Len(alerts') <= AlertCap
        /\ fired' \in Seq(Alert)
        /\ outbox' \in Seq(Alert) /\ Len(outbox') <= 1
    BY <2>1, <2>2, Sent, Empty
  <2>4. rule' \in 1..(NumRules + 1) /\ matching # <<>>
    BY <1>11 DEF MatchSend, TypeOK, ControlOK
  <2> QED
    BY <1>11, <2>1, <2>3, <2>4 DEF MatchSend, feedVars, teeVars, dispatchVars, TypeOK, ControlOK
<1>12. ASSUME MatchDone PROVE TypeOK' /\ ControlOK'
  <2>1. /\ matching' = <<>>
        /\ matching' \in Seq(Entry) /\ Len(matching') <= 1
        /\ step = "test"
    BY <1>12, Empty DEF MatchDone, TypeOK, ControlOK
  <2> QED
    BY <1>12, <2>1 DEF MatchDone, feedVars, teeVars, dispatchVars, TypeOK, ControlOK
<1>13. ASSUME DispatchReceive PROVE TypeOK' /\ ControlOK'
  <2>1. /\ alerts \in Seq(Alert) /\ alerts # <<>> /\ Len(alerts) <= AlertCap
        /\ dispatching' = <<Head(alerts)>> /\ alerts' = Tail(alerts)
        /\ tried \in Seq(Seq(Output)) /\ tried' = Append(tried, <<>>)
    BY <1>13 DEF DispatchReceive, TypeOK
  <2>2. /\ alerts' \in Seq(Alert) /\ Len(alerts') <= AlertCap
        /\ dispatching' \in Seq(Alert) /\ Len(dispatching') <= 1 /\ dispatching' # <<>>
    BY <2>1, Taken, Held
  <2>3. tried' \in Seq(Seq(Output)) /\ tried' # <<>>
    <3> DEFINE S == Seq(Output)
    <3>1. <<>> \in S /\ tried \in Seq(S)
      BY <2>1, Empty
    <3> HIDE DEF S
    <3>2. tried' \in Seq(S) /\ tried' # <<>>
      BY <2>1, <3>1, Sent
    <3> QED
      BY <3>2 DEF S
  <2> QED
    BY <1>13, <2>2, <2>3 DEF DispatchReceive, feedVars, teeVars, matchVars, TypeOK, ControlOK
<1>14. ASSUME Count PROVE TypeOK' /\ ControlOK'
  BY <1>14 DEF Count, feedVars, teeVars, matchVars, TypeOK, ControlOK
<1>15. ASSUME Publish PROVE TypeOK' /\ ControlOK'
  BY <1>15 DEF Publish, feedVars, teeVars, matchVars, TypeOK, ControlOK
<1>16. ASSUME NEW ok \in BOOLEAN, Act(ok) PROVE TypeOK' /\ ControlOK'
  <2> DEFINE n == Len(tried)
             asked == Actions[dispatching[1].rule]
             o == [action |-> asked[Len(tried[n]) + 1], ok |-> ok]
  <2>1. /\ tried \in Seq(Seq(Output)) /\ tried # <<>>
        /\ dispatching \in Seq(Alert) /\ dispatching # <<>> /\ Len(dispatching) <= 1
        /\ tried' = [tried EXCEPT ![n] = Append(tried[n], o)]
        /\ Len(asked) - Len(tried[n]) > 0
    BY <1>16 DEF Act, NextOutput, Remaining, Outputs, TypeOK, ControlOK
  <2>2. dispatching[1] \in Alert
    BY <2>1, Holding
  <2>3. asked \in Seq(STRING)
    BY <2>2 DEF Alert
  <2>4. n \in Nat \ {0} /\ tried[n] \in Seq(Output)
    <3>1. n \in Nat \ {0} /\ tried \in [1..n -> Seq(Output)]
      BY <2>1, EmptySeq, LenProperties
    <3> QED
      BY <3>1
  <2> HIDE DEF asked
  <2>5. o \in Output
    <3>1. Len(tried[n]) + 1 \in 1..Len(asked) /\ asked \in [1..Len(asked) -> STRING]
      BY <2>1, <2>3, <2>4, LenProperties
    <3> QED
      BY <3>1 DEF Output
  <2> HIDE DEF o
  <2>6. Append(tried[n], o) \in Seq(Output)
    BY <2>4, <2>5, Sent
  <2>7. tried' \in Seq(Seq(Output)) /\ Len(tried') = n
    BY <2>1, <2>4, <2>6, ExceptSeq
  <2>8. tried' # <<>>
    BY <2>4, <2>7, Empty
  <2> QED
    BY <1>16, <2>1, <2>7, <2>8 DEF Act, feedVars, teeVars, matchVars, TypeOK, ControlOK
<1>17. ASSUME DispatchDone PROVE TypeOK' /\ ControlOK'
  <2>1. dispatching' = <<>> /\ dispatching' \in Seq(Alert) /\ Len(dispatching') <= 1
    BY <1>17, Empty DEF DispatchDone
  <2> QED
    BY <1>17, <2>1 DEF DispatchDone, feedVars, teeVars, matchVars, TypeOK, ControlOK
<1>18. ASSUME Tick PROVE TypeOK' /\ ControlOK'
  BY <1>18 DEF Tick, feedVars, teeVars, matchVars, dispatchVars, TypeOK, ControlOK
<1>19. ASSUME Quiet \/ UNCHANGED vars PROVE TypeOK' /\ ControlOK'
  BY <1>19 DEF Quiet, vars, TypeOK, ControlOK
<1>20. ASSUME PushPublish PROVE TypeOK' /\ ControlOK'
  BY <1>20 DEF PushPublish, feedVars, teeVars, matchVars, dispatchVars, TypeOK, ControlOK
<1>21. ASSUME PushCount PROVE TypeOK' /\ ControlOK'
  <2>1. pushing' \in Nat /\ alertCount' \in Nat
    BY <1>21 DEF PushCount, TypeOK
  <2> QED
    BY <1>21, <2>1 DEF PushCount, feedVars, teeVars, matchVars, TypeOK, ControlOK
<1> QED
  BY <1>1, <1>2, <1>3, <1>4, <1>5, <1>6, <1>7, <1>8, <1>9, <1>10, <1>11, <1>12, <1>13, <1>14, <1>15, <1>16, <1>17, <1>18, <1>19, <1>20, <1>21 DEF Next

\* The state is well-typed in every reachable state: no channel holds more
\* than its capacity and no stage more than one element.
THEOREM TypeCorrect == Spec => []TypeOK
BY TypeInit, TypeStep, PTL DEF Spec

\* The types and the control facts hold always.
LEMMA TypesAndControl == Spec => [](TypeOK /\ ControlOK)
BY TypeInit, TypeStep, PTL DEF Spec
-----------------------------------------------------------------------------
(* Nothing is lost between the tailers and the rules *)

\* What is in the log publisher's hand, next to NothingLost.
LogFlow ==
  /\ logged + Len(logging) = SentByTee
  /\ \A k \in 1..Len(logging) : logging[k].line = SentByTee

Flow == NothingLost /\ LogFlow

\* The lengths and counts of the flow are naturals.
LEMMA Lengths ==
  ASSUME TypeOK
  PROVE  /\ Len(accepted) \in Nat /\ Len(rawLines) \in Nat /\ Len(parsing) \in Nat
         /\ Len(entries) \in Nat /\ Len(teeing) \in Nat /\ Len(logging) \in Nat
         /\ Len(entries2) \in Nat /\ Len(matching) \in Nat
         /\ matched \in Nat /\ logged \in Nat
         /\ TakenByMatch \in Nat /\ SentByTee \in Nat /\ TakenByTee \in Nat
         /\ SentByParser \in Nat /\ TakenByParser \in Nat
<1>1. /\ Len(accepted) \in Nat /\ Len(rawLines) \in Nat /\ Len(parsing) \in Nat
      /\ Len(entries) \in Nat /\ Len(teeing) \in Nat /\ Len(logging) \in Nat
      /\ Len(entries2) \in Nat /\ Len(matching) \in Nat
      /\ matched \in Nat /\ logged \in Nat
  BY LenProperties DEF TypeOK
<1> QED
  BY <1>1 DEF TakenByMatch, SentByTee, TakenByTee, SentByParser, TakenByParser

\* No line has come at the start.
LEMMA FlowInit == Init => Flow
<1> SUFFICES ASSUME Init PROVE Flow
  OBVIOUS
<1>1. Len(<<>>) = 0
  BY EmptySeq
<1> QED
  BY <1>1 DEF Init, Flow, NothingLost, LogFlow, HoldsRaw, HoldsEntries, TakenByMatch,
              SentByTee, TakenByTee, SentByParser, TakenByParser

\* Where nothing of the flow changes, the flow stays as it is.
LEMMA FlowStutter ==
  ASSUME Flow,
         UNCHANGED <<accepted, rawLines, parsing, entries, teeing, logging, logged,
                     entries2, matching, matched>>
  PROVE  Flow'
BY DEF Flow, NothingLost, LogFlow, HoldsRaw, HoldsEntries, RawAt, Parse, TakenByMatch,
       SentByTee, TakenByTee, SentByParser, TakenByParser

\* A place within a part of the stream is a place within the stream.
LEMMA Within ==
  ASSUME NEW a \in Nat, NEW n \in Nat, NEW m \in Nat, a + n <= m, NEW k \in 1..n
  PROVE  a + k \in 1..m
OBVIOUS

\* A part of the stream before a place within it is within it.
LEMMA Before ==
  ASSUME NEW a \in Nat, NEW n \in Nat, NEW m \in Nat, a + n <= m
  PROVE  a <= m
OBVIOUS

\* A step moves at most one line across one boundary between stages, and the stream
\* with its positions stays what it was.
LEMMA FlowStep == TypeOK /\ ControlOK /\ Flow /\ [Next]_vars => Flow'
<1> SUFFICES ASSUME TypeOK, ControlOK, Flow, [Next]_vars PROVE Flow'
  OBVIOUS
<1> DEFINE p1 == TakenByMatch
           p2 == SentByTee
           p3 == TakenByTee
           p4 == SentByParser
           p5 == TakenByParser
<1>p. /\ p1 = matched + Len(matching)
      /\ p2 = p1 + Len(entries2)
      /\ p3 = p2 + Len(teeing)
      /\ p4 = p3 + Len(entries)
      /\ p5 = p4 + Len(parsing)
  BY DEF TakenByMatch, SentByTee, TakenByTee, SentByParser, TakenByParser
<1>q. /\ p1' = matched' + Len(matching')
      /\ p2' = p1' + Len(entries2')
      /\ p3' = p2' + Len(teeing')
      /\ p4' = p3' + Len(entries')
      /\ p5' = p4' + Len(parsing')
  BY DEF TakenByMatch, SentByTee, TakenByTee, SentByParser, TakenByParser
<1>n. /\ Len(accepted) \in Nat /\ Len(rawLines) \in Nat /\ Len(parsing) \in Nat
      /\ Len(entries) \in Nat /\ Len(teeing) \in Nat /\ Len(logging) \in Nat
      /\ Len(entries2) \in Nat /\ Len(matching) \in Nat
      /\ matched \in Nat /\ logged \in Nat
      /\ p1 \in Nat /\ p2 \in Nat /\ p3 \in Nat /\ p4 \in Nat /\ p5 \in Nat
  BY Lengths
<1>len. Len(accepted) = p5 + Len(rawLines)
  BY DEF Flow, NothingLost
<1>raw. \A k \in 1..Len(rawLines) : rawLines[k] = RawAt(p5 + k)
  BY DEF Flow, NothingLost, HoldsRaw
<1>par. \A k \in 1..Len(parsing) : parsing[k] = RawAt(p4 + k)
  BY DEF Flow, NothingLost, HoldsRaw
<1>ent. \A k \in 1..Len(entries) : entries[k] = Parse(RawAt(p3 + k))
  BY DEF Flow, NothingLost, HoldsEntries
<1>tee. \A k \in 1..Len(teeing) : teeing[k] = Parse(RawAt(p2 + k))
  BY DEF Flow, NothingLost, HoldsEntries
<1>en2. \A k \in 1..Len(entries2) : entries2[k] = Parse(RawAt(p1 + k))
  BY DEF Flow, NothingLost, HoldsEntries
<1>mat. \A k \in 1..Len(matching) : matching[k] = Parse(RawAt(matched + k))
  BY DEF Flow, NothingLost, HoldsEntries
<1>log. logged + Len(logging) = p2 /\ \A k \in 1..Len(logging) : logging[k].line = p2
  BY DEF Flow, LogFlow
<1>g. SUFFICES
      /\ Len(accepted') = p5' + Len(rawLines')
      /\ \A k \in 1..Len(rawLines') : rawLines'[k] = RawAt(p5 + k)'
      /\ \A k \in 1..Len(parsing') : parsing'[k] = RawAt(p4 + k)'
      /\ \A k \in 1..Len(entries') : entries'[k] = Parse(RawAt(p3 + k))'
      /\ \A k \in 1..Len(teeing') : teeing'[k] = Parse(RawAt(p2 + k))'
      /\ \A k \in 1..Len(entries2') : entries2'[k] = Parse(RawAt(p1 + k))'
      /\ \A k \in 1..Len(matching') : matching'[k] = Parse(RawAt(matched + k))'
      /\ logged' + Len(logging') = p2'
      /\ \A k \in 1..Len(logging') : logging'[k].line = p2'
  BY DEF Flow, NothingLost, LogFlow, HoldsRaw, HoldsEntries
<1> HIDE DEF p1, p2, p3, p4, p5
<1>1. CASE ParserReceive
  <2>1. /\ rawLines \in Seq(RawLine) /\ rawLines # <<>>
        /\ parsing = <<>> /\ parsing' = <<Head(rawLines)>> /\ rawLines' = Tail(rawLines)
        /\ UNCHANGED <<accepted, entries, teeing, logging, logged, entries2, matching, matched>>
    BY <1>1 DEF ParserReceive, TypeOK, teeVars, matchVars
  <2>2. /\ Len(parsing) = 0 /\ Len(parsing') = 1 /\ parsing'[1] = rawLines[1]
        /\ Len(rawLines) > 0 /\ Len(rawLines') = Len(rawLines) - 1
        /\ \A k \in 1..Len(rawLines') : rawLines'[k] = rawLines[k + 1]
    BY <2>1, Taken, Held, EmptySeq
  <2>3. /\ p1' = p1 /\ p2' = p2 /\ p3' = p3 /\ p4' = p4 /\ p5' = p5 + 1
    <3>1. /\ matched' = matched /\ Len(matching') = Len(matching) /\ Len(entries2') = Len(entries2)
          /\ Len(teeing') = Len(teeing) /\ Len(entries') = Len(entries) /\ Len(parsing') = Len(parsing) + 1
      BY <2>1, <2>2, <1>n
    <3> QED
      BY <3>1, <1>p, <1>q, <1>n
  <2>5. \A k \in 1..Len(rawLines') : rawLines'[k] = RawAt(p5 + k)'
    <3> TAKE k \in 1..Len(rawLines')
    <3>1. k + 1 \in 1..Len(rawLines) /\ p5' + k = p5 + (k + 1)
      BY <2>2, <2>3, <1>n
    <3>2. rawLines'[k] = rawLines[k + 1] /\ rawLines[k + 1] = RawAt(p5 + (k + 1))
      BY <2>2, <3>1, <1>raw
    <3> QED
      BY <2>1, <3>1, <3>2 DEF RawAt
  <2>6. \A k \in 1..Len(parsing') : parsing'[k] = RawAt(p4 + k)'
    <3>1. 1 \in 1..Len(rawLines) /\ p4 = p5
      BY <2>2, <1>p, <1>n
    <3>2. rawLines[1] = RawAt(p5 + 1)
      BY <3>1, <1>raw
    <3> QED
      BY <2>1, <2>2, <2>3, <3>1, <3>2 DEF RawAt
  <2>10. Len(accepted') = p5' + Len(rawLines')
    <3>1. Len(accepted') = Len(accepted) /\ Len(rawLines') = Len(rawLines) - 1
      BY <2>1, <2>2
    <3>2. p5' = p5 + 1
      BY <2>3
    <3> QED
      BY <3>1, <3>2, <1>n, <1>len
  <2>11. \A k \in 1..Len(entries') : entries'[k] = Parse(RawAt(p3 + k))'
    BY <2>1, <2>3, <1>ent DEF RawAt, Parse
  <2>12. \A k \in 1..Len(teeing') : teeing'[k] = Parse(RawAt(p2 + k))'
    BY <2>1, <2>3, <1>tee DEF RawAt, Parse
  <2>13. \A k \in 1..Len(entries2') : entries2'[k] = Parse(RawAt(p1 + k))'
    BY <2>1, <2>3, <1>en2 DEF RawAt, Parse
  <2>14. \A k \in 1..Len(matching') : matching'[k] = Parse(RawAt(matched + k))'
    BY <2>1, <2>3, <1>mat DEF RawAt, Parse
  <2>15. logged' + Len(logging') = p2' /\ \A k \in 1..Len(logging') : logging'[k].line = p2'
    BY <2>1, <2>3, <1>log
  <2> QED
    BY <2>5, <2>6, <2>10, <2>11, <2>12, <2>13, <2>14, <2>15
<1>2. CASE ParserSend
  <2>1. /\ parsing \in Seq(RawLine) /\ parsing # <<>> /\ Len(parsing) <= 1
        /\ entries \in Seq(Entry)
        /\ parsing' = <<>> /\ entries' = Append(entries, Parse(parsing[1]))
        /\ UNCHANGED <<accepted, rawLines, teeing, logging, logged, entries2, matching, matched>>
    BY <1>2 DEF ParserSend, TypeOK, teeVars, matchVars
  <2>2. parsing[1] \in RawLine /\ Len(parsing) = 1 /\ Len(parsing') = 0
    BY <2>1, Holding, EmptySeq
  <2>3. Parse(parsing[1]) \in Entry
    BY <2>2, PipelineAssumption DEF Parse, RawLine, Entry
  <2>4. /\ Len(entries') = Len(entries) + 1
        /\ \A k \in 1..Len(entries) : entries'[k] = entries[k]
        /\ entries'[Len(entries) + 1] = Parse(parsing[1])
    BY <2>1, <2>3, Sent
  <2>5. /\ p1' = p1 /\ p2' = p2 /\ p3' = p3 /\ p4' = p4 + 1 /\ p5' = p5
    <3>1. /\ matched' = matched /\ Len(matching') = Len(matching) /\ Len(entries2') = Len(entries2)
          /\ Len(teeing') = Len(teeing) /\ Len(entries') = Len(entries) + 1 /\ Len(parsing') = Len(parsing) - 1
      BY <2>1, <2>2, <2>4, <1>n
    <3> QED
      BY <3>1, <1>p, <1>q, <1>n
  <2>6. \A k \in 1..Len(entries') : entries'[k] = Parse(RawAt(p3 + k))'
    <3>0. 1 \in 1..Len(parsing) /\ p4 = p3 + Len(entries)
      BY <2>2, <1>p, <1>n
    <3>1. parsing[1] = RawAt(p3 + Len(entries) + 1)
      BY <3>0, <1>par
    <3> TAKE k \in 1..Len(entries')
    <3>2. CASE k \in 1..Len(entries)
      BY <2>1, <2>4, <2>5, <3>2, <1>n, <1>ent DEF RawAt, Parse
    <3>3. CASE k = Len(entries) + 1
      BY <2>1, <2>4, <2>5, <3>1, <3>3, <1>n DEF RawAt, Parse
    <3> QED
      BY <3>2, <3>3, <2>4, <1>n
  <2>8. Len(accepted') = p5' + Len(rawLines')
    BY <2>1, <2>5, <1>len
  <2>9. \A k \in 1..Len(rawLines') : rawLines'[k] = RawAt(p5 + k)'
    BY <2>1, <2>5, <1>raw DEF RawAt
  <2>10. \A k \in 1..Len(parsing') : parsing'[k] = RawAt(p4 + k)'
    BY <2>2
  <2>11. \A k \in 1..Len(teeing') : teeing'[k] = Parse(RawAt(p2 + k))'
    BY <2>1, <2>5, <1>tee DEF RawAt, Parse
  <2>12. \A k \in 1..Len(entries2') : entries2'[k] = Parse(RawAt(p1 + k))'
    BY <2>1, <2>5, <1>en2 DEF RawAt, Parse
  <2>13. \A k \in 1..Len(matching') : matching'[k] = Parse(RawAt(matched + k))'
    BY <2>1, <2>5, <1>mat DEF RawAt, Parse
  <2>14. logged' + Len(logging') = p2' /\ \A k \in 1..Len(logging') : logging'[k].line = p2'
    BY <2>1, <2>5, <1>log
  <2> QED
    BY <2>6, <2>8, <2>9, <2>10, <2>11, <2>12, <2>13, <2>14
<1>3. CASE TeeReceive
  <2>1. /\ entries \in Seq(Entry) /\ entries # <<>>
        /\ teeing = <<>> /\ teeing' = <<Head(entries)>> /\ entries' = Tail(entries)
        /\ UNCHANGED <<accepted, rawLines, parsing, logging, logged, entries2, matching, matched>>
    BY <1>3 DEF TeeReceive, TypeOK, feedVars, matchVars
  <2>2. /\ Len(teeing) = 0 /\ Len(teeing') = 1 /\ teeing'[1] = entries[1]
        /\ Len(entries) > 0 /\ Len(entries') = Len(entries) - 1
        /\ \A k \in 1..Len(entries') : entries'[k] = entries[k + 1]
    BY <2>1, Taken, Held, EmptySeq
  <2>3. /\ p1' = p1 /\ p2' = p2 /\ p3' = p3 + 1 /\ p4' = p4 /\ p5' = p5
    <3>1. /\ matched' = matched /\ Len(matching') = Len(matching) /\ Len(entries2') = Len(entries2)
          /\ Len(teeing') = Len(teeing) + 1 /\ Len(entries') = Len(entries) - 1 /\ Len(parsing') = Len(parsing)
      BY <2>1, <2>2, <1>n
    <3> QED
      BY <3>1, <1>p, <1>q, <1>n
  <2>4. \A k \in 1..Len(entries') : entries'[k] = Parse(RawAt(p3 + k))'
    <3> TAKE k \in 1..Len(entries')
    <3>1. k + 1 \in 1..Len(entries) /\ p3' + k = p3 + (k + 1)
      BY <2>2, <2>3, <1>n
    <3>2. entries'[k] = entries[k + 1] /\ entries[k + 1] = Parse(RawAt(p3 + (k + 1)))
      BY <2>2, <3>1, <1>ent
    <3> QED
      BY <2>1, <3>1, <3>2 DEF RawAt, Parse
  <2>5. \A k \in 1..Len(teeing') : teeing'[k] = Parse(RawAt(p2 + k))'
    <3>1. 1 \in 1..Len(entries)
      BY <2>2, <1>n
    <3>2. entries[1] = Parse(RawAt(p3 + 1))
      BY <3>1, <1>ent
    <3>3. p2 = p3
      BY <2>2, <1>p, <1>n
    <3> QED
      BY <2>1, <2>2, <2>3, <3>2, <3>3 DEF RawAt, Parse
  <2>10. Len(accepted') = p5' + Len(rawLines')
    BY <2>1, <2>3, <1>len
  <2>11. \A k \in 1..Len(rawLines') : rawLines'[k] = RawAt(p5 + k)'
    BY <2>1, <2>3, <1>raw DEF RawAt
  <2>12. \A k \in 1..Len(parsing') : parsing'[k] = RawAt(p4 + k)'
    BY <2>1, <2>3, <1>par DEF RawAt
  <2>13. \A k \in 1..Len(entries2') : entries2'[k] = Parse(RawAt(p1 + k))'
    BY <2>1, <2>3, <1>en2 DEF RawAt, Parse
  <2>14. \A k \in 1..Len(matching') : matching'[k] = Parse(RawAt(matched + k))'
    BY <2>1, <2>3, <1>mat DEF RawAt, Parse
  <2>15. logged' + Len(logging') = p2' /\ \A k \in 1..Len(logging') : logging'[k].line = p2'
    BY <2>1, <2>3, <1>log
  <2> QED
    BY <2>4, <2>5, <2>10, <2>11, <2>12, <2>13, <2>14, <2>15
<1>4. CASE TeeSend
  <2>1. /\ teeing \in Seq(Entry) /\ teeing # <<>> /\ Len(teeing) <= 1
        /\ entries2 \in Seq(Entry)
        /\ teeing' = <<>> /\ entries2' = Append(entries2, teeing[1])
        /\ logging' = teeing
        /\ UNCHANGED <<accepted, rawLines, parsing, entries, logged, matching, matched>>
    BY <1>4 DEF TeeSend, TypeOK, feedVars, matchVars
  <2>2. teeing[1] \in Entry /\ Len(teeing) = 1 /\ Len(teeing') = 0
    BY <2>1, Holding, EmptySeq
  <2>3. /\ Len(entries2') = Len(entries2) + 1
        /\ \A k \in 1..Len(entries2) : entries2'[k] = entries2[k]
        /\ entries2'[Len(entries2) + 1] = teeing[1]
    BY <2>1, <2>2, Sent
  <2>4. /\ p1' = p1 /\ p2' = p2 + 1 /\ p3' = p3 /\ p4' = p4 /\ p5' = p5
    <3>1. /\ matched' = matched /\ Len(matching') = Len(matching) /\ Len(entries2') = Len(entries2) + 1
          /\ Len(teeing') = Len(teeing) - 1 /\ Len(entries') = Len(entries) /\ Len(parsing') = Len(parsing)
      BY <2>1, <2>2, <2>3, <1>n
    <3> QED
      BY <3>1, <1>p, <1>q, <1>n
  <2>5. teeing[1] = Parse(RawAt(p2 + 1)) /\ p2 + 1 = p1 + Len(entries2) + 1
    <3>1. 1 \in 1..Len(teeing) /\ p2 = p1 + Len(entries2)
      BY <2>2, <1>p, <1>n
    <3> QED
      BY <3>1, <1>tee, <1>n
  <2>6. \A k \in 1..Len(entries2') : entries2'[k] = Parse(RawAt(p1 + k))'
    <3> TAKE k \in 1..Len(entries2')
    <3>2. CASE k \in 1..Len(entries2)
      BY <2>1, <2>3, <2>4, <3>2, <1>n, <1>en2 DEF RawAt, Parse
    <3>3. CASE k = Len(entries2) + 1
      BY <2>1, <2>3, <2>4, <2>5, <3>3, <1>n DEF RawAt, Parse
    <3> QED
      BY <3>2, <3>3, <2>3, <1>n
  <2>7. /\ Len(logging) = 0
        /\ logged' + Len(logging') = p2'
        /\ \A k \in 1..Len(logging') : logging'[k].line = p2'
    <3>1. Len(logging) = 0
      BY <1>4, EmptySeq DEF TeeSend, ControlOK
    <3>2. teeing[1].line = p2 + 1
      BY <2>5 DEF Parse, RawAt
    <3> QED
      BY <2>1, <2>2, <2>4, <3>1, <3>2, <1>n, <1>log
  <2>10. Len(accepted') = p5' + Len(rawLines')
    BY <2>1, <2>4, <1>len
  <2>11. \A k \in 1..Len(rawLines') : rawLines'[k] = RawAt(p5 + k)'
    BY <2>1, <2>4, <1>raw DEF RawAt
  <2>12. \A k \in 1..Len(parsing') : parsing'[k] = RawAt(p4 + k)'
    BY <2>1, <2>4, <1>par DEF RawAt
  <2>13. \A k \in 1..Len(entries') : entries'[k] = Parse(RawAt(p3 + k))'
    BY <2>1, <2>4, <1>ent DEF RawAt, Parse
  <2>14. \A k \in 1..Len(teeing') : teeing'[k] = Parse(RawAt(p2 + k))'
    BY <2>2
  <2>15. \A k \in 1..Len(matching') : matching'[k] = Parse(RawAt(matched + k))'
    BY <2>1, <2>4, <1>mat DEF RawAt, Parse
  <2> QED
    BY <2>6, <2>7, <2>10, <2>11, <2>12, <2>13, <2>14, <2>15
<1>5. CASE TeePublish
  <2>1. /\ logging \in Seq(Entry) /\ logging # <<>> /\ Len(logging) <= 1
        /\ logging' = <<>> /\ logged' = logging[1].line
        /\ UNCHANGED <<accepted, rawLines, parsing, entries, teeing, entries2, matching, matched>>
    BY <1>5 DEF TeePublish, TypeOK, feedVars, matchVars
  <2>2. Len(logging) = 1 /\ Len(logging') = 0
    BY <2>1, Holding, EmptySeq
  <2>3. /\ p1' = p1 /\ p2' = p2 /\ p3' = p3 /\ p4' = p4 /\ p5' = p5
    <3>1. /\ matched' = matched /\ Len(matching') = Len(matching) /\ Len(entries2') = Len(entries2)
          /\ Len(teeing') = Len(teeing) /\ Len(entries') = Len(entries) /\ Len(parsing') = Len(parsing)
      BY <2>1, <1>n
    <3> QED
      BY <3>1, <1>p, <1>q, <1>n
  <2>4. logged' = p2
    BY <2>1, <2>2, <1>log
  <2>10. Len(accepted') = p5' + Len(rawLines')
    BY <2>1, <2>3, <1>len
  <2>11. \A k \in 1..Len(rawLines') : rawLines'[k] = RawAt(p5 + k)'
    BY <2>1, <2>3, <1>raw DEF RawAt
  <2>12. \A k \in 1..Len(parsing') : parsing'[k] = RawAt(p4 + k)'
    BY <2>1, <2>3, <1>par DEF RawAt
  <2>13. \A k \in 1..Len(entries') : entries'[k] = Parse(RawAt(p3 + k))'
    BY <2>1, <2>3, <1>ent DEF RawAt, Parse
  <2>14. \A k \in 1..Len(teeing') : teeing'[k] = Parse(RawAt(p2 + k))'
    BY <2>1, <2>3, <1>tee DEF RawAt, Parse
  <2>15. \A k \in 1..Len(entries2') : entries2'[k] = Parse(RawAt(p1 + k))'
    BY <2>1, <2>3, <1>en2 DEF RawAt, Parse
  <2>16. \A k \in 1..Len(matching') : matching'[k] = Parse(RawAt(matched + k))'
    BY <2>1, <2>3, <1>mat DEF RawAt, Parse
  <2>17. logged' + Len(logging') = p2' /\ \A k \in 1..Len(logging') : logging'[k].line = p2'
    BY <2>1, <2>3, <2>2, <2>4, <1>n, <1>log
  <2> QED
    BY <2>10, <2>11, <2>12, <2>13, <2>14, <2>15, <2>16, <2>17
<1>6. CASE MatchReceive
  <2>1. /\ entries2 \in Seq(Entry) /\ entries2 # <<>>
        /\ matching = <<>> /\ matching' = <<Head(entries2)>> /\ entries2' = Tail(entries2)
        /\ UNCHANGED <<accepted, rawLines, parsing, entries, teeing, logging, logged, matched>>
    BY <1>6 DEF MatchReceive, TypeOK, feedVars, teeVars
  <2>2. /\ Len(matching) = 0 /\ Len(matching') = 1 /\ matching'[1] = entries2[1]
        /\ Len(entries2) > 0 /\ Len(entries2') = Len(entries2) - 1
        /\ \A k \in 1..Len(entries2') : entries2'[k] = entries2[k + 1]
    BY <2>1, Taken, Held, EmptySeq
  <2>3. /\ p1' = p1 + 1 /\ p2' = p2 /\ p3' = p3 /\ p4' = p4 /\ p5' = p5
    <3>1. /\ matched' = matched /\ Len(matching') = Len(matching) + 1 /\ Len(entries2') = Len(entries2) - 1
          /\ Len(teeing') = Len(teeing) /\ Len(entries') = Len(entries) /\ Len(parsing') = Len(parsing)
      BY <2>1, <2>2, <1>n
    <3> QED
      BY <3>1, <1>p, <1>q, <1>n
  <2>4. \A k \in 1..Len(entries2') : entries2'[k] = Parse(RawAt(p1 + k))'
    <3> TAKE k \in 1..Len(entries2')
    <3>1. k + 1 \in 1..Len(entries2) /\ p1' + k = p1 + (k + 1)
      BY <2>2, <2>3, <1>n
    <3>2. entries2'[k] = entries2[k + 1] /\ entries2[k + 1] = Parse(RawAt(p1 + (k + 1)))
      BY <2>2, <3>1, <1>en2
    <3> QED
      BY <2>1, <3>1, <3>2 DEF RawAt, Parse
  <2>5. \A k \in 1..Len(matching') : matching'[k] = Parse(RawAt(matched + k))'
    <3>1. 1 \in 1..Len(entries2) /\ matched = p1
      BY <2>2, <1>p, <1>n
    <3>2. entries2[1] = Parse(RawAt(p1 + 1))
      BY <3>1, <1>en2
    <3> QED
      BY <2>1, <2>2, <2>3, <3>1, <3>2 DEF RawAt, Parse
  <2>10. Len(accepted') = p5' + Len(rawLines')
    BY <2>1, <2>3, <1>len
  <2>11. \A k \in 1..Len(rawLines') : rawLines'[k] = RawAt(p5 + k)'
    BY <2>1, <2>3, <1>raw DEF RawAt
  <2>12. \A k \in 1..Len(parsing') : parsing'[k] = RawAt(p4 + k)'
    BY <2>1, <2>3, <1>par DEF RawAt
  <2>13. \A k \in 1..Len(entries') : entries'[k] = Parse(RawAt(p3 + k))'
    BY <2>1, <2>3, <1>ent DEF RawAt, Parse
  <2>14. \A k \in 1..Len(teeing') : teeing'[k] = Parse(RawAt(p2 + k))'
    BY <2>1, <2>3, <1>tee DEF RawAt, Parse
  <2>15. logged' + Len(logging') = p2' /\ \A k \in 1..Len(logging') : logging'[k].line = p2'
    BY <2>1, <2>3, <1>log
  <2> QED
    BY <2>4, <2>5, <2>10, <2>11, <2>12, <2>13, <2>14, <2>15
<1>7. CASE MatchDone
  <2>1. /\ matching \in Seq(Entry) /\ matching # <<>> /\ Len(matching) <= 1
        /\ matching' = <<>> /\ matched' = matched + 1
        /\ UNCHANGED <<accepted, rawLines, parsing, entries, teeing, logging, logged, entries2>>
    BY <1>7 DEF MatchDone, TypeOK, feedVars, teeVars
  <2>2. Len(matching) = 1 /\ Len(matching') = 0
    BY <2>1, Holding, EmptySeq
  <2>3. /\ p1' = p1 /\ p2' = p2 /\ p3' = p3 /\ p4' = p4 /\ p5' = p5
    <3>1. /\ matched' = matched + 1 /\ Len(matching') = Len(matching) - 1 /\ Len(entries2') = Len(entries2)
          /\ Len(teeing') = Len(teeing) /\ Len(entries') = Len(entries) /\ Len(parsing') = Len(parsing)
      BY <2>1, <2>2, <1>n
    <3> QED
      BY <3>1, <1>p, <1>q, <1>n
  <2>10. Len(accepted') = p5' + Len(rawLines')
    BY <2>1, <2>3, <1>len
  <2>11. \A k \in 1..Len(rawLines') : rawLines'[k] = RawAt(p5 + k)'
    BY <2>1, <2>3, <1>raw DEF RawAt
  <2>12. \A k \in 1..Len(parsing') : parsing'[k] = RawAt(p4 + k)'
    BY <2>1, <2>3, <1>par DEF RawAt
  <2>13. \A k \in 1..Len(entries') : entries'[k] = Parse(RawAt(p3 + k))'
    BY <2>1, <2>3, <1>ent DEF RawAt, Parse
  <2>14. \A k \in 1..Len(teeing') : teeing'[k] = Parse(RawAt(p2 + k))'
    BY <2>1, <2>3, <1>tee DEF RawAt, Parse
  <2>15. \A k \in 1..Len(entries2') : entries2'[k] = Parse(RawAt(p1 + k))'
    BY <2>1, <2>3, <1>en2 DEF RawAt, Parse
  <2>16. \A k \in 1..Len(matching') : matching'[k] = Parse(RawAt(matched + k))'
    BY <2>2
  <2>17. logged' + Len(logging') = p2' /\ \A k \in 1..Len(logging') : logging'[k].line = p2'
    BY <2>1, <2>3, <1>log
  <2> QED
    BY <2>10, <2>11, <2>12, <2>13, <2>14, <2>15, <2>16, <2>17
<1>8. CASE \E text \in Text : Emit(text)
  <2> PICK text \in Text : Emit(text)
    BY <1>8
  <2>1. /\ rawLines \in Seq(RawLine) /\ accepted \in Seq(Text)
        /\ rawLines' = Append(rawLines, [line |-> Len(accepted) + 1, text |-> text])
        /\ accepted' = Append(accepted, text)
        /\ UNCHANGED <<parsing, entries, teeing, logging, logged, entries2, matching, matched>>
    BY DEF Emit, TypeOK, teeVars, matchVars
  <2>2. [line |-> Len(accepted) + 1, text |-> text] \in RawLine
    BY <1>n DEF RawLine
  <2>3. /\ Len(accepted') = Len(accepted) + 1
        /\ \A k \in 1..Len(accepted) : accepted'[k] = accepted[k]
        /\ accepted'[Len(accepted) + 1] = text
    BY <2>1, Sent
  <2>4. /\ Len(rawLines') = Len(rawLines) + 1
        /\ \A k \in 1..Len(rawLines) : rawLines'[k] = rawLines[k]
        /\ rawLines'[Len(rawLines) + 1] = [line |-> Len(accepted) + 1, text |-> text]
    BY <2>1, <2>2, Sent
  <2>5. /\ p1' = p1 /\ p2' = p2 /\ p3' = p3 /\ p4' = p4 /\ p5' = p5
    <3>1. /\ matched' = matched /\ Len(matching') = Len(matching) /\ Len(entries2') = Len(entries2)
          /\ Len(teeing') = Len(teeing) /\ Len(entries') = Len(entries) /\ Len(parsing') = Len(parsing)
      BY <2>1, <1>n
    <3> QED
      BY <3>1, <1>p, <1>q, <1>n
  <2>6. \A k \in 1..Len(rawLines') : rawLines'[k] = RawAt(p5 + k)'
    <3> TAKE k \in 1..Len(rawLines')
    <3>2. CASE k \in 1..Len(rawLines)
      <4>1. p5 + k \in 1..Len(accepted)
        BY <3>2, <1>n, <1>len
      <4> QED
        BY <2>3, <2>4, <2>5, <3>2, <4>1, <1>raw DEF RawAt
    <3>3. CASE k = Len(rawLines) + 1
      <4>1. p5 + k = Len(accepted) + 1
        BY <3>3, <1>n, <1>len
      <4> QED
        BY <2>3, <2>4, <2>5, <3>3, <4>1 DEF RawAt
    <3> QED
      BY <3>2, <3>3, <2>4, <1>n
  <2>7. /\ p4 + Len(parsing) <= Len(accepted)
        /\ p3 + Len(entries) <= Len(accepted)
        /\ p2 + Len(teeing) <= Len(accepted)
        /\ p1 + Len(entries2) <= Len(accepted)
        /\ matched + Len(matching) <= Len(accepted)
    <3>1. p5 <= Len(accepted)
      BY <1>len, <1>n
    <3>2. p4 + Len(parsing) <= Len(accepted) /\ p4 <= Len(accepted)
      <4>1. p4 + Len(parsing) <= Len(accepted)
        BY <3>1, <1>p, Zenon
      <4> QED
        BY <4>1, <1>n, Before, Zenon
    <3>3. p3 + Len(entries) <= Len(accepted) /\ p3 <= Len(accepted)
      <4>1. p3 + Len(entries) <= Len(accepted)
        BY <3>2, <1>p, Zenon
      <4> QED
        BY <4>1, <1>n, Before, Zenon
    <3>4. p2 + Len(teeing) <= Len(accepted) /\ p2 <= Len(accepted)
      <4>1. p2 + Len(teeing) <= Len(accepted)
        BY <3>3, <1>p, Zenon
      <4> QED
        BY <4>1, <1>n, Before, Zenon
    <3>5. p1 + Len(entries2) <= Len(accepted) /\ p1 <= Len(accepted)
      <4>1. p1 + Len(entries2) <= Len(accepted)
        BY <3>4, <1>p, Zenon
      <4> QED
        BY <4>1, <1>n, Before, Zenon
    <3>6. matched + Len(matching) <= Len(accepted)
      BY <3>5, <1>p, Zenon
    <3> QED
      BY <3>2, <3>3, <3>4, <3>5, <3>6
  <2>8. \A k \in 1..Len(parsing') : parsing'[k] = RawAt(p4 + k)'
    <3> TAKE k \in 1..Len(parsing')
    <3>1. k \in 1..Len(parsing) /\ parsing'[k] = parsing[k]
      BY <2>1
    <3>2. p4 + k \in 1..Len(accepted)
      BY <2>7, <3>1, Within, <1>n
    <3>3. parsing[k] = RawAt(p4 + k)
      BY <3>1, <1>par
    <3>4. accepted'[p4 + k] = accepted[p4 + k]
      BY <3>2, <2>3
    <3> QED
      BY <2>1, <2>5, <3>1, <3>3, <3>4 DEF RawAt
  <2>9. \A k \in 1..Len(entries') : entries'[k] = Parse(RawAt(p3 + k))'
    <3> TAKE k \in 1..Len(entries')
    <3>1. k \in 1..Len(entries) /\ entries'[k] = entries[k]
      BY <2>1
    <3>2. p3 + k \in 1..Len(accepted)
      BY <2>7, <3>1, Within, <1>n
    <3>3. entries[k] = Parse(RawAt(p3 + k))
      BY <3>1, <1>ent
    <3>4. accepted'[p3 + k] = accepted[p3 + k]
      BY <3>2, <2>3
    <3> QED
      BY <2>1, <2>5, <3>1, <3>3, <3>4 DEF RawAt, Parse
  <2>11. \A k \in 1..Len(teeing') : teeing'[k] = Parse(RawAt(p2 + k))'
    <3> TAKE k \in 1..Len(teeing')
    <3>1. k \in 1..Len(teeing) /\ teeing'[k] = teeing[k]
      BY <2>1
    <3>2. p2 + k \in 1..Len(accepted)
      BY <2>7, <3>1, Within, <1>n
    <3>3. teeing[k] = Parse(RawAt(p2 + k))
      BY <3>1, <1>tee
    <3>4. accepted'[p2 + k] = accepted[p2 + k]
      BY <3>2, <2>3
    <3> QED
      BY <2>1, <2>5, <3>1, <3>3, <3>4 DEF RawAt, Parse
  <2>12. \A k \in 1..Len(entries2') : entries2'[k] = Parse(RawAt(p1 + k))'
    <3> TAKE k \in 1..Len(entries2')
    <3>1. k \in 1..Len(entries2) /\ entries2'[k] = entries2[k]
      BY <2>1
    <3>2. p1 + k \in 1..Len(accepted)
      BY <2>7, <3>1, Within, <1>n
    <3>3. entries2[k] = Parse(RawAt(p1 + k))
      BY <3>1, <1>en2
    <3>4. accepted'[p1 + k] = accepted[p1 + k]
      BY <3>2, <2>3
    <3> QED
      BY <2>1, <2>5, <3>1, <3>3, <3>4 DEF RawAt, Parse
  <2>13. \A k \in 1..Len(matching') : matching'[k] = Parse(RawAt(matched + k))'
    <3> TAKE k \in 1..Len(matching')
    <3>1. k \in 1..Len(matching) /\ matching'[k] = matching[k]
      BY <2>1
    <3>2. matched + k \in 1..Len(accepted)
      BY <2>7, <3>1, Within, <1>n
    <3>3. matching[k] = Parse(RawAt(matched + k))
      BY <3>1, <1>mat
    <3>4. accepted'[matched + k] = accepted[matched + k]
      BY <3>2, <2>3
    <3> QED
      BY <2>1, <2>5, <3>1, <3>3, <3>4 DEF RawAt, Parse
  <2>10. Len(accepted') = p5' + Len(rawLines')
    <3>1. Len(accepted') = Len(accepted) + 1
      BY <2>3
    <3>2. Len(rawLines') = Len(rawLines) + 1
      BY <2>4
    <3>3. p5' = p5
      BY <2>5
    <3> QED
      BY <3>1, <3>2, <3>3, <1>n, <1>len
  <2>14. logged' + Len(logging') = p2' /\ \A k \in 1..Len(logging') : logging'[k].line = p2'
    BY <2>1, <2>5, <1>log
  <2> QED
    BY <2>14, <2>6, <2>8, <2>9, <2>10, <2>11, <2>12, <2>13
<1>9. CASE UNCHANGED <<accepted, rawLines, parsing, entries, teeing, logging, logged,
                       entries2, matching, matched>>
  BY <1>9, FlowStutter DEF p1, p2, p3, p4, p5, Flow, NothingLost, LogFlow, HoldsRaw, HoldsEntries
<1>10. \/ ParserReceive \/ ParserSend \/ TeeReceive \/ TeeSend \/ TeePublish
       \/ MatchReceive \/ MatchDone
       \/ \E text \in Text : Emit(text)
       \/ UNCHANGED <<accepted, rawLines, parsing, entries, teeing, logging, logged,
                      entries2, matching, matched>>
  BY DEF Next, Test, Arm, Stamp, MatchSend, DispatchReceive, Count, Publish, Act, DispatchDone,
         PushPublish, PushCount, Tick, Quiet, vars, feedVars, teeVars, matchVars
<1> QED
  BY <1>1, <1>2, <1>3, <1>4, <1>5, <1>6, <1>7, <1>8, <1>9, <1>10

\* Between the tailers and the rules no line is lost, repeated, reordered or
\* altered, whatever the capacities and however the goroutines are scheduled.
THEOREM NothingIsLost == Spec => []NothingLost
<1>1. Flow => NothingLost
  BY DEF Flow
<1> QED
  BY <1>1, TypesAndControl, FlowInit, FlowStep, PTL DEF Spec
=============================================================================
