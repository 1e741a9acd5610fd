---------------------------- MODULE EngineProofs ----------------------------
(***************************************************************************)
(* Theorems about what Pipeline makes of the lines: the alerts, their      *)
(* cooldowns and their way through Dispatch, and that the pipeline         *)
(* implements the sequential engine of Engine.tla. For any rules, channel  *)
(* capacities and numbers of lines.                                        *)
(***************************************************************************)
EXTENDS PipelineProofs

\* Dispatch and its queue.
Queued == DispatchInOrder

\* What is known of a rule while it is between its test and its send. Cleared
\* stands for all earlier alerts of that rule.
Cleared(t) ==
  \A i \in 1..Len(fired) : fired[i].rule = rule => t - fired[i].armed >= Cooldown[rule]

Due ==
  /\ step # "test" => matches(rule, matching[1])
  /\ step = "arm" => Cleared(now)
  /\ step = "stamp" /\ Cooldown[rule] # 0 => Cleared(lastFired[rule])
  /\ step = "send" =>
       /\ outbox[1].rule = rule /\ outbox[1].line = matching[1].line
       /\ outbox[1].armed <= outbox[1].time /\ outbox[1].time <= now
       /\ Cooldown[rule] # 0 => outbox[1].armed = lastFired[rule]
       /\ Cleared(outbox[1].armed)

\* No alert was armed after its rule was last armed, nor in the future.
Clocked ==
  /\ \A r \in Rule : lastFired[r] <= now /\ (lastFired[r] # Never => Cooldown[r] # 0)
  /\ \A i \in 1..Len(fired) :
       /\ fired[i].armed <= now
       /\ Cooldown[fired[i].rule] # 0 =>
            lastFired[fired[i].rule] # Never /\ fired[i].armed <= lastFired[fired[i].rule]

\* A rule that is cooling has an alert to show for it, unless that alert is still
\* being sent.
Accounted ==
  \A r \in Rule : lastFired[r] # Never /\ ~(r = rule /\ step \in {"stamp", "send"}) =>
    \E i \in 1..Len(fired) : fired[i].rule = r /\ fired[i].armed = lastFired[r]

\* No alert is of a line that the rules have not been given.
Reached == \A i \in 1..Len(fired) : fired[i].line <= TakenByMatch

Sound == TypeOK /\ ControlOK /\ Flow

\* What PipelineProofs shows of the types, the control and the flow.
LEMMA AlwaysSound == Spec => []Sound
BY TypesAndControl, FlowInit, FlowStep, PTL DEF Spec, Sound

\* The histories and the queue of alerts are sequences with lengths, as are the
\* entries of tried.
LEMMA FiredTypes ==
  ASSUME TypeOK
  PROVE  /\ fired \in Seq(Alert) /\ Len(fired) \in Nat
         /\ alerts \in Seq(Alert) /\ Len(alerts) \in Nat
         /\ tried \in Seq(Seq(Output)) /\ Len(tried) \in Nat
         /\ \A i \in 1..Len(fired) : fired[i] \in Alert
         /\ \A i \in 1..Len(tried) : tried[i] \in Seq(Output) /\ Len(tried[i]) \in Nat
<1>1. fired \in Seq(Alert) /\ alerts \in Seq(Alert) /\ tried \in Seq(Seq(Output))
  BY DEF TypeOK
<1>2. /\ Len(fired) \in Nat /\ fired \in [1..Len(fired) -> Alert]
      /\ Len(alerts) \in Nat
      /\ Len(tried) \in Nat /\ tried \in [1..Len(tried) -> Seq(Output)]
  BY <1>1, LenProperties
<1>3. \A i \in 1..Len(tried) : tried[i] \in Seq(Output)
  BY <1>2
<1>4. \A i \in 1..Len(tried) : Len(tried[i]) \in Nat
  BY <1>3, LenProperties
<1> QED
  BY <1>1, <1>2, <1>3, <1>4

\* What a difference says.
LEMMA Difference ==
  ASSUME NEW a \in Nat, NEW b \in Nat
  PROVE  a - b > 0 => b < a /\ b + 1 \in 1..a
OBVIOUS
-----------------------------------------------------------------------------
(* Dispatch *)

\* No alert is raised or dispatched at the start.
LEMMA QueuedInit == Init => Queued /\ OutputsIndependent
<1> SUFFICES ASSUME Init PROVE Queued /\ OutputsIndependent
  OBVIOUS
<1>1. Len(<<>>) = 0
  BY EmptySeq
<1> QED
  BY <1>1 DEF Init, Queued, DispatchInOrder, OutputsIndependent

\* A step that Dispatch and its queue have no part in.
LEMMA QueuedStutter ==
  ASSUME Queued, OutputsIndependent,
         UNCHANGED <<alerts, fired, dispatchVars, pushVars>>
  PROVE  Queued' /\ OutputsIndependent'
BY DEF Queued, DispatchInOrder, OutputsIndependent, dispatchVars, pushVars

\* What an output's return changes.
LEMMA OutputReturns ==
  ASSUME TypeOK, ControlOK, TypeOK', NEW ok \in BOOLEAN, Act(ok),
         NEW n, n = Len(tried),
         NEW asked, asked = Actions[dispatching[1].rule]
  PROVE  /\ n \in Nat \ {0} /\ Len(tried') = n
         /\ \A i \in 1..n : i # n => tried'[i] = tried[i]
         /\ Len(asked) \in Nat /\ Len(tried[n]) \in Nat /\ Len(tried[n]) < Len(asked)
         /\ Len(tried'[n]) = Len(tried[n]) + 1
         /\ \A k \in 1..Len(tried[n]) : tried'[n][k] = tried[n][k]
         /\ tried'[n][Len(tried[n]) + 1].action = asked[Len(tried[n]) + 1]
<1> DEFINE o == [action |-> asked[Len(tried[n]) + 1], ok |-> ok]
<1>1. /\ tried \in Seq(Seq(Output)) /\ tried # <<>> /\ tried' \in Seq(Seq(Output))
      /\ dispatching \in Seq(Alert) /\ dispatching # <<>> /\ Len(dispatching) <= 1
      /\ tried' = [tried EXCEPT ![n] = Append(tried[n], o)]
  BY DEF Act, NextOutput, Outputs, TypeOK, ControlOK
<1>0. Len(asked) - Len(tried[n]) > 0
  BY DEF Act, Remaining, Outputs
<1>2. n \in Nat \ {0} /\ DOMAIN tried = 1..n
  BY <1>1, EmptySeq, LenProperties
<1>3. tried[n] \in Seq(Output) /\ Len(tried[n]) \in Nat
  BY <1>2, FiredTypes
<1>4. asked \in Seq(STRING) /\ Len(asked) \in Nat
  <2>1. dispatching[1] \in Alert
    BY <1>1, Holding
  <2>2. asked \in Seq(STRING)
    BY <2>1, PipelineAssumption DEF Alert
  <2> QED
    BY <2>2, LenProperties
<1>5. o \in Output
  <2>1. Len(tried[n]) + 1 \in 1..Len(asked) /\ asked \in [1..Len(asked) -> STRING]
    BY <1>0, <1>3, <1>4, Difference, LenProperties
  <2> QED
    BY <2>1 DEF Output
<1>6. o.action = asked[Len(tried[n]) + 1]
  OBVIOUS
<1> HIDE DEF o
<1>7. /\ Append(tried[n], o) \in Seq(Output)
      /\ Len(Append(tried[n], o)) = Len(tried[n]) + 1
      /\ \A k \in 1..Len(tried[n]) : Append(tried[n], o)[k] = tried[n][k]
      /\ Append(tried[n], o)[Len(tried[n]) + 1] = o
  BY <1>3, <1>5, Sent
<1>8. /\ Len(tried') = n
      /\ \A i \in 1..n : tried'[i] = IF i = n THEN Append(tried[n], o) ELSE tried[i]
  BY <1>1, <1>2, <1>7, ExceptSeq
<1>9. tried'[n] = Append(tried[n], o)
  <2>1. n \in 1..n
    BY <1>2
  <2> QED
    BY <1>8, <2>1
<1>10. \A i \in 1..n : i # n => tried'[i] = tried[i]
  BY <1>8
<1>11. Len(tried[n]) < Len(asked)
  BY <1>0, <1>3, <1>4, Difference
<1> QED
  BY <1>2, <1>3, <1>4, <1>6, <1>7, <1>8, <1>9, <1>10, <1>11

\* Every step of the pipeline keeps the queue in order and the outputs apart.
LEMMA QueuedStep ==
  ASSUME TypeOK, ControlOK, TypeOK', Queued, OutputsIndependent, [Next]_vars
  PROVE  Queued' /\ OutputsIndependent'
<1>t. /\ fired \in Seq(Alert) /\ Len(fired) \in Nat
      /\ alerts \in Seq(Alert) /\ Len(alerts) \in Nat
      /\ tried \in Seq(Seq(Output)) /\ Len(tried) \in Nat
  BY FiredTypes
<1>q. /\ Len(fired) = Len(tried) + Len(alerts)
      /\ \A k \in 1..Len(alerts) : alerts[k] = fired[Len(tried) + k]
      /\ \A k \in 1..Len(dispatching) : dispatching[k] = fired[Len(tried)]
      /\ alertCount + pushing = published + pushed + (IF phase = "publish" THEN 1 ELSE 0)
      /\ Len(tried) - published = IF phase \in {"count", "publish"} THEN 1 ELSE 0
      /\ alertCount \in Nat /\ published \in Nat /\ pushed \in Nat /\ pushing \in Nat
  BY DEF Queued, DispatchInOrder, TypeOK
<1>c. /\ alertCount + pushing = published + pushed + (IF phase = "publish" THEN 1 ELSE 0)
      /\ alertCount \in Nat /\ published \in Nat /\ pushed \in Nat /\ pushing \in Nat
  BY <1>q
<1>o. \A i \in 1..Len(tried) :
        /\ Len(tried[i]) <= Len(Actions[fired[i].rule])
        /\ \A k \in 1..Len(tried[i]) : tried[i][k].action = Actions[fired[i].rule][k]
        /\ i < Len(tried) \/ phase = "idle" => Len(tried[i]) = Len(Actions[fired[i].rule])
  BY DEF OutputsIndependent
<1>d. phase # "idle" => /\ Len(dispatching) = 1 /\ dispatching[1] = fired[Len(tried)]
                        /\ Len(tried) > 0
  <2>1. phase # "idle" => dispatching # <<>> /\ tried # <<>>
    BY DEF ControlOK
  <2>2. phase # "idle" => Len(dispatching) = 1
    BY <2>1, Holding DEF TypeOK
  <2>3. tried # <<>> => Len(tried) > 0
    BY <1>t, EmptySeq
  <2> QED
    BY <1>q, <2>1, <2>2, <2>3
<1>1. CASE MatchSend
  <2>1. /\ outbox \in Seq(Alert) /\ outbox # <<>> /\ Len(outbox) <= 1
        /\ alerts' = Append(alerts, outbox[1]) /\ fired' = Append(fired, outbox[1])
        /\ UNCHANGED <<dispatching, phase, alertCount, published, tried, pushed, pushing>>
    BY <1>1 DEF MatchSend, TypeOK, ControlOK, dispatchVars, pushVars
  <2>2. outbox[1] \in Alert
    BY <2>1, Holding
  <2>3. /\ Len(alerts') = Len(alerts) + 1 /\ Len(fired') = Len(fired) + 1
        /\ \A k \in 1..Len(alerts) : alerts'[k] = alerts[k]
        /\ \A k \in 1..Len(fired) : fired'[k] = fired[k]
        /\ alerts'[Len(alerts) + 1] = outbox[1] /\ fired'[Len(fired) + 1] = outbox[1]
    BY <2>1, <2>2, <1>t, Sent
  <2>4. \A k \in 1..Len(alerts') : alerts'[k] = fired'[Len(tried') + k]
    <3> TAKE k \in 1..Len(alerts')
    <3>1. CASE k \in 1..Len(alerts)
      <4>1. Len(tried) + k \in 1..Len(fired)
        BY <3>1, <1>t, <1>q
      <4> QED
        BY <2>1, <2>3, <3>1, <4>1, <1>q
    <3>2. CASE k = Len(alerts) + 1
      <4>1. Len(tried) + k = Len(fired) + 1
        BY <3>2, <1>t, <1>q
      <4> QED
        BY <2>1, <2>3, <3>2, <4>1
    <3> QED
      BY <2>3, <3>1, <3>2, <1>t, SMTT(40)
  <2>5. \A i \in 1..Len(tried) : fired'[i] = fired[i]
    BY <2>3, <1>q, <1>t
  <2>6. \A k \in 1..Len(dispatching') : dispatching'[k] = fired'[Len(tried')]
    <3>1. CASE phase = "idle"
      BY <2>1, <3>1, EmptySeq DEF ControlOK
    <3>2. CASE phase # "idle"
      <4>1. Len(tried) \in 1..Len(tried)
        BY <3>2, <1>d, <1>t
      <4> QED
        BY <2>1, <2>5, <4>1, <1>q
    <3> QED
      BY <3>1, <3>2
  <2>9. Len(fired') = Len(tried') + Len(alerts')
    BY <2>1, <2>3, <1>q, <1>t
  <2>7. Queued'
    BY <2>1, <2>4, <2>6, <2>9, <1>q DEF Queued, DispatchInOrder
  <2>8. OutputsIndependent'
    <3>1. ASSUME NEW i \in 1..Len(tried)
          PROVE  /\ Len(tried[i]) <= Len(Actions[fired'[i].rule])
                 /\ \A k \in 1..Len(tried[i]) : tried[i][k].action = Actions[fired'[i].rule][k]
                 /\ i < Len(tried) \/ phase = "idle" => Len(tried[i]) = Len(Actions[fired'[i].rule])
      <4>1. fired'[i] = fired[i]
        BY <2>5
      <4> QED
        BY <4>1, <1>o, Zenon
    <3>2. tried' = tried /\ phase' = phase
      BY <2>1
    <3> QED
      BY <3>1, <3>2, Zenon DEF OutputsIndependent
  <2> QED
    BY <2>7, <2>8
<1>2. CASE DispatchReceive
  <2>1. /\ phase = "idle" /\ phase' = "count" /\ alerts # <<>>
        /\ dispatching' = <<Head(alerts)>> /\ alerts' = Tail(alerts)
        /\ tried' = Append(tried, <<>>)
        /\ UNCHANGED <<alertCount, published, fired, pushed, pushing>>
    BY <1>2 DEF DispatchReceive, matchVars, pushVars
  <2>2. /\ Len(dispatching') = 1 /\ dispatching'[1] = alerts[1]
        /\ Len(alerts) > 0 /\ Len(alerts') = Len(alerts) - 1
        /\ \A k \in 1..Len(alerts') : alerts'[k] = alerts[k + 1]
    BY <2>1, <1>t, Taken, Held
  <2>3. /\ Len(tried') = Len(tried) + 1
        /\ \A i \in 1..Len(tried) : tried'[i] = tried[i]
        /\ tried'[Len(tried) + 1] = <<>> /\ Len(tried'[Len(tried) + 1]) = 0
    <3> DEFINE S == Seq(Output)
    <3>1. <<>> \in S /\ tried \in Seq(S) /\ Len(<<>>) = 0
      BY <1>t, Empty
    <3> HIDE DEF S
    <3> QED
      BY <2>1, <3>1, Sent
  <2>4. \A k \in 1..Len(alerts') : alerts'[k] = fired'[Len(tried') + k]
    <3> TAKE k \in 1..Len(alerts')
    <3>1. k + 1 \in 1..Len(alerts) /\ Len(tried') + k = Len(tried) + (k + 1)
      BY <2>2, <2>3, <1>t
    <3> QED
      BY <2>1, <2>2, <3>1, <1>q
  <2>5. \A k \in 1..Len(dispatching') : dispatching'[k] = fired'[Len(tried')]
    <3>1. 1 \in 1..Len(alerts)
      BY <2>2, <1>t
    <3> QED
      BY <2>1, <2>2, <2>3, <3>1, <1>q
  <2>8. Len(fired') = Len(tried') + Len(alerts')
    BY <2>1, <2>2, <2>3, <1>q, <1>t
  <2>9. Len(tried') - published' = 1
    <3>1. Len(tried) - published = 0 /\ published' = published
      BY <2>1, <1>q
    <3>2. Len(tried') = Len(tried) + 1
      BY <2>3
    <3> QED
      BY <3>1, <3>2, <1>t, <1>q
  <2>6. Queued'
    BY <2>1, <2>4, <2>5, <2>8, <2>9, <1>q DEF Queued, DispatchInOrder
  <2>7. ASSUME NEW i \in 1..Len(tried')
        PROVE  /\ Len(tried'[i]) <= Len(Actions[fired'[i].rule])
               /\ \A k \in 1..Len(tried'[i]) : tried'[i][k].action = Actions[fired'[i].rule][k]
               /\ i < Len(tried') \/ phase' = "idle" =>
                    Len(tried'[i]) = Len(Actions[fired'[i].rule])
    <3>1. CASE i \in 1..Len(tried)
      BY <2>1, <2>3, <3>1, <1>o
    <3>2. CASE i = Len(tried) + 1
      <4>1. i \in 1..Len(fired)
        BY <2>2, <3>2, <1>q, <1>t
      <4>2. fired[i] \in Alert
        BY <4>1, FiredTypes
      <4>3. Actions[fired[i].rule] \in Seq(STRING)
        BY <4>2, PipelineAssumption DEF Alert
      <4>4. Len(Actions[fired[i].rule]) \in Nat
        BY <4>3, LenProperties
      <4> QED
        BY <2>1, <2>3, <3>2, <4>4
    <3> QED
      BY <2>3, <3>1, <3>2, <1>t
  <2> QED
    BY <2>6, <2>7 DEF OutputsIndependent
<1>3. CASE Count \/ Publish
  <2>1. /\ UNCHANGED <<alerts, fired, dispatching, tried, pushed, pushing>>
        /\ phase # "idle" /\ phase' # "idle"
        /\ \/ phase = "count" /\ phase' = "publish" /\ alertCount' = alertCount + 1
              /\ published' = published
           \/ phase = "publish" /\ phase' = "act" /\ published' = published + 1
              /\ alertCount' = alertCount
    BY <1>3 DEF Count, Publish, matchVars, pushVars
  <2>4. alertCount' + pushing' = published' + pushed' + (IF phase' = "publish" THEN 1 ELSE 0)
    <3>1. CASE phase = "count"
      <4>1. alertCount + pushing = published + pushed + 0
        BY <3>1, <1>c
      <4>2. (alertCount + 1) + pushing = published + pushed + 1
        BY <4>1, <1>c
      <4> QED
        BY <2>1, <3>1, <4>2
    <3>2. CASE phase = "publish"
      <4>1. alertCount + pushing = published + pushed + 1
        BY <3>2, <1>c
      <4>2. alertCount + pushing = (published + 1) + pushed + 0
        BY <4>1, <1>c
      <4> QED
        BY <2>1, <3>2, <4>2
    <3> QED
      BY <2>1, <3>1, <3>2
  <2>5. Len(tried') - published' = IF phase' \in {"count", "publish"} THEN 1 ELSE 0
    BY <2>1, <1>q, <1>t, SMTT(40)
  <2>2. Queued'
    BY <2>1, <2>4, <2>5, <1>q DEF Queued, DispatchInOrder
  <2>3. OutputsIndependent'
    BY <2>1, <1>o DEF OutputsIndependent
  <2> QED
    BY <2>2, <2>3
<1>4. ASSUME NEW ok \in BOOLEAN, Act(ok) PROVE Queued' /\ OutputsIndependent'
  <2> DEFINE n == Len(tried)
             asked == Actions[dispatching[1].rule]
  <2>1. /\ n \in Nat \ {0} /\ Len(tried') = n
        /\ \A i \in 1..n : i # n => tried'[i] = tried[i]
        /\ Len(asked) \in Nat /\ Len(tried[n]) \in Nat /\ Len(tried[n]) < Len(asked)
        /\ Len(tried'[n]) = Len(tried[n]) + 1
        /\ \A k \in 1..Len(tried[n]) : tried'[n][k] = tried[n][k]
        /\ tried'[n][Len(tried[n]) + 1].action = asked[Len(tried[n]) + 1]
    BY <1>4, OutputReturns
  <2>2. /\ phase = "act"
        /\ UNCHANGED <<alerts, fired, dispatching, phase, alertCount, published, pushed, pushing>>
    BY <1>4 DEF Act, matchVars, pushVars
  <2>3. Queued'
    BY <2>1, <2>2 DEF Queued, DispatchInOrder
  <2>4. asked = Actions[fired[n].rule]
    BY <2>2, <1>d
  <2> HIDE DEF asked
  <2>5. ASSUME NEW i \in 1..Len(tried')
        PROVE  /\ Len(tried'[i]) <= Len(Actions[fired'[i].rule])
               /\ \A k \in 1..Len(tried'[i]) : tried'[i][k].action = Actions[fired'[i].rule][k]
               /\ i < Len(tried') \/ phase' = "idle" =>
                    Len(tried'[i]) = Len(Actions[fired'[i].rule])
    <3>1. CASE i # n
      <4>1. i \in 1..n /\ tried'[i] = tried[i] /\ fired'[i] = fired[i] /\ Len(tried') = n /\ phase' = phase
        BY <2>1, <2>2, <3>1
      <4> QED
        BY <4>1, <1>o, Zenon
    <3>2. CASE i = n
      <4>1. \A k \in 1..Len(tried[n]) : tried[n][k].action = asked[k]
        BY <2>1, <2>4, <1>o
      <4>2. \A k \in 1..Len(tried'[n]) : tried'[n][k].action = asked[k]
        BY <2>1, <4>1
      <4>3. Len(tried'[n]) <= Len(asked) /\ ~(n < Len(tried')) /\ phase' # "idle"
        BY <2>1, <2>2
      <4> QED
        BY <2>2, <2>4, <3>2, <4>2, <4>3
    <3> QED
      BY <3>1, <3>2
  <2> QED
    BY <2>3, <2>5 DEF OutputsIndependent
<1>5. CASE DispatchDone
  <2>1. /\ phase = "act" /\ phase' = "idle" /\ dispatching' = <<>>
        /\ Len(Actions[dispatching[1].rule]) - Len(tried[Len(tried)]) = 0
        /\ UNCHANGED <<alerts, fired, alertCount, published, tried, pushed, pushing>>
    BY <1>5 DEF DispatchDone, Remaining, Outputs, matchVars, pushVars
  <2>2. Len(dispatching') = 0
    BY <2>1, EmptySeq
  <2>3. Queued'
    BY <2>1, <2>2, <1>q DEF Queued, DispatchInOrder
  <2>4. Len(tried[Len(tried)]) = Len(Actions[fired[Len(tried)].rule])
    <3>1. Len(tried) \in 1..Len(tried) /\ dispatching[1] = fired[Len(tried)]
      BY <2>1, <1>d, <1>t
    <3>2. Len(tried[Len(tried)]) \in Nat
      BY <3>1, FiredTypes
    <3>3. Len(Actions[fired[Len(tried)].rule]) \in Nat
      <4>1. Len(tried) \in 1..Len(fired)
        BY <3>1, <1>q, <1>t
      <4>2. fired[Len(tried)] \in Alert
        BY <4>1, FiredTypes
      <4>3. Actions[fired[Len(tried)].rule] \in Seq(STRING)
        BY <4>2, PipelineAssumption DEF Alert
      <4> QED
        BY <4>3, LenProperties
    <3> QED
      BY <2>1, <3>1, <3>2, <3>3
  <2>5. OutputsIndependent'
    <3>1. \A i \in 1..Len(tried) : Len(tried[i]) = Len(Actions[fired[i].rule])
      BY <2>4, <1>o, <1>t
    <3> QED
      BY <2>1, <3>1, <1>o DEF OutputsIndependent
  <2> QED
    BY <2>3, <2>5
<1>6. CASE UNCHANGED <<alerts, fired, dispatchVars, pushVars>>
  BY <1>6, QueuedStutter
<1>7. CASE PushPublish \/ PushCount
  <2>1. /\ UNCHANGED <<alerts, fired, dispatching, phase, published, tried>>
        /\ \/ pushed' = pushed + 1 /\ pushing' = pushing + 1 /\ alertCount' = alertCount
           \/ pushed' = pushed /\ pushing' = pushing - 1 /\ alertCount' = alertCount + 1
    BY <1>7 DEF PushPublish, PushCount, matchVars, dispatchVars
  <2>2. alertCount' + pushing' = published' + pushed' + (IF phase' = "publish" THEN 1 ELSE 0)
    <3> DEFINE x == IF phase = "publish" THEN 1 ELSE 0
    <3>1. x \in Nat /\ alertCount + pushing = published + pushed + x
      BY <1>c
    <3>2. x' = x /\ published' = published
      BY <2>1
    <3> HIDE DEF x
    <3>3. /\ alertCount + (pushing + 1) = published + (pushed + 1) + x
          /\ (alertCount + 1) + (pushing - 1) = published + pushed + x
      BY <3>1, <1>c
    <3>4. alertCount' + pushing' = published' + pushed' + x'
      BY <2>1, <3>2, <3>3
    <3> QED
      BY <3>4 DEF x
  <2>3. Queued'
    BY <2>1, <2>2, <1>q DEF Queued, DispatchInOrder
  <2>4. OutputsIndependent'
    BY <2>1, <1>o DEF OutputsIndependent
  <2> QED
    BY <2>3, <2>4
<1> QED
  BY <1>1, <1>2, <1>3, <1>4, <1>5, <1>6, <1>7
     DEF Next, Emit, ParserReceive, ParserSend, TeeReceive, TeeSend, TeePublish, MatchReceive,
         Test, Arm, Stamp, MatchDone, Tick, Quiet, vars, matchVars, dispatchVars, pushVars

\* The queue's count and the outputs' histories are exact always.
LEMMA AlwaysQueued == Spec => [](Sound /\ Queued /\ OutputsIndependent)
<1>1. Sound /\ Sound' /\ Queued /\ OutputsIndependent /\ [Next]_vars
        => (Queued /\ OutputsIndependent)'
  BY QueuedStep DEF Sound
<1> QED
  BY <1>1, AlwaysSound, QueuedInit, PTL DEF Spec

\* Dispatch takes the alerts in their order and each once, and the count that
\* it shares with the handlers of pushed alerts differs from the number of
\* alerts broadcast by no more than what they have in hand.
THEOREM AlertsInOrder == Spec => []DispatchInOrder
<1>1. Queued => DispatchInOrder
  BY DEF Queued
<1> QED
  BY <1>1, AlwaysQueued, PTL

\* An output that fails keeps no other from the alert, for any list of actions.
THEOREM OutputsServed == Spec => []OutputsIndependent
BY AlwaysQueued, PTL
-----------------------------------------------------------------------------
(* The rules *)

Ruled == Due /\ Clocked /\ Accounted

\* At the start no rule has fired, and none is under test.
LEMMA RuledInit == Init => Ruled
<1> SUFFICES ASSUME Init PROVE Ruled
  OBVIOUS
<1>1. Len(<<>>) = 0
  BY EmptySeq
<1> QED
  BY <1>1 DEF Init, Ruled, Due, Clocked, Accounted, Never

\* A step that rules.Match and the clock have no part in.
LEMMA RuledStutter ==
  ASSUME Ruled, UNCHANGED <<matchVars, now>>
  PROVE  Ruled'
BY DEF Ruled, Due, Cleared, Clocked, Accounted, matches, matchVars

\* What the types say of the rules' state.
LEMMA RuleTypes ==
  ASSUME TypeOK
  PROVE  /\ now \in Nat /\ rule \in 1..(NumRules + 1)
         /\ \A r \in Rule : lastFired[r] \in Int /\ Cooldown[r] \in Nat
         /\ \A i \in 1..Len(fired) : fired[i].rule \in Rule /\ fired[i].armed \in Nat
<1>1. \A i \in 1..Len(fired) : fired[i].rule \in Rule /\ fired[i].armed \in Nat
  <2>1. \A i \in 1..Len(fired) : fired[i] \in Alert
    BY FiredTypes
  <2> QED
    BY <2>1 DEF Alert
<1>2. now \in Nat /\ rule \in 1..(NumRules + 1) /\ lastFired \in [Rule -> Nat \cup {-1}]
  BY DEF TypeOK, Never
<1>3. Cooldown \in [Rule -> Nat]
  BY PipelineAssumption
<1>4. ASSUME NEW r \in Rule PROVE lastFired[r] \in Int /\ Cooldown[r] \in Nat
  <2>1. lastFired[r] \in Nat \cup {-1}
    BY <1>2
  <2> QED
    BY <1>3, <2>1
<1> QED
  BY <1>1, <1>2, <1>4

\* The test of a rule: it goes on to the next rule, or finds all its earlier
\* alerts a cooldown ago.
LEMMA TestRuled ==
  ASSUME TypeOK, ControlOK, Ruled, Test
  PROVE  Ruled'
<1>1. /\ step = "test" /\ rule \in Rule
      /\ UNCHANGED <<matching, lastFired, outbox, fired, now>>
  BY RuleTypes DEF Test, Rule, TypeOK
<1>2. \/ rule' = rule + 1 /\ step' = "test"
      \/ /\ rule' = rule /\ matches(rule, matching[1])
         /\ \/ Cooldown[rule] = 0 /\ step' = "stamp"
            \/ Cooldown[rule] # 0 /\ cooldownOver(rule) /\ step' = "arm"
  BY <1>1 DEF Test
<1>3. Clocked'
  BY <1>1 DEF Ruled, Clocked
<1>4. Accounted'
  BY <1>1 DEF Ruled, Accounted
<1>5. CASE step' = "test"
  BY <1>3, <1>4, <1>5 DEF Ruled, Due
<1>6. CASE step' = "stamp"
  BY <1>1, <1>2, <1>3, <1>4, <1>6 DEF Ruled, Due, matches
<1>7. CASE step' = "arm"
  <2>1. rule' = rule /\ matches(rule, matching[1]) /\ Cooldown[rule] # 0 /\ cooldownOver(rule)
    BY <1>2, <1>7
  <2>2. Cleared(now)
    <3> SUFFICES ASSUME NEW i \in 1..Len(fired), fired[i].rule = rule
                 PROVE  now - fired[i].armed >= Cooldown[rule]
      BY DEF Cleared
    <3>1. lastFired[rule] # Never /\ fired[i].armed <= lastFired[rule]
      BY <2>1 DEF Ruled, Clocked
    <3>2. now - lastFired[rule] >= Cooldown[rule]
      BY <2>1, <3>1 DEF cooldownOver
    <3> QED
      BY <1>1, <3>1, <3>2, RuleTypes
  <2>3. Due'
    BY <1>1, <1>7, <2>1, <2>2 DEF Due, Cleared, matches
  <2> QED
    BY <1>3, <1>4, <2>3 DEF Ruled
<1> QED
  BY <1>2, <1>5, <1>6, <1>7

\* The cooldown starts now: later than for any earlier alert of the rule.
LEMMA ArmRuled ==
  ASSUME TypeOK, ControlOK, Ruled, Arm
  PROVE  Ruled'
<1>1. /\ step = "arm" /\ step' = "stamp" /\ rule \in Rule /\ Cooldown[rule] # 0
      /\ UNCHANGED <<matching, rule, outbox, fired, now>>
      /\ lastFired' = [lastFired EXCEPT ![rule] = now]
      /\ now \in Nat
  BY RuleTypes DEF Arm, Rule, ControlOK
<1>2. \A r \in Rule : lastFired'[r] = IF r = rule THEN now ELSE lastFired[r]
  BY <1>1 DEF TypeOK
<1>3. Clocked'
  <2>1. \A r \in Rule : lastFired'[r] <= now' /\ (lastFired'[r] # Never => Cooldown[r] # 0)
    BY <1>1, <1>2 DEF Ruled, Clocked
  <2>2. ASSUME NEW i \in 1..Len(fired)
        PROVE  /\ fired[i].armed <= now
               /\ Cooldown[fired[i].rule] # 0 =>
                    lastFired'[fired[i].rule] # Never /\ fired[i].armed <= lastFired'[fired[i].rule]
    <3>1. fired[i].rule \in Rule
      BY RuleTypes
    <3>2. now # Never
      BY <1>1 DEF Never
    <3> QED
      BY <1>2, <3>1, <3>2 DEF Ruled, Clocked
  <2> QED
    BY <1>1, <2>1, <2>2 DEF Clocked
<1>4. Accounted'
  BY <1>1, <1>2 DEF Ruled, Accounted
<1>5. Due'
  BY <1>1, <1>2 DEF Ruled, Due, Cleared, matches
<1> QED
  BY <1>3, <1>4, <1>5 DEF Ruled

\* The alert is built with the time its cooldown started, or with now.
LEMMA StampRuled ==
  ASSUME TypeOK, ControlOK, Ruled, Stamp
  PROVE  Ruled'
<1> DEFINE a == [rule |-> rule, line |-> matching[1].line, time |-> now,
                 armed |-> IF Cooldown[rule] = 0 THEN now ELSE lastFired[rule]]
<1>1. /\ step = "stamp" /\ step' = "send" /\ rule \in Rule
      /\ UNCHANGED <<matching, rule, lastFired, fired, now>>
      /\ outbox' = <<a>>
  BY RuleTypes DEF Stamp, Rule, ControlOK
<1>2. /\ a.rule = rule /\ a.line = matching[1].line /\ a.time = now
      /\ a.armed = IF Cooldown[rule] = 0 THEN now ELSE lastFired[rule]
  OBVIOUS
<1> HIDE DEF a
<1>3. outbox'[1] = a
  BY <1>1
<1>4. a.armed <= now /\ now \in Nat
  BY <1>1, <1>2, RuleTypes DEF Ruled, Clocked
<1>5. Cleared(a.armed)
  <2> SUFFICES ASSUME NEW i \in 1..Len(fired), fired[i].rule = rule
               PROVE  a.armed - fired[i].armed >= Cooldown[rule]
    BY DEF Cleared
  <2>1. CASE Cooldown[rule] = 0
    <3>1. fired[i].armed <= now /\ fired[i].armed \in Nat
      BY RuleTypes DEF Ruled, Clocked
    <3>2. a.armed = now /\ now \in Nat
      BY <1>2, <2>1, RuleTypes
    <3> QED
      BY <2>1, <3>1, <3>2
  <2>2. CASE Cooldown[rule] # 0
    BY <1>1, <1>2, <2>2 DEF Ruled, Due, Cleared
  <2> QED
    BY <2>1, <2>2
<1>6. Due'
  <2>1. matches(rule, matching[1])'
    BY <1>1 DEF Ruled, Due, matches
  <2>2. \A i \in 1..Len(fired') :
          fired'[i].rule = rule' => a.armed - fired'[i].armed >= Cooldown[rule']
    BY <1>1, <1>5 DEF Cleared
  <2>3. Cleared(outbox[1].armed)'
    BY <1>3, <2>2 DEF Cleared
  <2>4. /\ outbox'[1].rule = rule' /\ outbox'[1].line = matching'[1].line
        /\ outbox'[1].armed <= outbox'[1].time /\ outbox'[1].time <= now'
        /\ Cooldown[rule'] # 0 => outbox'[1].armed = lastFired'[rule']
    BY <1>1, <1>2, <1>3, <1>4
  <2> QED
    BY <1>1, <2>1, <2>3, <2>4 DEF Due
<1>7. Clocked' /\ Accounted'
  BY <1>1 DEF Ruled, Clocked, Accounted
<1> QED
  BY <1>6, <1>7 DEF Ruled

\* The alert joins the others, and its rule is tested no further for this line.
LEMMA SendRuled ==
  ASSUME TypeOK, ControlOK, Ruled, MatchSend
  PROVE  Ruled'
<1> DEFINE a == outbox[1]
<1>1. /\ step = "send" /\ step' = "test" /\ rule \in Rule
      /\ UNCHANGED <<lastFired, now>> /\ rule' = rule + 1
      /\ fired' = Append(fired, a)
      /\ outbox \in Seq(Alert) /\ outbox # <<>> /\ Len(outbox) <= 1
  BY RuleTypes DEF MatchSend, Rule, ControlOK, TypeOK
<1>2. a \in Alert
  BY <1>1, Holding
<1>3. /\ a.rule = rule /\ a.armed <= a.time /\ a.time <= now /\ a.armed \in Nat /\ a.time \in Nat
      /\ Cooldown[rule] # 0 => a.armed = lastFired[rule]
  BY <1>1, <1>2 DEF Ruled, Due, Alert
<1> HIDE DEF a
<1>4. /\ Len(fired') = Len(fired) + 1 /\ Len(fired) \in Nat
      /\ \A i \in 1..Len(fired) : fired'[i] = fired[i]
      /\ fired'[Len(fired) + 1] = a
  BY <1>1, <1>2, FiredTypes, Sent
<1>5. Due'
  BY <1>1 DEF Due
<1>6. Clocked'
  <2>1. ASSUME NEW i \in 1..Len(fired')
        PROVE  /\ fired'[i].armed <= now
               /\ Cooldown[fired'[i].rule] # 0 =>
                    lastFired[fired'[i].rule] # Never /\ fired'[i].armed <= lastFired[fired'[i].rule]
    <3>1. CASE i \in 1..Len(fired)
      BY <1>4, <3>1 DEF Ruled, Clocked
    <3>2. CASE i = Len(fired) + 1
      BY <1>3, <1>4, <3>2, RuleTypes DEF Never
    <3> QED
      BY <1>4, <3>1, <3>2
  <2> QED
    BY <1>1, <2>1 DEF Ruled, Clocked
<1>7. Accounted'
  <2> SUFFICES ASSUME NEW r \in Rule, lastFired[r] # Never
               PROVE  \E i \in 1..Len(fired') : fired'[i].rule = r /\ fired'[i].armed = lastFired[r]
    BY <1>1 DEF Accounted
  <2>1. CASE r = rule
    <3>1. Cooldown[r] # 0
      BY DEF Ruled, Clocked
    <3>2. Len(fired) + 1 \in 1..Len(fired')
      BY <1>4
    <3> QED
      BY <1>3, <1>4, <2>1, <3>1, <3>2
  <2>2. CASE r # rule
    <3>1. PICK i \in 1..Len(fired) : fired[i].rule = r /\ fired[i].armed = lastFired[r]
      BY <2>2 DEF Ruled, Accounted
    <3>2. i \in 1..Len(fired')
      BY <1>4
    <3> QED
      BY <1>4, <3>1, <3>2
  <2> QED
    BY <2>1, <2>2
<1> QED
  BY <1>5, <1>6, <1>7 DEF Ruled

\* Every step keeps what is known of the rules.
LEMMA RuledStep ==
  ASSUME TypeOK, ControlOK, Ruled, [Next]_vars
  PROVE  Ruled'
<1>1. CASE Test \/ Arm \/ Stamp \/ MatchSend
  BY <1>1, TestRuled, ArmRuled, StampRuled, SendRuled
<1>2. CASE MatchReceive
  <2>1. step = "test" /\ UNCHANGED <<rule, step, lastFired, outbox, fired, now>>
    BY <1>2 DEF MatchReceive, ControlOK
  <2> QED
    BY <2>1 DEF Ruled, Due, Clocked, Accounted
<1>3. CASE MatchDone
  <2>1. step = "test" /\ UNCHANGED <<step, lastFired, outbox, fired, now>>
    BY <1>3, RuleTypes, PipelineAssumption DEF MatchDone, ControlOK
  <2> QED
    BY <2>1 DEF Ruled, Due, Clocked, Accounted
<1>4. CASE Tick
  <2>1. now' = now + 1 /\ now \in Nat /\ UNCHANGED matchVars
    BY <1>4, RuleTypes DEF Tick
  <2>2. Clocked'
    <3>1. \A r \in Rule : lastFired[r] <= now' /\ (lastFired[r] # Never => Cooldown[r] # 0)
      BY <2>1, RuleTypes DEF Ruled, Clocked
    <3>2. \A i \in 1..Len(fired) : fired[i].armed <= now'
      BY <2>1, RuleTypes DEF Ruled, Clocked
    <3> QED
      BY <2>1, <3>1, <3>2 DEF Ruled, Clocked, matchVars
  <2>3. Accounted'
    BY <2>1 DEF Ruled, Accounted, matchVars
  <2>4. Due'
    <3>1. step = "arm" => Cleared(now')
      <4> SUFFICES ASSUME step = "arm", NEW i \in 1..Len(fired), fired[i].rule = rule
                   PROVE  now' - fired[i].armed >= Cooldown[rule]
        BY DEF Cleared
      <4>1. now - fired[i].armed >= Cooldown[rule]
        BY DEF Ruled, Due, Cleared
      <4>2. Cooldown[rule] \in Nat /\ fired[i].armed \in Nat
        BY RuleTypes
      <4> QED
        BY <2>1, <4>1, <4>2
    <3>2. step = "send" => outbox[1].time <= now'
      <4> SUFFICES ASSUME step = "send" PROVE outbox[1].time <= now'
        OBVIOUS
      <4>1. outbox[1] \in Alert
        BY Holding DEF ControlOK, TypeOK
      <4>2. outbox[1].time \in Nat /\ outbox[1].time <= now
        BY <4>1 DEF Alert, Ruled, Due
      <4> QED
        BY <2>1, <4>2
    <3> QED
      BY <2>1, <3>1, <3>2 DEF Ruled, Due, Cleared, matches, matchVars
  <2> QED
    BY <2>2, <2>3, <2>4 DEF Ruled
<1>5. CASE UNCHANGED <<matchVars, now>>
  BY <1>5, RuledStutter
<1> QED
  BY <1>1, <1>2, <1>3, <1>4, <1>5
     DEF Next, Emit, ParserReceive, ParserSend, TeeReceive, TeeSend, TeePublish,
         DispatchReceive, Count, Publish, Act, DispatchDone, PushPublish, PushCount, Quiet, vars, matchVars

\* What is known of the rules, their alerts and the clock holds always.
LEMMA AlwaysRuled == Spec => [](Sound /\ Queued /\ Ruled)
<1>1. Sound /\ Ruled /\ [Next]_vars => Ruled'
  BY RuledStep DEF Sound
<1> QED
  BY <1>1, AlwaysQueued, RuledInit, PTL DEF Spec

\* A new alert is a cooldown later than the earlier ones of its rule.
LEMMA CooldownStep ==
  ASSUME Sound, Ruled, CooldownRespected, [Next]_vars
  PROVE  CooldownRespected'
<1>1. CASE MatchSend
  <2>1. /\ step = "send" /\ fired' = Append(fired, outbox[1])
        /\ outbox \in Seq(Alert) /\ outbox # <<>> /\ Len(outbox) <= 1
    BY <1>1 DEF MatchSend, Sound, ControlOK, TypeOK
  <2>2. outbox[1] \in Alert
    BY <2>1, Holding
  <2>3. /\ Len(fired') = Len(fired) + 1 /\ Len(fired) \in Nat
        /\ \A i \in 1..Len(fired) : fired'[i] = fired[i]
        /\ fired'[Len(fired) + 1] = outbox[1]
    BY <2>1, <2>2, FiredTypes, Sent DEF Sound
  <2>4. outbox[1].rule = rule /\ Cleared(outbox[1].armed)
    BY <2>1 DEF Ruled, Due
  <2> SUFFICES ASSUME NEW i \in 1..Len(fired'), NEW j \in 1..Len(fired'),
                      i < j, fired'[i].rule = fired'[j].rule
               PROVE  fired'[j].armed - fired'[i].armed >= Cooldown[fired'[i].rule]
    BY DEF CooldownRespected
  <2>5. i \in 1..Len(fired)
    BY <2>3
  <2>6. CASE j \in 1..Len(fired)
    BY <2>3, <2>5, <2>6 DEF CooldownRespected
  <2>7. CASE j = Len(fired) + 1
    BY <2>3, <2>4, <2>5, <2>7 DEF Cleared
  <2> QED
    BY <2>3, <2>6, <2>7
<1>2. CASE UNCHANGED fired
  BY <1>2 DEF CooldownRespected
<1> QED
  BY <1>1, <1>2
     DEF Next, Emit, ParserReceive, ParserSend, TeeReceive, TeeSend, TeePublish,
         MatchReceive, Test, Arm, Stamp, MatchDone, DispatchReceive, Count, Publish, Act,
         DispatchDone, PushPublish, PushCount, Tick, Quiet, vars, matchVars

\* Two alerts of one rule are armed at least its cooldown apart, for any
\* cooldowns and however long the sends have to wait.
THEOREM CooldownHolds == Spec => []CooldownRespected
<1>1. Init => CooldownRespected
  <2>1. Len(<<>>) = 0
    BY EmptySeq
  <2> QED
    BY <2>1 DEF Init, CooldownRespected
<1> QED
  BY <1>1, CooldownStep, AlwaysRuled, PTL DEF Spec
-----------------------------------------------------------------------------
(* The log stream *)

\* The entry in the rules' hand is the line after those they have finished.
LEMMA InHand ==
  ASSUME Sound, matching # <<>>
  PROVE  /\ Len(matching) = 1 /\ matched \in Nat
         /\ matched + 1 \in 1..Len(accepted)
         /\ matching[1] = Parse(RawAt(matched + 1))
         /\ matching[1].line = matched + 1 /\ matching[1].text = accepted[matched + 1]
<1>1. Len(matching) = 1
  BY Holding DEF Sound, TypeOK
<1>2. matched \in Nat /\ matched + 1 <= Len(accepted) /\ Len(accepted) \in Nat
  <2>1. Len(accepted) = matched + Len(matching) + Len(entries2) + Len(teeing) + Len(entries)
                        + Len(parsing) + Len(rawLines)
    BY DEF Sound, Flow, NothingLost, TakenByMatch, SentByTee, TakenByTee,
           SentByParser, TakenByParser
  <2>2. /\ Len(rawLines) \in Nat /\ Len(parsing) \in Nat /\ Len(entries) \in Nat
        /\ Len(teeing) \in Nat /\ Len(entries2) \in Nat /\ matched \in Nat
    BY Lengths DEF Sound
  <2> QED
    BY <1>1, <2>1, <2>2
<1>3. matching[1] = Parse(RawAt(matched + 1))
  BY <1>1 DEF Sound, Flow, NothingLost, HoldsEntries
<1> QED
  BY <1>1, <1>2, <1>3 DEF Parse, RawAt

\* An alert reaches no further than the line the rules were given.
LEMMA ReachedStep ==
  ASSUME Sound, Ruled, Reached, [Next]_vars
  PROVE  Reached'
<1>t. /\ Len(matching) \in Nat /\ matched \in Nat /\ Len(fired) \in Nat
      /\ \A i \in 1..Len(fired) : fired[i].line \in Nat
  BY Lengths, FiredTypes DEF Sound, Alert
<1>1. CASE MatchSend
  <2>1. /\ step = "send" /\ fired' = Append(fired, outbox[1]) /\ UNCHANGED <<matching, matched>>
        /\ outbox \in Seq(Alert) /\ outbox # <<>> /\ Len(outbox) <= 1 /\ matching # <<>>
    BY <1>1 DEF MatchSend, Sound, ControlOK, TypeOK
  <2>2. outbox[1] \in Alert
    BY <2>1, Holding
  <2>3. /\ Len(fired') = Len(fired) + 1 /\ Len(fired) \in Nat
        /\ \A i \in 1..Len(fired) : fired'[i] = fired[i]
        /\ fired'[Len(fired) + 1] = outbox[1]
    BY <2>1, <2>2, FiredTypes, Sent DEF Sound
  <2>4. outbox[1].line = matched + Len(matching)
    BY <2>1, InHand DEF Ruled, Due
  <2> QED
    BY <1>t, <2>1, <2>3, <2>4 DEF Reached, TakenByMatch
<1>2. CASE MatchReceive
  <2>1. Len(matching) = 0 /\ Len(matching') = 1 /\ UNCHANGED <<fired, matched>>
    BY <1>2, Held, EmptySeq DEF MatchReceive
  <2> QED
    BY <1>t, <2>1 DEF Reached, TakenByMatch
<1>3. CASE MatchDone
  <2>1. Len(matching) = 1 /\ Len(matching') = 0 /\ matched' = matched + 1 /\ UNCHANGED fired
    BY <1>3, Holding, EmptySeq DEF MatchDone, Sound, TypeOK
  <2> QED
    BY <1>t, <2>1 DEF Reached, TakenByMatch
<1>4. CASE UNCHANGED <<fired, matching, matched>>
  BY <1>4 DEF Reached, TakenByMatch
<1> QED
  BY <1>1, <1>2, <1>3, <1>4
     DEF Next, Emit, ParserReceive, ParserSend, TeeReceive, TeeSend, TeePublish,
         Test, Arm, Stamp, DispatchReceive, Count, Publish, Act,
         DispatchDone, PushPublish, PushCount, Tick, Quiet, vars, matchVars

\* The rules never raise an alert for a line that they have not taken.
LEMMA AlwaysReached == Spec => [](Sound /\ Queued /\ Ruled /\ Reached)
<1>1. Init => Reached
  <2>1. Len(<<>>) = 0
    BY EmptySeq
  <2> QED
    BY <2>1 DEF Init, Reached
<1> QED
  BY <1>1, ReachedStep, AlwaysRuled, PTL DEF Spec

\* teeLogEntries is at most one line behind the rules in what it has published,
\* for any capacities, so an alert is published before no log event but that of
\* its own line. (Of the order on a page it says nothing.)
THEOREM LogNearlyLevel == Spec => []LogOneBehind
<1>1. ASSUME Sound, Queued, Reached PROVE LogOneBehind
  <2>1. /\ logged \in Nat /\ Len(logging) \in Nat /\ Len(logging) <= 1
        /\ Len(entries2) \in Nat /\ TakenByMatch \in Nat
        /\ logged + Len(logging) = TakenByMatch + Len(entries2)
    BY <1>1, Lengths DEF Sound, Flow, LogFlow, TypeOK, SentByTee
  <2>2. Len(logging) = SentByTee - logged
    BY <2>1 DEF SentByTee
  <2>3. /\ Len(fired) \in Nat /\ Len(tried) \in Nat /\ Len(alerts) \in Nat /\ published \in Nat
        /\ \A i \in 1..Len(fired) : fired[i] \in Alert
    BY <1>1, FiredTypes DEF Sound, TypeOK
  <2>4. published <= Len(fired)
    <3>1. Len(tried) - published = 1 \/ Len(tried) - published = 0
      BY <1>1 DEF Queued, DispatchInOrder
    <3>2. Len(fired) = Len(tried) + Len(alerts)
      BY <1>1 DEF Queued, DispatchInOrder
    <3> QED
      BY <2>3, <3>1, <3>2
  <2>5. ASSUME NEW i \in 1..published PROVE fired[i].line <= logged + 1
    <3>1. i \in 1..Len(fired)
      BY <2>3, <2>4
    <3>2. fired[i].line \in Nat /\ fired[i].line <= TakenByMatch
      BY <1>1, <2>3, <3>1 DEF Reached, Alert
    <3> QED
      BY <2>1, <3>2
  <2> QED
    BY <2>2, <2>5 DEF LogOneBehind
<1> QED
  BY <1>1, AlwaysReached, PTL
-----------------------------------------------------------------------------
(* The pipeline implements the sequential engine *)

\* The rules of the engine match a line as the pipeline's match its entry.
LEMMA SameMatch ==
  ASSUME Sound, matching # <<>>, NEW r \in Rule
  PROVE  matches(r, matching[1]) <=>
           <<r, accepted[matched + 1]>> \in
             {m \in Rule \X Text : matches(m[1], Parse([line |-> 0, text |-> m[2]]))}
<1>1. matched + 1 \in 1..Len(accepted) /\ matching[1] = Parse(RawAt(matched + 1))
  BY InHand
<1>2. accepted[matched + 1] \in Text
  <2>1. accepted \in [1..Len(accepted) -> Text]
    BY LenProperties DEF Sound, TypeOK
  <2> QED
    BY <1>1, <2>1
<1>3. /\ matching[1].text = accepted[matched + 1]
      /\ matching[1].level = LevelOf[accepted[matched + 1]]
  BY <1>1 DEF Parse, RawAt
<1>4. <<r, accepted[matched + 1]>> \in Rule \X Text
  BY <1>2
<1> DEFINE e == Parse([line |-> 0, text |-> accepted[matched + 1]])
<1>5. e.text = accepted[matched + 1] /\ e.level = LevelOf[accepted[matched + 1]]
  BY DEF Parse
<1>6. matches(r, matching[1]) <=> matches(r, e)
  BY <1>3, <1>5 DEF matches
<1> QED
  BY <1>4, <1>6

\* While the rules have an entry in hand, the engine is deciding its line.
LEMMA SameDeciding ==
  ASSUME Sound, matching # <<>>
  PROVE  /\ Eng!Deciding <=> rule <= NumRules
         /\ rule \in Rule => (Eng!Hit <=> matches(rule, matching[1]))
<1>1. matched + 1 <= Len(accepted)
  BY InHand
<1> QED
  BY <1>1, SameMatch DEF Eng!Deciding, Eng!Hit

\* The first lines and the empty pipeline map to the engine's first state.
LEMMA EngineInit == Init => Eng!Init
<1> SUFFICES ASSUME Init PROVE Eng!Init
  OBVIOUS
<1> QED
  BY DEF Init, Eng!Init

\* A test that leaves the rule behind is the engine's Pass.
LEMMA TestIsPass ==
  ASSUME Sound, Ruled, Test
  PROVE  Eng!Pass \/ UNCHANGED Eng!vars
<1>1. /\ matching # <<>> /\ step = "test" /\ rule \in Rule /\ rule <= NumRules
      /\ UNCHANGED <<accepted, matched, now, fired>>
  BY RuleTypes DEF Test, Rule, Sound, feedVars
<1>2. CASE rule' = rule
  BY <1>1, <1>2 DEF Eng!vars
<1>3. CASE rule' # rule
  <2>1. /\ rule' = rule + 1
        /\ ~matches(rule, matching[1]) \/ (Cooldown[rule] # 0 /\ ~cooldownOver(rule))
    BY <1>3 DEF Test
  <2>2. ~Eng!Hit \/ Eng!Cooling(rule, now)
    <3>1. CASE ~matches(rule, matching[1])
      BY <1>1, <3>1, SameDeciding
    <3>2. CASE ~cooldownOver(rule)
      <4>1. lastFired[rule] # Never /\ ~(now - lastFired[rule] >= Cooldown[rule])
        BY <3>2 DEF cooldownOver
      <4>2. PICK i \in 1..Len(fired) : fired[i].rule = rule /\ fired[i].armed = lastFired[rule]
        BY <1>1, <4>1 DEF Ruled, Accounted
      <4>3. now - fired[i].armed < Cooldown[rule]
        <5>1. now \in Nat /\ lastFired[rule] \in Int /\ Cooldown[rule] \in Nat
          BY <1>1, RuleTypes DEF Sound
        <5> QED
          BY <4>1, <4>2, <5>1
      <4> QED
        BY <4>2, <4>3 DEF Eng!Cooling
    <3> QED
      BY <2>1, <3>1, <3>2
  <2> QED
    BY <1>1, <2>1, <2>2, SameDeciding DEF Eng!Pass
<1> QED
  BY <1>2, <1>3

\* The send of an alert is the engine's Fire, at the times the alert carries.
LEMMA SendIsFire ==
  ASSUME Sound, Ruled, MatchSend
  PROVE  \E armed, time \in 0..now : Eng!Fire(armed, time)
<1> DEFINE a == outbox[1]
<1>1. /\ step = "send" /\ matching # <<>> /\ rule \in Rule /\ rule <= NumRules
      /\ outbox \in Seq(Alert) /\ outbox # <<>> /\ Len(outbox) <= 1
      /\ fired' = Append(fired, a) /\ rule' = rule + 1
      /\ UNCHANGED <<accepted, matched, now>>
  BY RuleTypes DEF MatchSend, Rule, Sound, ControlOK, TypeOK, feedVars
<1>2. a \in Alert
  BY <1>1, Holding
<1>3. /\ matches(rule, matching[1])
      /\ a.rule = rule /\ a.line = matched + 1
      /\ a.armed <= a.time /\ a.time <= now /\ Cleared(a.armed)
  BY <1>1, InHand DEF Ruled, Due
<1>4. a.armed \in 0..now /\ a.time \in 0..now
  <2>1. a.armed \in Nat /\ a.time \in Nat /\ now \in Nat
    BY <1>2, RuleTypes DEF Alert, Sound
  <2> QED
    BY <1>3, <2>1
<1>5. a = [rule |-> rule, line |-> matched + 1, armed |-> a.armed, time |-> a.time]
  BY <1>2, <1>3 DEF Alert
<1> HIDE DEF a
<1>6. ~Eng!Cooling(rule, a.armed)
  <2> SUFFICES ASSUME NEW i \in 1..Len(fired), fired[i].rule = rule
               PROVE  ~(a.armed - fired[i].armed < Cooldown[rule])
    BY DEF Eng!Cooling
  <2>1. a.armed - fired[i].armed >= Cooldown[rule]
    BY <1>3 DEF Cleared
  <2>2. a.armed \in Nat /\ fired[i].armed \in Nat /\ Cooldown[rule] \in Nat
    BY <1>1, <1>4, RuleTypes DEF Sound
  <2> QED
    BY <2>1, <2>2
<1>7. Eng!Fire(a.armed, a.time)
  BY <1>1, <1>3, <1>5, <1>6, SameDeciding DEF Eng!Fire
<1> QED
  BY <1>4, <1>7

\* Every step of the pipeline is a step of the engine, or one it does not see.
LEMMA EngineStep ==
  ASSUME Sound, Ruled, [Next]_vars
  PROVE  [Eng!Next]_Eng!vars
<1>1. ASSUME NEW text \in Text, Emit(text) PROVE Eng!Arrive(text)
  BY <1>1 DEF Emit, Eng!Arrive, matchVars
<1>2. CASE Test
  BY <1>2, TestIsPass DEF Eng!Next
<1>3. CASE MatchSend
  BY <1>3, SendIsFire DEF Eng!Next
<1>4. CASE MatchDone
  <2>1. /\ matching # <<>> /\ rule = NumRules + 1 /\ rule' = 1 /\ matched' = matched + 1
        /\ UNCHANGED <<accepted, now, fired>>
    BY <1>4 DEF MatchDone, feedVars
  <2>2. matched + 1 <= Len(accepted)
    BY <2>1, InHand
  <2>3. Eng!NextLine
    BY <2>1, <2>2 DEF Eng!NextLine
  <2> QED
    BY <2>3 DEF Eng!Next
<1>5. CASE Tick
  <2>1. Eng!Tick
    BY <1>5 DEF Tick, Eng!Tick, feedVars, matchVars
  <2> QED
    BY <2>1 DEF Eng!Next
<1>6. CASE UNCHANGED <<accepted, matched, rule, now, fired>>
  BY <1>6 DEF Eng!vars
<1> QED
  BY <1>1, <1>2, <1>3, <1>4, <1>5, <1>6
     DEF Next, ParserReceive, ParserSend, TeeReceive, TeeSend, TeePublish,
         MatchReceive, Arm, Stamp, DispatchReceive, Count, Publish, Act,
         DispatchDone, PushPublish, PushCount, Quiet, vars, feedVars, matchVars, Eng!Next

\* The goroutines and channels decide the lines as the sequential engine does,
\* for any rules, capacities and interleaving: the abstract specification holds.
THEOREM ImplementsEngine == Spec => IsEngine
BY EngineInit, EngineStep, AlwaysRuled, PTL DEF Spec, IsEngine, Eng!Spec
=============================================================================
