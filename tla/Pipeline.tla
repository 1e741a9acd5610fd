------------------------------ MODULE Pipeline ------------------------------
(***************************************************************************)
(* The pipeline that cmdRun and cmdPipe start: one goroutine per stage,    *)
(* joined by buffered channels.                                            *)
(*                                                                         *)
(*   tailers / stdin --rawLines--> parser.Run --entries--> teeLogEntries   *)
(*      --entries2--> rules.Match --alerts--> dispatcher.Dispatch          *)
(*                                                                         *)
(* teeLogEntries also publishes every entry to the LogBroker, Dispatch     *)
(* every alert to the Broker; Broker.tla models what a publication does.   *)
(*                                                                         *)
(* A line is known by its number, its place in the order of arrival, and   *)
(* by its text, a member of a small set: what the rules tell apart. What a *)
(* goroutine holds between a receive and a send is a sequence of length 0  *)
(* or 1. Time is counted in the unit of the cooldowns.                     *)
(***************************************************************************)
EXTENDS Integers, Sequences, Levels

CONSTANTS
  Text,       \* the contents of lines
  LevelOf,    \* per text, the level the parser gives it
  NumRules,   \* the config's rules are 1..NumRules, in its order
  Valid,      \* the rules whose pattern compiles
  Hits,       \* <<rule, text>>: the rule's pattern matches its field of the text
  MinLevel,   \* per rule, its level filter, "" for none
  Cooldown,   \* per rule, its cooldown, 0 for none
  Actions,    \* per rule, its list of actions
  RawCap, EntCap, AlertCap,   \* the channels' capacities: 1000, 1000, 100
  MaxLines, MaxTime, MaxPushes   \* bounds

Rule == 1..NumRules

ASSUME PipelineAssumption ==
  /\ NumRules \in Nat
  /\ Valid \subseteq Rule
  /\ LevelOf \in [Text -> STRING]
  /\ MinLevel \in [Rule -> STRING]
  /\ Cooldown \in [Rule -> Nat]
  /\ \A r \in Rule : Actions[r] \in Seq(STRING)
  /\ RawCap \in Nat \ {0} /\ EntCap \in Nat \ {0} /\ AlertCap \in Nat \ {0}
  /\ MaxLines \in Nat /\ MaxTime \in Nat /\ MaxPushes \in Nat

VARIABLES
  accepted,   \* the texts of the lines sent to rawLines so far
  rawLines, entries, entries2, alerts,   \* the channels
  parsing,    \* parser.Run: the line received
  teeing,     \* teeLogEntries: the entry received, not yet sent on
  logging,    \* teeLogEntries: the entry sent on, not yet published
  logged,     \* the number of the last line published to the LogBroker
  matching,   \* rules.Match: the entry being matched
  matched,    \* rules.Match: how many entries it has finished
  rule,       \* rules.Match: the rule the entry is tested against
  step,       \* rules.Match: where it is in the test of that rule
  lastFired,  \* per rule, the time its cooldown started
  outbox,     \* rules.Match: the alert being sent
  now,        \* the clock
  fired,      \* the alerts sent so far
  dispatching, \* Dispatch: the alert received
  phase,      \* Dispatch: what it does next with it
  alertCount, \* Stats.alerts
  published,  \* how many alerts Dispatch has published to the Broker
  tried,      \* per alert received by Dispatch, its outputs so far: [action, ok]
  pushed,     \* how many alerts of a pipe the dashboard has published to the Broker
  pushing     \* the handlePushAlert calls that have published and not yet counted

vars == <<accepted, rawLines, entries, entries2, alerts, parsing, teeing, logging,
          logged, matching, matched, rule, step, lastFired, outbox, now, fired,
          dispatching, phase, alertCount, published, tried, pushed, pushing>>

feedVars == <<accepted, rawLines, parsing>>
teeVars == <<teeing, logging, logged>>
matchVars == <<matching, matched, rule, step, lastFired, outbox, fired>>
dispatchVars == <<dispatching, phase, alertCount, published, tried>>
pushVars == <<pushed, pushing>>

Never == -1

Init ==
  /\ accepted = <<>>
  /\ rawLines = <<>> /\ entries = <<>> /\ entries2 = <<>> /\ alerts = <<>>
  /\ parsing = <<>> /\ teeing = <<>> /\ logging = <<>> /\ logged = 0
  /\ matching = <<>> /\ matched = 0 /\ rule = 1 /\ step = "test"
  /\ lastFired = [r \in Rule |-> Never]
  /\ outbox = <<>> /\ now = 0 /\ fired = <<>>
  /\ dispatching = <<>> /\ phase = "idle" /\ alertCount = 0 /\ published = 0
  /\ tried = <<>> /\ pushed = 0 /\ pushing = 0
-----------------------------------------------------------------------------
(* The tailers and the parser *)

\* Some tailer, or the stdin reader, sends the next line.
Emit(text) ==
  /\ Len(accepted) < MaxLines
  /\ Len(rawLines) < RawCap
  /\ accepted' = Append(accepted, text)
  /\ rawLines' = Append(rawLines, [line |-> Len(accepted) + 1, text |-> text])
  /\ UNCHANGED <<entries, entries2, alerts, parsing, now, pushVars, teeVars, matchVars, dispatchVars>>

ParserReceive ==
  /\ parsing = <<>>
  /\ rawLines # <<>>
  /\ parsing' = <<Head(rawLines)>>
  /\ rawLines' = Tail(rawLines)
  /\ UNCHANGED <<accepted, entries, entries2, alerts, now, pushVars, teeVars, matchVars, dispatchVars>>

\* Parse fills in what later stages read: the level.
Parse(raw) == [line |-> raw.line, text |-> raw.text, level |-> LevelOf[raw.text]]

\* Mutant: a send that does not wait for room.
ParserSend_NoWait ==
  /\ parsing # <<>>
  /\ entries' = Append(entries, Parse(parsing[1]))
  /\ parsing' = <<>>
  /\ UNCHANGED <<accepted, rawLines, entries2, alerts, now, pushVars, teeVars, matchVars, dispatchVars>>

ParserSend ==
  /\ parsing # <<>>
  /\ Len(entries) < EntCap
  /\ entries' = Append(entries, Parse(parsing[1]))
  /\ parsing' = <<>>
  /\ UNCHANGED <<accepted, rawLines, entries2, alerts, now, pushVars, teeVars, matchVars, dispatchVars>>
-----------------------------------------------------------------------------
(* teeLogEntries *)

\* Mutant: the publication is left to a goroutine that is not waited for.
TeeReceive_Eager ==
  /\ teeing = <<>>
  /\ entries # <<>>
  /\ teeing' = <<Head(entries)>>
  /\ entries' = Tail(entries)
  /\ UNCHANGED <<entries2, alerts, logging, logged, now, pushVars, feedVars, matchVars, dispatchVars>>

TeeReceive ==
  /\ teeing = <<>> /\ logging = <<>>
  /\ entries # <<>>
  /\ teeing' = <<Head(entries)>>
  /\ entries' = Tail(entries)
  /\ UNCHANGED <<entries2, alerts, logging, logged, now, pushVars, feedVars, matchVars, dispatchVars>>

\* Mutant: a select with a default, as in Publish.
TeeSend_Drops ==
  /\ teeing # <<>>
  /\ entries2' = IF Len(entries2) < EntCap THEN Append(entries2, teeing[1]) ELSE entries2
  /\ teeing' = <<>>
  /\ logging' = teeing
  /\ UNCHANGED <<entries, alerts, logged, now, pushVars, feedVars, matchVars, dispatchVars>>

TeeSend ==
  /\ teeing # <<>>
  /\ Len(entries2) < EntCap
  /\ entries2' = Append(entries2, teeing[1])
  /\ teeing' = <<>>
  /\ logging' = teeing
  /\ UNCHANGED <<entries, alerts, logged, now, pushVars, feedVars, matchVars, dispatchVars>>

TeePublish ==
  /\ logging # <<>>
  /\ logged' = logging[1].line
  /\ logging' = <<>>
  /\ UNCHANGED <<entries, entries2, alerts, teeing, now, pushVars, feedVars, matchVars, dispatchVars>>
-----------------------------------------------------------------------------
(* rules.Match *)

\* compile drops the rules whose pattern is invalid.
matches(r, e) ==
  /\ r \in Valid
  /\ MinLevel[r] # "" => levelAtLeast(e.level, MinLevel[r])
  /\ <<r, e.text>> \in Hits

\* Mutant: the boundary of the cooldown is still inside it.
cooldownOver_Exclusive(r) == lastFired[r] = Never \/ now - lastFired[r] > Cooldown[r]

\* time.Since of a rule that never fired is longer than any cooldown.
cooldownOver(r) == lastFired[r] = Never \/ now - lastFired[r] >= Cooldown[r]

MatchReceive ==
  /\ matching = <<>>
  /\ entries2 # <<>>
  /\ matching' = <<Head(entries2)>>
  /\ entries2' = Tail(entries2)
  /\ UNCHANGED <<entries, alerts, matched, rule, step, lastFired, outbox, fired, now, pushVars,
                 feedVars, teeVars, dispatchVars>>

\* r.matches(entry) && r.cooldownOK(), up to the comparison in cooldownOK.
Test ==
  /\ matching # <<>> /\ step = "test" /\ rule <= NumRules
  /\ IF ~matches(rule, matching[1]) \/ (Cooldown[rule] # 0 /\ ~cooldownOver(rule))
     THEN rule' = rule + 1 /\ step' = step
     ELSE rule' = rule /\ step' = IF Cooldown[rule] = 0 THEN "stamp" ELSE "arm"
  /\ UNCHANGED <<entries, entries2, alerts, matching, matched, lastFired, outbox, fired, now, pushVars,
                 feedVars, teeVars, dispatchVars>>

\* Mutant: cooldownOK does not record the time.
Arm_Forgets ==
  /\ step = "arm"
  /\ step' = "stamp"
  /\ UNCHANGED <<entries, entries2, alerts, matching, matched, rule, lastFired, outbox, fired, now, pushVars,
                 feedVars, teeVars, dispatchVars>>

\* The second reading of the clock in cooldownOK.
Arm ==
  /\ step = "arm"
  /\ lastFired' = [lastFired EXCEPT ![rule] = now]
  /\ step' = "stamp"
  /\ UNCHANGED <<entries, entries2, alerts, matching, matched, rule, outbox, fired, now, pushVars,
                 feedVars, teeVars, dispatchVars>>

\* The third: the alert is built before the send that may have to wait.
Stamp ==
  /\ step = "stamp"
  /\ outbox' = <<[rule |-> rule, line |-> matching[1].line, time |-> now,
                  armed |-> IF Cooldown[rule] = 0 THEN now ELSE lastFired[rule]]>>
  /\ step' = "send"
  /\ UNCHANGED <<entries, entries2, alerts, matching, matched, rule, lastFired, fired, now, pushVars,
                 feedVars, teeVars, dispatchVars>>

MatchSend ==
  /\ step = "send"
  /\ Len(alerts) < AlertCap
  /\ alerts' = Append(alerts, outbox[1])
  /\ fired' = Append(fired, outbox[1])
  /\ outbox' = <<>>
  /\ rule' = rule + 1
  /\ step' = "test"
  /\ UNCHANGED <<entries, entries2, matching, matched, lastFired, now, pushVars,
                 feedVars, teeVars, dispatchVars>>

MatchDone ==
  /\ matching # <<>> /\ rule = NumRules + 1
  /\ matching' = <<>>
  /\ matched' = matched + 1
  /\ rule' = 1
  /\ UNCHANGED <<entries, entries2, alerts, step, lastFired, outbox, fired, now, pushVars,
                 feedVars, teeVars, dispatchVars>>
-----------------------------------------------------------------------------
(* Dispatch *)

DispatchReceive ==
  /\ phase = "idle"
  /\ alerts # <<>>
  /\ dispatching' = <<Head(alerts)>>
  /\ alerts' = Tail(alerts)
  /\ phase' = "count"
  /\ tried' = Append(tried, <<>>)
  /\ UNCHANGED <<entries, entries2, alertCount, published, now, pushVars, feedVars, teeVars, matchVars>>

\* Mutant: the alert is not counted.
Count_Missing ==
  /\ phase = "count"
  /\ phase' = "publish"
  /\ UNCHANGED <<entries, entries2, alerts, dispatching, alertCount, published, tried, now, pushVars,
                 feedVars, teeVars, matchVars>>

\* stats.IncAlerts
Count ==
  /\ phase = "count"
  /\ alertCount' = alertCount + 1
  /\ phase' = "publish"
  /\ UNCHANGED <<entries, entries2, alerts, dispatching, published, tried, now, pushVars,
                 feedVars, teeVars, matchVars>>

\* broker.Publish, which always returns.
Publish ==
  /\ phase = "publish"
  /\ published' = published + 1
  /\ phase' = "act"
  /\ UNCHANGED <<entries, entries2, alerts, dispatching, alertCount, tried, now, pushVars,
                 feedVars, teeVars, matchVars>>

Outputs == tried[Len(tried)]

Remaining == Len(Actions[dispatching[1].rule]) - Len(Outputs)

NextOutput(ok) ==
  tried' = [tried EXCEPT ![Len(tried)] =
             Append(@, [action |-> Actions[dispatching[1].rule][Len(@) + 1], ok |-> ok])]

\* Mutant: an error ends the loop over the actions.
Act_StopsOnError(ok) ==
  /\ phase = "act"
  /\ Remaining > 0
  /\ NextOutput(ok)
  /\ phase' = IF ok THEN phase ELSE "idle"
  /\ UNCHANGED <<entries, entries2, alerts, dispatching, alertCount, published, now, pushVars,
                 feedVars, teeVars, matchVars>>

\* Mutant: an error ends the dispatcher.
Act_Fatal(ok) ==
  /\ phase = "act"
  /\ Remaining > 0
  /\ NextOutput(ok)
  /\ phase' = IF ok THEN phase ELSE "dead"
  /\ UNCHANGED <<entries, entries2, alerts, dispatching, alertCount, published, now, pushVars,
                 feedVars, teeVars, matchVars>>

\* The next output returns. Its error, like an unknown action, is only logged.
Act(ok) ==
  /\ phase = "act"
  /\ Remaining > 0
  /\ NextOutput(ok)
  /\ UNCHANGED <<entries, entries2, alerts, dispatching, phase, alertCount, published, now, pushVars,
                 feedVars, teeVars, matchVars>>

DispatchDone ==
  /\ phase = "act"
  /\ Remaining = 0
  /\ dispatching' = <<>>
  /\ phase' = "idle"
  /\ UNCHANGED <<entries, entries2, alerts, alertCount, published, tried, now, pushVars,
                 feedVars, teeVars, matchVars>>
-----------------------------------------------------------------------------
(* handlePushAlert, in a goroutine per request of a pipe's forwarder *)

\* broker.Publish
PushPublish ==
  /\ pushed < MaxPushes
  /\ pushed' = pushed + 1
  /\ pushing' = pushing + 1
  /\ UNCHANGED <<entries, entries2, alerts, now, feedVars, teeVars, matchVars, dispatchVars>>

\* stats.IncAlerts, the counter that Dispatch increments too
PushCount ==
  /\ pushing > 0
  /\ pushing' = pushing - 1
  /\ alertCount' = alertCount + 1
  /\ UNCHANGED <<entries, entries2, alerts, now, pushed, feedVars, teeVars, matchVars,
                 dispatching, phase, published, tried>>
-----------------------------------------------------------------------------
Tick ==
  /\ now < MaxTime
  /\ now' = now + 1
  /\ UNCHANGED <<entries, entries2, alerts, pushVars, feedVars, teeVars, matchVars, dispatchVars>>

\* Everything read was dealt with, and the bounds are reached.
Quiet ==
  /\ Len(accepted) = MaxLines /\ matched = MaxLines /\ now = MaxTime
  /\ logging = <<>> /\ alerts = <<>> /\ phase = "idle"
  /\ pushed = MaxPushes /\ pushing = 0
  /\ UNCHANGED vars

Next ==
  \/ \E text \in Text : Emit(text)
  \/ ParserReceive \/ ParserSend
  \/ TeeReceive \/ TeeSend \/ TeePublish
  \/ MatchReceive \/ Test \/ Arm \/ Stamp \/ MatchSend \/ MatchDone
  \/ DispatchReceive \/ Count \/ Publish \/ DispatchDone
  \/ \E ok \in BOOLEAN : Act(ok)
  \/ PushPublish \/ PushCount
  \/ Tick \/ Quiet

Spec == Init /\ [][Next]_vars

(***************************************************************************)
(* Every stage is a goroutine that goes on when it can. Nothing is assumed *)
(* of the files, which may stop growing. An output is assumed to return:   *)
(* the code sets no timeout on its HTTP and SMTP calls, so a server that   *)
(* accepts a connection and never answers stops the pipeline for good. A   *)
(* stdout that nobody reads is left out too: the runtime ends the process  *)
(* on the SIGPIPE of a write to it. See Outputs for both.                  *)
(***************************************************************************)
Fairness ==
  /\ WF_vars(ParserReceive) /\ WF_vars(ParserSend)
  /\ WF_vars(TeeReceive) /\ WF_vars(TeeSend) /\ WF_vars(TeePublish)
  /\ WF_vars(MatchReceive) /\ WF_vars(Test) /\ WF_vars(Arm) /\ WF_vars(Stamp)
  /\ WF_vars(MatchSend) /\ WF_vars(MatchDone)
  /\ WF_vars(DispatchReceive) /\ WF_vars(Count) /\ WF_vars(Publish)
  /\ WF_vars(DispatchDone)
  /\ WF_vars(\E ok \in BOOLEAN : Act(ok))

FairSpec == Spec /\ Fairness
-----------------------------------------------------------------------------
(* Properties *)

RawLine == [line : Nat, text : Text]
Entry == [line : Nat, text : Text, level : STRING]
Alert == [rule : Rule, line : Nat, armed : Nat, time : Nat]
Output == [action : STRING, ok : BOOLEAN]

TypeOK ==
  /\ accepted \in Seq(Text)
  /\ rawLines \in Seq(RawLine) /\ Len(rawLines) <= RawCap
  /\ entries \in Seq(Entry) /\ Len(entries) <= EntCap
  /\ entries2 \in Seq(Entry) /\ Len(entries2) <= EntCap
  /\ alerts \in Seq(Alert) /\ Len(alerts) <= AlertCap
  /\ parsing \in Seq(RawLine) /\ Len(parsing) <= 1
  /\ teeing \in Seq(Entry) /\ Len(teeing) <= 1
  /\ logging \in Seq(Entry) /\ Len(logging) <= 1
  /\ logged \in Nat
  /\ matching \in Seq(Entry) /\ Len(matching) <= 1
  /\ matched \in Nat
  /\ rule \in 1..(NumRules + 1)
  /\ step \in {"test", "arm", "stamp", "send"}
  /\ lastFired \in [Rule -> Nat \cup {Never}]
  /\ outbox \in Seq(Alert) /\ Len(outbox) <= 1
  /\ now \in Nat
  /\ fired \in Seq(Alert)
  /\ dispatching \in Seq(Alert) /\ Len(dispatching) <= 1
  /\ phase \in {"idle", "count", "publish", "act"}
  /\ alertCount \in Nat /\ published \in Nat
  /\ tried \in Seq(Seq(Output))
  /\ pushed \in Nat /\ pushing \in Nat

\* Where the stages are when they hold something; TypeOK is inductive with it.
ControlOK ==
  /\ logging # <<>> => teeing = <<>>
  /\ matching = <<>> => rule = 1 /\ step = "test"
  /\ step # "test" => rule <= NumRules
  /\ outbox # <<>> <=> step = "send"
  /\ step = "arm" => Cooldown[rule] # 0
  /\ step = "stamp" /\ Cooldown[rule] # 0 => lastFired[rule] # Never
  /\ dispatching = <<>> <=> phase = "idle"
  /\ phase # "idle" => tried # <<>>

\* How many lines have gone past each point of the pipeline.
TakenByMatch == matched + Len(matching)
SentByTee == TakenByMatch + Len(entries2)
TakenByTee == SentByTee + Len(teeing)
SentByParser == TakenByTee + Len(entries)
TakenByParser == SentByParser + Len(parsing)

RawAt(n) == [line |-> n, text |-> accepted[n]]

HoldsRaw(c, base) == \A k \in 1..Len(c) : c[k] = RawAt(base + k)

HoldsEntries(c, base) == \A k \in 1..Len(c) : c[k] = Parse(RawAt(base + k))

\* Whatever is between the tailers and the rules is an unbroken run of the
\* lines that arrived, each once, in order and unchanged but for the parsing:
\* backpressure stops a stage, it never makes one drop or overtake.
NothingLost ==
  /\ Len(accepted) = TakenByParser + Len(rawLines)
  /\ HoldsRaw(rawLines, TakenByParser)
  /\ HoldsRaw(parsing, SentByParser)
  /\ HoldsEntries(entries, TakenByTee)
  /\ HoldsEntries(teeing, SentByTee)
  /\ HoldsEntries(entries2, TakenByMatch)
  /\ HoldsEntries(matching, matched)

\* teeLogEntries publishes every line to the LogBroker in order too, and is at
\* most one line behind what it gave the rules. So an alert can be published
\* before the log event of its own line, but of no earlier one. This is the
\* order in which the two brokers are given their events, not the order on a
\* page: each has its own channel to the subscriber, which lags and drops by
\* itself (Broker).
LogOneBehind ==
  /\ Len(logging) = SentByTee - logged
  /\ \A i \in 1..published : fired[i].line <= logged + 1

\* Two alerts of one rule are never armed within its cooldown, although the
\* clock is read three times per alert and the send in between may wait.
CooldownRespected ==
  \A i, j \in 1..Len(fired) :
    i < j /\ fired[i].rule = fired[j].rule
      => fired[j].armed - fired[i].armed >= Cooldown[fired[i].rule]

\* Dispatch takes the alerts in the order they fired and each once. The count
\* that status reports has two writers, Dispatch, which counts and then
\* publishes, and the handlers of pushed alerts, which publish and then count:
\* it differs from the number of alerts broadcast by no more than what these
\* have in hand, and by nothing once they are idle.
DispatchInOrder ==
  /\ Len(fired) = Len(tried) + Len(alerts)
  /\ \A k \in 1..Len(alerts) : alerts[k] = fired[Len(tried) + k]
  /\ \A k \in 1..Len(dispatching) : dispatching[k] = fired[Len(tried)]
  /\ alertCount + pushing = published + pushed + (IF phase = "publish" THEN 1 ELSE 0)
  /\ Len(tried) - published = IF phase \in {"count", "publish"} THEN 1 ELSE 0

\* An alert that Dispatch has finished with went to all of its outputs, each
\* once and in their order, whether or not the ones before failed.
OutputsIndependent ==
  \A i \in 1..Len(tried) :
    LET asked == Actions[fired[i].rule] IN
      /\ Len(tried[i]) <= Len(asked)
      /\ \A k \in 1..Len(tried[i]) : tried[i][k].action = asked[k]
      /\ i < Len(tried) \/ phase = "idle" => Len(tried[i]) = Len(asked)

\* The rules fire as in the sequential engine: for no line that they should
\* not, and for every line that they should.
Eng == INSTANCE Engine WITH
  input <- accepted,
  line <- matched + 1,
  Matching <- {m \in Rule \X Text : matches(m[1], Parse([line |-> 0, text |-> m[2]]))}

IsEngine == Eng!Spec

\* Every line that is read reaches the rules and the log stream.
EveryLineDecided ==
  \A n \in 1..MaxLines : Len(accepted) >= n ~> (matched >= n /\ logged >= n)

\* Every alert that fires is published and has all its outputs tried.
EveryAlertDispatched ==
  \A n \in 1..(MaxLines * NumRules) :
    Len(fired) >= n ~> (Len(tried) > n \/ (Len(tried) = n /\ phase = "idle"))
=============================================================================
