-------------------------------- MODULE Pipe --------------------------------
(***************************************************************************)
(* The end of pipe mode: cmdPipe reads stdin to its end, gives the stages  *)
(* 400 ms to deal with the rest, hangs up its forwarders, waits at most    *)
(* two seconds for one of them, and ends the process.                      *)
(*                                                                         *)
(* Pipeline.tla shows that the stages neither lose nor reorder lines. Here *)
(* a stage is therefore a counter of the lines that have passed it, and    *)
(* one iteration of its loop is one step. Of the lines some raise an       *)
(* alert, one each, known by its number. Broker.tla shows that             *)
(* subscribing, publishing and hanging up may be taken as single steps.    *)
(* The forwarders POST to the daemon whose dashboard was found running.    *)
(***************************************************************************)
EXTENDS Naturals, Sequences, FiniteSets

CONSTANTS
  MaxLines,   \* bound: lines that are written to stdin
  Alerting,   \* the lines that raise an alert
  StageCap,   \* lines that can wait between two stages
  ForwardCap, \* events that a forwarder's channel holds
  BatchMax,   \* log events that are posted together: 50
  Prompt      \* whether the stages always finish within the 400 ms

ASSUME PipeAssumption ==
  /\ MaxLines \in Nat /\ Alerting \subseteq 1..MaxLines
  /\ StageCap \in Nat \ {0} /\ ForwardCap \in Nat \ {0} /\ BatchMax \in Nat \ {0}
  /\ Prompt \in BOOLEAN

VARIABLES
  given, eof,      \* stdin: the lines written to it, and whether it is closed
  read, parsed, teed, logged, matched,   \* lines that have passed each stage
  published, acted,   \* alerts that Dispatch has broadcast, and done with
  hub,             \* which of the forwarders' channels are subscribed
  alertCh, logCh,  \* forwardCh and forwardLogCh
  posting,         \* the alert being posted, a sequence of length 0 or 1
  batch, flushing, \* the log forwarder's batch, and whether it is being posted
  forwardDone,     \* the channel forwardDone is closed
  dropped,         \* the events that found a channel full, as <<channel, number>>
  cut,             \* how many lines were logged when main hung up
  daemon,          \* whether the daemon still answers
  gotAlerts, gotLogs,   \* what it got
  main             \* where cmdPipe is

stages == <<read, parsed, teed, logged, matched, published, acted>>
logSide == <<logCh, batch, flushing, forwardDone, gotLogs>>
alertSide == <<alertCh, posting, gotAlerts>>
vars == <<given, eof, stages, hub, logSide, alertSide, dropped, cut, daemon, main>>

Ended == main \in {"interrupted", "flushed", "timedout", "alone"}

Fired(n) == Cardinality({l \in Alerting : l <= n})

\* The forwarders are there if a dashboard answered before the start.
Init ==
  /\ given = 0 /\ eof = FALSE
  /\ read = 0 /\ parsed = 0 /\ teed = 0 /\ logged = 0 /\ matched = 0
  /\ published = 0 /\ acted = 0
  /\ hub \in {{}, {"alerts", "logs"}}
  /\ daemon = (hub # {})
  /\ alertCh = <<>> /\ logCh = <<>> /\ posting = <<>>
  /\ batch = <<>> /\ flushing = FALSE /\ forwardDone = FALSE
  /\ dropped = {} /\ cut = 0
  /\ gotAlerts = <<>> /\ gotLogs = <<>>
  /\ main = "select"
-----------------------------------------------------------------------------
(* The environment *)

Give ==
  /\ ~eof /\ given < MaxLines
  /\ given' = given + 1
  /\ UNCHANGED <<eof, stages, hub, logSide, alertSide, dropped, cut, daemon, main>>

CloseStdin ==
  /\ ~eof
  /\ eof' = TRUE
  /\ UNCHANGED <<given, stages, hub, logSide, alertSide, dropped, cut, daemon, main>>

\* From here on a POST fails.
DaemonGoes ==
  /\ daemon
  /\ daemon' = FALSE
  /\ UNCHANGED <<given, eof, stages, hub, logSide, alertSide, dropped, cut, main>>
-----------------------------------------------------------------------------
(* The stages *)

Read ==
  /\ ~Ended /\ read < given /\ read - parsed < StageCap
  /\ read' = read + 1
  /\ UNCHANGED <<given, eof, parsed, teed, logged, matched, published, acted,
                 hub, logSide, alertSide, dropped, cut, daemon, main>>

Parse ==
  /\ ~Ended /\ parsed < read /\ parsed - teed < StageCap
  /\ parsed' = parsed + 1
  /\ UNCHANGED <<given, eof, read, teed, logged, matched, published, acted,
                 hub, logSide, alertSide, dropped, cut, daemon, main>>

Tee ==
  /\ ~Ended /\ teed < parsed /\ teed = logged /\ teed - matched < StageCap
  /\ teed' = teed + 1
  /\ UNCHANGED <<given, eof, read, parsed, logged, matched, published, acted,
                 hub, logSide, alertSide, dropped, cut, daemon, main>>

\* LogBroker.Publish: with no subscriber the event goes nowhere.
TeePublish ==
  /\ ~Ended /\ logged < teed
  /\ logged' = logged + 1
  /\ IF "logs" \in hub /\ Len(logCh) < ForwardCap
     THEN logCh' = Append(logCh, logged + 1) ELSE UNCHANGED logCh
  /\ dropped' = IF "logs" \in hub /\ Len(logCh) >= ForwardCap
                THEN dropped \cup {<<"logs", logged + 1>>} ELSE dropped
  /\ UNCHANGED <<given, eof, read, parsed, teed, matched, published, acted, hub,
                 batch, flushing, forwardDone, gotLogs, alertSide, cut, daemon, main>>

Match ==
  /\ ~Ended /\ matched < teed
  /\ matched + 1 \in Alerting => Fired(matched) - published < StageCap
  /\ matched' = matched + 1
  /\ UNCHANGED <<given, eof, read, parsed, teed, logged, published, acted,
                 hub, logSide, alertSide, dropped, cut, daemon, main>>

\* Dispatch, up to and including Broker.Publish.
Dispatch ==
  /\ ~Ended /\ published < Fired(matched) /\ acted = published
  /\ published' = published + 1
  /\ IF "alerts" \in hub /\ Len(alertCh) < ForwardCap
     THEN alertCh' = Append(alertCh, published + 1) ELSE UNCHANGED alertCh
  /\ dropped' = IF "alerts" \in hub /\ Len(alertCh) >= ForwardCap
                THEN dropped \cup {<<"alerts", published + 1>>} ELSE dropped
  /\ UNCHANGED <<given, eof, read, parsed, teed, logged, matched, acted, hub,
                 logSide, posting, gotAlerts, cut, daemon, main>>

\* The alert's outputs have returned.
Acted ==
  /\ ~Ended /\ acted < published
  /\ acted' = acted + 1
  /\ UNCHANGED <<given, eof, read, parsed, teed, logged, matched, published,
                 hub, logSide, alertSide, dropped, cut, daemon, main>>
-----------------------------------------------------------------------------
(* The alert forwarder: receives and posts, one at a time *)

TakeAlert ==
  /\ ~Ended /\ posting = <<>> /\ alertCh # <<>>
  /\ posting' = <<Head(alertCh)>>
  /\ alertCh' = Tail(alertCh)
  /\ UNCHANGED <<given, eof, stages, hub, logSide, gotAlerts, dropped, cut, daemon, main>>

\* ForwardAlert returns; an error is ignored.
AlertPosted ==
  /\ ~Ended /\ posting # <<>>
  /\ posting' = <<>>
  /\ gotAlerts' = IF daemon THEN gotAlerts \o posting ELSE gotAlerts
  /\ UNCHANGED <<given, eof, stages, hub, logSide, alertCh, dropped, cut, daemon, main>>
-----------------------------------------------------------------------------
(* The log forwarder: collects a batch, and posts it when it is full, when *)
(* the ticker ticks, or when the channel is closed and empty.              *)

Collecting == ~Ended /\ ~flushing /\ ~forwardDone

\* Mutant: only the ticker posts a batch.
TakeLog_NoLimit ==
  /\ Collecting /\ logCh # <<>>
  /\ batch' = Append(batch, Head(logCh))
  /\ logCh' = Tail(logCh)
  /\ UNCHANGED <<given, eof, stages, hub, flushing, forwardDone, gotLogs, alertSide, dropped,
                 cut, daemon, main>>

TakeLog ==
  /\ Collecting /\ logCh # <<>>
  /\ batch' = Append(batch, Head(logCh))
  /\ logCh' = Tail(logCh)
  /\ flushing' = (Len(batch') >= BatchMax)
  /\ UNCHANGED <<given, eof, stages, hub, forwardDone, gotLogs, alertSide, dropped, cut,
                 daemon, main>>

Ticker ==
  /\ Collecting /\ batch # <<>>
  /\ flushing' = TRUE
  /\ UNCHANGED <<given, eof, stages, hub, logCh, batch, forwardDone, gotLogs, alertSide,
                 dropped, cut, daemon, main>>

Closed == hub = {} /\ main = "wait" /\ logCh = <<>>

\* Mutant: the goroutine returns without the last flush.
LogClosed_NoFlush ==
  /\ Collecting /\ Closed
  /\ forwardDone' = TRUE
  /\ UNCHANGED <<given, eof, stages, hub, logCh, batch, flushing, gotLogs, alertSide,
                 dropped, cut, daemon, main>>

\* The receive that finds the channel closed: flush, or return with nothing to flush.
LogClosed ==
  /\ Collecting /\ Closed
  /\ IF batch = <<>> THEN forwardDone' = TRUE /\ UNCHANGED flushing
                     ELSE flushing' = TRUE /\ UNCHANGED forwardDone
  /\ UNCHANGED <<given, eof, stages, hub, logCh, batch, gotLogs, alertSide,
                 dropped, cut, daemon, main>>

\* Mutant: the batch is not emptied.
LogPosted_Keeps ==
  /\ ~Ended /\ flushing
  /\ gotLogs' = IF daemon THEN gotLogs \o batch ELSE gotLogs
  /\ flushing' = FALSE
  /\ UNCHANGED <<given, eof, stages, hub, logCh, batch, forwardDone, alertSide,
                 dropped, cut, daemon, main>>

\* ForwardLog returns for the next event of the batch; an error is ignored.
LogPosted ==
  /\ ~Ended /\ flushing
  /\ gotLogs' = IF daemon THEN Append(gotLogs, Head(batch)) ELSE gotLogs
  /\ batch' = Tail(batch)
  /\ flushing' = (batch' # <<>>)
  /\ UNCHANGED <<given, eof, stages, hub, logCh, forwardDone, alertSide,
                 dropped, cut, daemon, main>>
-----------------------------------------------------------------------------
(* cmdPipe's own goroutine *)

Goto(to) ==
  /\ main' = to
  /\ UNCHANGED <<given, eof, stages, logSide, alertSide, dropped, daemon>>

\* The reader has sent the last line and closed stdinDone.
StdinDone ==
  /\ main = "select" /\ eof /\ read = given
  /\ Goto("sleep") /\ UNCHANGED <<hub, cut>>

\* A signal. After the end of stdin nobody receives it any more.
Interrupt ==
  /\ main = "select"
  /\ Goto("interrupted") /\ UNCHANGED <<hub, cut>>

Drained == logged = given /\ matched = given /\ acted = Fired(given)

\* The sleep ends; without forwarders that is all.
SleepEnds ==
  /\ main = "sleep" /\ (Prompt => Drained)
  /\ Goto(IF hub = {} THEN "alone" ELSE "hangup") /\ UNCHANGED <<hub, cut>>

\* Unsubscribe, of the alerts and then of the logs.
HangUpAlerts ==
  /\ main = "hangup" /\ "alerts" \in hub
  /\ Goto(main) /\ hub' = hub \ {"alerts"} /\ UNCHANGED cut

HangUpLogs ==
  /\ main = "hangup" /\ "alerts" \notin hub
  /\ Goto("wait") /\ hub' = hub \ {"logs"} /\ cut' = logged

SeesDone ==
  /\ main = "wait" /\ forwardDone
  /\ Goto("flushed") /\ UNCHANGED <<hub, cut>>

\* Mutant: a wait without the two seconds.
TimesOut_AfterDone ==
  /\ main = "wait" /\ forwardDone
  /\ Goto("timedout") /\ UNCHANGED <<hub, cut>>

TimesOut ==
  /\ main = "wait"
  /\ Goto("timedout") /\ UNCHANGED <<hub, cut>>
-----------------------------------------------------------------------------
Environment == Give \/ CloseStdin \/ DaemonGoes \/ Interrupt

Stage == Read \/ Parse \/ Tee \/ TeePublish \/ Match \/ Dispatch \/ Acted

Forwarders ==
  \/ TakeAlert \/ AlertPosted
  \/ TakeLog \/ Ticker \/ LogClosed \/ LogPosted

Main == StdinDone \/ SleepEnds \/ HangUpAlerts \/ HangUpLogs \/ SeesDone \/ TimesOut

\* The process is over.
Quiet == Ended /\ UNCHANGED vars

Next == Environment \/ Stage \/ Forwarders \/ Main \/ Quiet

Spec == Init /\ [][Next]_vars

(***************************************************************************)
(* The stages and main go on when they can: the outputs return, and timers *)
(* fire. Nothing is assumed of stdin, nor of the forwarders, which a       *)
(* daemon that does not answer can hold up for ever.                       *)
(***************************************************************************)
FairSpec ==
  /\ Spec
  /\ WF_vars(Read) /\ WF_vars(Parse) /\ WF_vars(Tee) /\ WF_vars(TeePublish)
  /\ WF_vars(Match) /\ WF_vars(Dispatch) /\ WF_vars(Acted)
  /\ WF_vars(Main)
-----------------------------------------------------------------------------
(* Properties *)

Line == 1..MaxLines

TypeOK ==
  /\ given \in 0..MaxLines /\ eof \in BOOLEAN
  /\ parsed <= read /\ read <= given /\ teed <= parsed /\ matched <= teed
  /\ logged \in {teed, teed - 1} /\ published <= Fired(matched)
  /\ acted \in {published, published - 1}
  /\ hub \subseteq {"alerts", "logs"}
  /\ alertCh \in Seq(Line) /\ Len(alertCh) <= ForwardCap
  /\ logCh \in Seq(Line) /\ Len(logCh) <= ForwardCap
  /\ posting \in Seq(Line) /\ Len(posting) <= 1
  /\ batch \in Seq(Line) /\ Len(batch) <= BatchMax
  /\ flushing \in BOOLEAN /\ forwardDone \in BOOLEAN /\ daemon \in BOOLEAN
  /\ dropped \subseteq {"alerts", "logs"} \X Line
  /\ cut \in 0..MaxLines
  /\ gotAlerts \in Seq(Line) /\ gotLogs \in Seq(Line)
  /\ main \in {"select", "sleep", "hangup", "wait"} \/ Ended

Increasing(s) == \A i, j \in 1..Len(s) : i < j => s[i] < s[j]

\* The daemon gets the log lines, and the alerts, each at most once and in
\* their order, although they wait in a channel, a batch and a POST and some
\* are dropped on the way.
ForwardedInOrder ==
  /\ Increasing(gotLogs \o batch \o logCh)
  /\ Increasing(gotAlerts \o posting \o alertCh)

Elements(s) == {s[k] : k \in 1..Len(s)}

\* When main has seen forwardDone, and the daemon was there to the end, every
\* line that was logged before the hang-up is at the daemon, but for those
\* that found the channel full: none is left in the channel or the batch.
FlushedWhenDone ==
  main = "flushed" /\ daemon =>
    Elements(gotLogs) = {l \in 1..cut : <<"logs", l>> \notin dropped}

\* Once stdin is closed the process ends, even when the daemon that it
\* forwards to never answers again.
Ends == eof ~> Ended

\* "So no events are missed": when main has waited for the forwarding, without
\* a timeout or a full channel, with a daemon that was there to the end and
\* stages that were done in time, every alert was forwarded.
NothingMissed ==
  main = "flushed" /\ daemon /\ dropped = {} =>
    Elements(gotAlerts) = 1..Fired(given)
=============================================================================
