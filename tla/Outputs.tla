------------------------------ MODULE Outputs ------------------------------
(***************************************************************************)
(* dispatcher.Dispatch with the outputs it has: stdout, a file, a webhook, *)
(* Teams, and email, which is a conversation of several commands with a    *)
(* server. Each step that leaves the process can fail. An error is logged, *)
(* if at all, and nothing is tried again.                                  *)
(*                                                                         *)
(* Of what an output sends a copy keeps the facts that others send too, and *)
(* the colour that stands for the severity; not the wording, the layout,   *)
(* the icons. Of the time it keeps whose it is.                            *)
(*                                                                         *)
(* No call has a timeout. One that never returns, or that ends the process *)
(* (stdout a pipe that nobody reads any more), is a behaviour that stops   *)
(* there: nothing is assumed of the outputs, and no step is fair.          *)
(***************************************************************************)
EXTENDS Config

VARIABLES
  cfg,      \* the configuration
  alerts,   \* the alerts of a line: [RuleName, Severity, Entry, Actions]
  i, j,     \* Dispatch has come to the j-th action of the i-th alert; 0 is Publish
  script,   \* the commands still to be given in the email in progress
  open, secure,   \* its connection is open; and encrypted
  rcpts,    \* the recipients the server has accepted for it
  got,      \* what arrived: [alert, output, to, copy]
  logged    \* the outputs that logged an error, as <<alert, output>>

mail == <<script, open, secure, rcpts>>
outputVars == <<cfg, alerts, i, j, mail, got, logged>>

OutputsInit ==
  /\ alerts = <<>> /\ i = 1 /\ j = 0
  /\ script = <<>> /\ open = FALSE /\ secure = FALSE /\ rcpts = 0
  /\ got = {} /\ logged = {}
-----------------------------------------------------------------------------
(* What is in a copy *)

severityColour(s) ==
  CASE s = "CRITICAL" -> "danger" [] s = "WARN" -> "warning" [] OTHER -> "good"

teamsColour(s) ==
  CASE s = "CRITICAL" -> "attention" [] s = "WARN" -> "warning" [] OTHER -> "good"

\* Mutant: the severities are written as the levels are.
emailColour_Level(s) ==
  CASE s = "critical" -> "#d93025" [] s = "warn" -> "#f09d00" [] OTHER -> "#1a73e8"

emailColour(s) ==
  CASE s = "CRITICAL" -> "#d93025" [] s = "WARN" -> "#f09d00" [] OTHER -> "#1a73e8"

\* The line that printAlert and writeFile write.
AlertLine(a) ==
  [severity |-> a.Severity, rule |-> a.RuleName, message |-> a.Entry.Message, time |-> "alert"]

TailEvent(a) ==
  [severity |-> a.Severity, rule |-> a.RuleName, message |-> a.Entry.Message,
   source |-> a.Entry.Source, level |-> a.Entry.Level, format |-> a.Entry.Format,
   time |-> "alert"]

slackPayload(a) ==
  [severity |-> a.Severity, rule |-> a.RuleName, message |-> a.Entry.Message,
   source |-> a.Entry.Source, level |-> a.Entry.Level, format |-> a.Entry.Format,
   colour |-> severityColour(a.Severity), time |-> IF a.Entry.Time = "now" THEN "arrival" ELSE "line"]

teamsPayload(a) ==
  [severity |-> a.Severity, rule |-> a.RuleName, message |-> a.Entry.Message,
   source |-> a.Entry.Source, level |-> a.Entry.Level, format |-> a.Entry.Format,
   colour |-> teamsColour(a.Severity), time |-> "alert"]

renderEmailHTML(a) ==
  [severity |-> a.Severity, rule |-> a.RuleName, message |-> a.Entry.Message,
   source |-> a.Entry.Source, level |-> a.Entry.Level, format |-> a.Entry.Format,
   colour |-> emailColour(a.Severity), time |-> "alert"]

renderEmailPlain(a) ==
  [severity |-> a.Severity, rule |-> a.RuleName, message |-> a.Entry.Message,
   source |-> a.Entry.Source, level |-> a.Entry.Level, time |-> "alert"]

\* The two alternatives of a multipart message; the reader's program takes one.
buildMIME(plain, html) == {plain, html}
-----------------------------------------------------------------------------
(* The outputs that take one step *)

Actions == alerts[i].Actions
Serving == i <= Len(alerts) /\ j \in 1..Len(Actions) /\ script = <<>>

Arrive(to, copies) ==
  got' = got \cup {[alert |-> i, output |-> j, to |-> t, copy |-> c] : t \in to, c \in copies}

\* The output returns, having logged an error or not.
Return(says) ==
  /\ logged' = IF says THEN logged \cup {<<i, j>>} ELSE logged
  /\ j' = j + 1
  /\ UNCHANGED <<cfg, alerts, i>>

\* Broker.Publish: a subscriber gets the event if its channel has room.
Publish ==
  /\ i <= Len(alerts) /\ j = 0
  /\ \E to \in {{}, {"stream"}} : Arrive(to, {TailEvent(alerts[i])})
  /\ Return(FALSE) /\ UNCHANGED mail

\* What is printed may not get out (a full disk): that goes unnoticed. Only on
\* a broken pipe is the write the end of the process.
printAlert ==
  /\ Serving /\ Actions[j] = "stdout"
  /\ \E to \in {{}, {"stdout"}} : Arrive(to, {AlertLine(alerts[i])})
  /\ Return(FALSE) /\ UNCHANGED mail

\* No file to write to, or it does not open; or it is written to, well or not.
writeFile ==
  /\ Serving /\ Actions[j] = "file"
  /\ \/ UNCHANGED got /\ Return(TRUE)
     \/ /\ cfg.Output.AlertFile # ""
        /\ \E to \in {{}, {"file"}} : Arrive(to, {AlertLine(alerts[i])})
        /\ Return(FALSE)
  /\ UNCHANGED mail

(***************************************************************************)
(* http.Post: the alert is taken and answered with a 2xx, or taken though  *)
(* the answer is an error or none; or it is not taken, and answered with   *)
(* an error or not at all; or not taken, and answered with a redirect,     *)
(* which the client follows with a GET to a page that is there.            *)
(***************************************************************************)
Post(to, copies) ==
  \/ Arrive(to, copies) /\ Return(FALSE)
  \/ Arrive(to, copies) /\ Return(TRUE)
  \/ UNCHANGED got /\ Return(TRUE)
  \/ UNCHANGED got /\ Return(FALSE)

\* Without a URL it returns at once.
sendWebhook ==
  /\ Serving /\ Actions[j] = "webhook"
  /\ IF cfg.Output.WebhookURL = "" THEN UNCHANGED got /\ Return(FALSE)
     ELSE Post({"webhook"}, {slackPayload(alerts[i])})
  /\ UNCHANGED mail

sendTeams ==
  /\ Serving /\ Actions[j] = "teams"
  /\ IF cfg.Output.TeamsWebhookURL = "" THEN UNCHANGED got /\ Return(TRUE)
     ELSE Post({"teams"}, {teamsPayload(alerts[i])})
  /\ UNCHANGED mail

UnknownAction ==
  /\ Serving /\ Actions[j] \notin {"stdout", "file", "webhook", "teams", "email"}
  /\ UNCHANGED <<got, mail>> /\ Return(TRUE)
-----------------------------------------------------------------------------
(* Email *)

smtp == cfg.Output.SMTP

Recipients == {smtp.To[n] : n \in DOMAIN smtp.To}

(* The calls of each function, in their order *)

deliverSMTP ==
  (IF smtp.User = "" THEN <<>> ELSE <<"auth">>)
  \o (<<"mail">> \o ([n \in DOMAIN smtp.To |-> "rcpt"] \o <<"data", "write", "close", "quit">>))

sendSTARTTLS == <<"dial", "starttls">> \o deliverSMTP

sendTLS == <<"tlsdial", "greet">> \o deliverSMTP

\* Mutant: port 25 without encryption, as the comment at the port says.
Script_Plain25 ==
  CASE smtp.Port = 465 -> sendTLS
    [] smtp.Port = 25 -> <<"dial">> \o deliverSMTP
    [] OTHER -> sendSTARTTLS

Script == IF smtp.Port = 465 THEN sendTLS ELSE sendSTARTTLS

sendEmail ==
  /\ Serving /\ Actions[j] = "email"
  /\ IF smtp.Host = "" \/ smtp.To = <<>>
     THEN Return(TRUE) /\ UNCHANGED mail
     ELSE /\ script' = Script
          /\ UNCHANGED <<cfg, alerts, i, j, open, secure, rcpts, logged>>
  /\ UNCHANGED got

\* A call that succeeds, other than the last two.
Succeeds ==
  /\ Len(script) > 2
  /\ open' = TRUE
  /\ secure' = (secure \/ Head(script) \in {"tlsdial", "starttls"})
  /\ rcpts' = IF Head(script) = "rcpt" THEN rcpts + 1 ELSE rcpts
  /\ script' = Tail(script)
  /\ UNCHANGED <<cfg, alerts, i, j, got, logged>>

MailTaken ==
  Arrive({smtp.To[n] : n \in 1..rcpts},
         buildMIME(renderEmailPlain(alerts[i]), renderEmailHTML(alerts[i])))

\* w.Close: the server has the whole message and takes it.
Accepted ==
  /\ Len(script) = 2
  /\ MailTaken
  /\ script' = Tail(script)
  /\ UNCHANGED <<cfg, alerts, i, j, open, secure, rcpts, logged>>

\* The deferred Close. When the greeting is refused, which is before the defer,
\* smtp.NewClient has closed the connection itself.
HungUp == open' = FALSE /\ secure' = FALSE /\ rcpts' = 0 /\ script' = <<>>

Quit == Len(script) = 1 /\ HungUp /\ Return(FALSE) /\ UNCHANGED got

\* Mutant: a refused recipient is passed over.
Fails_SkipsRcpt ==
  /\ script # <<>>
  /\ IF Head(script) = "rcpt"
     THEN script' = Tail(script) /\ UNCHANGED <<cfg, alerts, i, j, open, secure, rcpts, logged>>
     ELSE HungUp /\ Return(TRUE)
  /\ IF Head(script) = "close" THEN MailTaken \/ UNCHANGED got ELSE UNCHANGED got

\* Mutant: no deferred Close.
Fails_Leaks ==
  /\ script # <<>>
  /\ script' = <<>> /\ rcpts' = 0 /\ secure' = FALSE /\ UNCHANGED open
  /\ Return(TRUE)
  /\ IF Head(script) = "close" THEN MailTaken \/ UNCHANGED got ELSE UNCHANGED got

\* A call that fails: the connection is closed and sendEmail logs the error.
\* When the answer to the message itself gets lost, it may have been taken.
Fails ==
  /\ script # <<>>
  /\ HungUp /\ Return(TRUE)
  /\ IF Head(script) = "close" THEN MailTaken \/ UNCHANGED got ELSE UNCHANGED got
-----------------------------------------------------------------------------
\* The next alert of the channel.
NextAlert ==
  /\ i <= Len(alerts) /\ j > Len(Actions)
  /\ i' = i + 1 /\ j' = 0
  /\ UNCHANGED <<cfg, alerts, mail, got, logged>>

OutputsNext ==
  \/ Publish \/ printAlert \/ writeFile \/ sendWebhook \/ sendTeams \/ UnknownAction
  \/ sendEmail \/ Succeeds \/ Accepted \/ Quit \/ Fails
  \/ NextAlert
-----------------------------------------------------------------------------
(* Properties *)

\* Nothing about a mail, its envelope and the password included, goes out
\* before the connection is encrypted, on any port.
EncryptedFirst ==
  script # <<>> /\ Head(script) \notin {"dial", "tlsdial"} =>
    open /\ (Head(script) # "starttls" => secure)

\* However a mail ends, the connection to the server is given back.
SessionsClosed == script = <<>> => ~open

Urgency(colour) ==
  CASE colour \in {"danger", "attention", "#d93025"} -> "high"
    [] colour \in {"warning", "#f09d00"} -> "middle"
    [] OTHER -> "low"

\* Wherever an alert arrives, it says the same: each copy names the rule, the
\* severity and the message, two copies agree on all that both of them show,
\* and the colours of the outputs stand for the same urgency. Only the time
\* may differ: the webhook shows the time of the line, the others the alert's.
CopiesAgree ==
  \A g, h \in got : g.alert = h.alert =>
    /\ {"rule", "severity", "message"} \subseteq DOMAIN g.copy
    /\ \A f \in (DOMAIN g.copy \cap DOMAIN h.copy) \ {"colour", "time"} :
         g.copy[f] = h.copy[f]
    /\ g.copy.time = h.copy.time \/ "webhook" \in {g.to, h.to}
    /\ "colour" \in DOMAIN g.copy /\ "colour" \in DOMAIN h.copy =>
         Urgency(g.copy.colour) = Urgency(h.copy.colour)
=============================================================================
