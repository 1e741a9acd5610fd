------------------------------ MODULE Alerting ------------------------------
(***************************************************************************)
(* The way of one line through the program, with its content: from the     *)
(* configuration file and the line to what arrives where. Parser.tla and   *)
(* Outputs.tla are joined by rules.Match.                                  *)
(*                                                                         *)
(* One goroutine works at a time here: Pipeline.tla has the stages at      *)
(* once, and shows that a line goes from one to the next unchanged and in  *)
(* order. The cooldowns and the publications to the brokers are there too. *)
(***************************************************************************)
EXTENDS Parser, Outputs

CONSTANTS
  Inis,      \* the configuration files
  Invalid    \* the patterns that are not a regular expression

\* The types of config.Rule and of the recipients.
ASSUME AlertingAssumption ==
  \A ini \in Inis :
    /\ Load(ini).Rules \in Seq([Name : STRING, Pattern : STRING, Field : STRING,
                                Level : STRING, Severity : STRING,
                                Action : Seq(STRING), Cooldown : Int])
    /\ Load(ini).Output.SMTP.To \in Seq(STRING)

vars == <<parserVars, outputVars>>

Init == ParserInit /\ OutputsInit /\ cfg \in {Load(ini) : ini \in Inis}

\* The rules that are kept, by their numbers. One whose pattern is invalid is
\* dropped without a word.
compile(rules) == {n \in DOMAIN rules : rules[n].Pattern \notin Invalid}

\* A pattern is a word, and matches the texts with that word in them; the
\* empty pattern matches every text. A field that is not there is empty.
resolveField(e, field) ==
  CASE field \in {"", "message", "msg"} -> e.Message
    [] field = "raw" -> e.Raw
    [] field = "level" -> {e.Level}
    [] field = "source" -> {e.Source}
    [] OTHER -> IF field \in DOMAIN e.Fields THEN e.Fields[field] ELSE {}

matches(r, e) ==
  /\ r.Level # "" => levelAtLeast(e.Level, r.Level)
  /\ r.Pattern \in resolveField(e, r.Field) \cup {""}

\* The n-th of a set of numbers, the smallest first.
Nth(hits, n) == CHOOSE h \in hits : Cardinality(hits \cap 1..h) = n

\* The loop over the rules, for one entry.
Match ==
  /\ at = "parsed"
  /\ LET hits == {n \in compile(cfg.Rules) : matches(cfg.Rules[n], entry)} IN
     alerts' = [n \in 1..Cardinality(hits) |->
       LET r == cfg.Rules[Nth(hits, n)] IN
       [RuleName |-> r.Name, Severity |-> r.Severity, Entry |-> entry, Actions |-> r.Action]]
  /\ at' = "matched"
  /\ UNCHANGED <<line, left, entry, cfg, i, j, mail, got, logged>>

\* All is done with the line.
Over == at = "matched" /\ i > Len(alerts)
Quiet == Over /\ UNCHANGED vars

Next ==
  \/ ParserNext /\ UNCHANGED outputVars
  \/ Match
  \/ OutputsNext /\ UNCHANGED parserVars
  \/ Quiet

Spec == Init /\ [][Next]_vars
-----------------------------------------------------------------------------
(* Properties *)

TypeOK ==
  /\ line \in Lines /\ at \in {"line", "keys", "parsed", "matched"}
  /\ left \subseteq DOMAIN line.parts
  /\ Complete => entry.Level \in DOMAIN levelOrder /\ entry.Raw = line.text
  /\ cfg \in {Load(ini) : ini \in Inis}
  /\ i \in 1..Len(alerts) + 1 /\ j \in Nat
  /\ open \in BOOLEAN /\ secure \in BOOLEAN /\ rcpts \in 0..Len(smtp.To)
  /\ \A g \in got : g.alert \in 1..i /\ g.output <= Len(alerts[g.alert].Actions)
  /\ \A l \in logged : l[1] \in 1..i /\ l[2] <= Len(alerts[l[1]].Actions)

\* The dispatcher's promise (Delivery.tla): each output of each alert is served
\* once and in order, whatever fails; mail goes to all of its recipients or to
\* none; and mail that does not arrive is logged. The mapping forgets what the
\* copies say, and the conversation with the mail server.
Promise == INSTANCE Delivery WITH
  alerts <- [n \in DOMAIN alerts |-> alerts[n].Actions],
  mailTo <- Recipients,
  got <- {<<g.alert, g.output, g.to>> : g \in got}

IsDelivery == Promise!Spec
=============================================================================
