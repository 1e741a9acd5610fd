------------------------------- MODULE Engine -------------------------------
(***************************************************************************)
(* What logitcat promises of the lines it reads, with no goroutine and no  *)
(* channel: one sequential rule engine over the lines in the order they    *)
(* arrive.                                                                 *)
(*                                                                         *)
(*  - Each line is decided against each rule once, in the rules' order,    *)
(*    and lines are decided in their order.                                *)
(*  - A rule fires for a line exactly when it matches and is not cooling:  *)
(*    it did not fire less than its cooldown ago.                          *)
(***************************************************************************)
EXTENDS Naturals, Sequences

CONSTANTS
  Text,       \* the lines' contents, up to what the rules can tell apart
  NumRules,   \* the rules of the config file are 1..NumRules, in its order
  Cooldown,   \* per rule, its cooldown; 0 is none
  Matching,   \* the pairs <<rule, text>> such that the rule matches the text
  MaxLines, MaxTime   \* bounds

VARIABLES
  input,      \* the lines that arrived
  line,       \* the number of the line being decided
  rule,       \* the rule it is next decided against
  now,        \* the clock, in units of the cooldowns
  fired       \* the firings, in order: [rule, line, armed, time]

vars == <<input, line, rule, now, fired>>

Init ==
  /\ input = <<>>
  /\ line = 1
  /\ rule = 1
  /\ now = 0
  /\ fired = <<>>

\* r fired less than its cooldown before t.
Cooling(r, t) ==
  \E i \in 1..Len(fired) : fired[i].rule = r /\ t - fired[i].armed < Cooldown[r]

Arrive(text) ==
  /\ Len(input) < MaxLines
  /\ input' = Append(input, text)
  /\ UNCHANGED <<line, rule, now, fired>>

Deciding == line <= Len(input) /\ rule <= NumRules

Hit == <<rule, input[line]>> \in Matching

Pass ==
  /\ Deciding
  /\ ~Hit \/ Cooling(rule, now)
  /\ rule' = rule + 1
  /\ UNCHANGED <<input, line, now, fired>>

\* The cooldown runs from armed; the alert carries a slightly later time.
Fire(armed, time) ==
  /\ Deciding
  /\ Hit
  /\ armed <= time /\ time <= now
  /\ ~Cooling(rule, armed)
  /\ fired' = Append(fired, [rule |-> rule, line |-> line, armed |-> armed, time |-> time])
  /\ rule' = rule + 1
  /\ UNCHANGED <<input, line, now>>

NextLine ==
  /\ line <= Len(input)
  /\ rule = NumRules + 1
  /\ line' = line + 1
  /\ rule' = 1
  /\ UNCHANGED <<input, now, fired>>

Tick ==
  /\ now < MaxTime
  /\ now' = now + 1
  /\ UNCHANGED <<input, line, rule, fired>>

Next ==
  \/ \E text \in Text : Arrive(text)
  \/ Pass
  \/ \E armed, time \in 0..now : Fire(armed, time)
  \/ NextLine
  \/ Tick

Spec == Init /\ [][Next]_vars
=============================================================================
