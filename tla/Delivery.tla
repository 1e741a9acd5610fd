------------------------------ MODULE Delivery ------------------------------
(***************************************************************************)
(* What the dispatcher promises for the alerts of a line, with no servers, *)
(* connections or commands:                                                *)
(*                                                                         *)
(*  - The outputs of an alert are served in their order, and the alerts    *)
(*    too; a failure never skips or repeats one.                           *)
(*  - An output delivers an alert at most once: to all it is meant for,    *)
(*    or to nobody.                                                        *)
(*  - Mail that was not delivered, and an action that nobody knows, are in *)
(*    the log. For the other outputs that is not promised.                 *)
(***************************************************************************)
EXTENDS Naturals, Sequences

VARIABLES
  alerts,   \* the actions of each alert, once the line is matched
  mailTo,   \* whom mail is for
  i, j,     \* the next output: the j-th of the i-th alert; 0 is the event stream
  got,      \* who got what: <<alert, output, recipient>>
  logged    \* the outputs whose failure was logged

vars == <<alerts, mailTo, i, j, got, logged>>

Init ==
  /\ alerts = <<>> /\ i = 1 /\ j = 0
  /\ got = {} /\ logged = {}

Fire ==
  /\ alerts = <<>>
  /\ alerts' # <<>>
  /\ UNCHANGED <<mailTo, i, j, got, logged>>

Serving == i <= Len(alerts) /\ j <= Len(alerts[i])

Action == IF j = 0 THEN "stream" ELSE alerts[i][j]
Copies == {<<i, j, r>> : r \in IF Action = "email" THEN mailTo ELSE {Action}}
Delivered == Copies \subseteq got

Deliver ==
  /\ Serving /\ ~Delivered
  /\ got' = got \cup Copies
  /\ UNCHANGED <<alerts, mailTo, i, j, logged>>

MayBeSilent == {"stream", "stdout", "file", "webhook", "teams"}

\* On to the next output, delivering this one now, or before, or not at all.
Settle ==
  /\ Serving
  /\ got' = got \/ (~Delivered /\ got' = got \cup Copies)
  /\ logged' \in {logged, logged \cup {<<i, j>>}}
  /\ Action \in MayBeSilent \/ Copies \subseteq got' \/ <<i, j>> \in logged'
  /\ j' = j + 1
  /\ UNCHANGED <<alerts, mailTo, i>>

NextAlert ==
  /\ i <= Len(alerts) /\ j > Len(alerts[i])
  /\ i' = i + 1 /\ j' = 0
  /\ UNCHANGED <<alerts, mailTo, got, logged>>

Next == Fire \/ Deliver \/ Settle \/ NextAlert

Spec == Init /\ [][Next]_vars
=============================================================================
