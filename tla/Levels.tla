------------------------------- MODULE Levels -------------------------------
(***************************************************************************)
(* Levels: where an entry's level comes from, and the two places that      *)
(* compare it with a minimum, the rules engine and the dashboard's log     *)
(* stream. Each has a table of its own.                                    *)
(*                                                                         *)
(* A text is the set of the words that occur in it, in lower case, as the  *)
(* code compares them. The empty text is {}.                               *)
(***************************************************************************)
EXTENDS Naturals

\* Mutant: a name that is not in the table is kept as it is.
normaliseLevel_Keeps(s) ==
  LET Is(names) == \E w \in names : s = {w} IN
  CASE Is({"error", "err"}) -> "error"
    [] Is({"warning", "warn"}) -> "warn"
    [] Is({"debug", "trace", "verbose"}) -> "debug"
    [] Is({"fatal", "critical", "crit", "emerg", "alert", "panic"}) -> CHOOSE w \in s : TRUE
    [] OTHER -> "info"

\* The level that a logging library wrote, by its name.
normaliseLevel(s) ==
  LET Is(names) == \E w \in names : s = {w} IN
  CASE Is({"fatal", "critical", "crit", "emerg", "alert", "panic"}) -> "fatal"
    [] Is({"error", "err"}) -> "error"
    [] Is({"warning", "warn"}) -> "warn"
    [] Is({"debug", "trace", "verbose"}) -> "debug"
    [] OTHER -> "info"

\* The level of a text, by the keywords in it; the gravest comes first.
detectLevel(s) ==
  LET Has(keywords) == s \cap keywords # {} IN
  IF Has({"fatal", "panic"}) THEN "fatal"
  ELSE IF Has({"error", "err"}) THEN "error"
  ELSE IF Has({"warn", "warning"}) THEN "warn"
  ELSE IF Has({"debug"}) THEN "debug"
  ELSE "info"

\* A status is known by its class.
apacheLevel(status) ==
  CASE status = {"5xx"} -> "error"
    [] status = {"4xx"} -> "warn"
    [] OTHER -> "info"

levelOrder == [debug |-> 0, info |-> 1, warn |-> 2, error |-> 3, fatal |-> 4]

\* A name that is not in the table passes every filter, as an entry's level
\* and as a rule's minimum.
levelAtLeast(actual, minimum) ==
  (actual \in DOMAIN levelOrder /\ minimum \in DOMAIN levelOrder)
    => levelOrder[actual] >= levelOrder[minimum]

levelNames ==
  <<{"verbose", "v"}, {"debug", "d"}, {"info", "i"}, {"warn", "warning", "w"},
    {"error", "e"}, {"fatal", "f", "assert", "a"}>>

\* levelRank, with Go's 0 for a name that is not in it.
minLevelRank(s) ==
  IF \E r \in DOMAIN levelNames : s \in levelNames[r]
  THEN CHOOSE r \in DOMAIN levelNames : s \in levelNames[r] ELSE 0

\* handleLogStream's filter. Here an entry with an unknown level is dropped.
Streamed(level, minimum) ==
  minLevelRank(minimum) > 0 => minLevelRank(level) >= minLevelRank(minimum)
=============================================================================
