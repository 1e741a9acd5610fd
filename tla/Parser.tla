------------------------------- MODULE Parser -------------------------------
(***************************************************************************)
(* parser.Parse: what becomes of one line. A JSON object is gone through   *)
(* key by key, in an order that Go chooses anew each time; the other       *)
(* formats are read at once.                                               *)
(*                                                                         *)
(* A text is a set of words, as in Levels.tla. A line has its text, the    *)
(* forms it fits ("brace" if it begins with one, "object" if it is a JSON  *)
(* object, "apache" and "syslog" if it matches their patterns), and the    *)
(* parts that these find in it. A time is that of the line or of now.      *)
(***************************************************************************)
EXTENDS Levels, FiniteSets

CONSTANTS
  Lines,   \* the lines to parse: [source, text, form, parts, ints, dated]
  NUL      \* the character with code 0, as a word

VARIABLES
  line,    \* the line in hand
  at,      \* "line", "keys" while a JSON object is gone through, "parsed", ...
  left,    \* the keys of the object still to come
  entry    \* the LogEntry

parserVars == <<line, at, left, entry>>

jsonLevelKeys == {"level", "severity", "lvl", "log.level"}
jsonMsgKeys == {"message", "msg", "text", "body"}
jsonTimeKeys == {"time", "timestamp", "ts", "@timestamp", "datetime"}

\* Whether a part is a time in one of the layouts.
parseTime(l, k) == k \in l.dated

\* An integer becomes one NUL character, whatever its value.
anyToString(l, k) == IF k \in l.ints THEN {NUL} ELSE l.parts[k]

detect(l) ==
  IF "brace" \in l.form THEN "json"
  ELSE IF "apache" \in l.form THEN "apache"
  ELSE IF "syslog" \in l.form THEN "syslog"
  ELSE "plaintext"

LogEntry(l, time, level, message, fields, format) ==
  [Raw |-> l.text, Source |-> l.source, Time |-> time, Level |-> level,
   Message |-> message, Fields |-> fields, Format |-> format]

asPlaintext(l) == LogEntry(l, "now", detectLevel(l.text), l.text, <<>>, "plaintext")

\* A line without a time that can be read has the time of its arrival.
parseSyslogTime(l) == IF parseTime(l, "time") THEN "line" ELSE "now"
parseApacheTime(l) == parseSyslogTime(l)

parseSyslog(l) ==
  LET groups == {"hostname", "app"} \cup (IF l.parts["pid"] = {} THEN {} ELSE {"pid"})
      message == l.parts["message"]
  IN LogEntry(l, parseSyslogTime(l), detectLevel(message), message,
              [g \in groups |-> l.parts[g]], "syslog")

parseApache(l) ==
  LET groups == {"ip", "user", "method", "path", "proto", "status", "bytes"}
      message == UNION {l.parts[g] : g \in {"method", "path", "status"}}
  IN LogEntry(l, parseApacheTime(l), apacheLevel(l.parts["status"]), message,
              [g \in groups |-> l.parts[g]], "apache")

\* What parseJSON starts its loop with.
parseJSON(l) == LogEntry(l, "now", "", {}, <<>>, "json")

ParserInit == line \in Lines /\ at = "line" /\ left = {} /\ entry = <<>>

\* Parse, up to the loop of parseJSON.
Parse ==
  /\ at = "line"
  /\ IF detect(line) = "json" /\ "object" \in line.form
     THEN at' = "keys" /\ left' = DOMAIN line.parts
     ELSE at' = "parsed" /\ UNCHANGED left
  /\ entry' = CASE at' = "keys" -> parseJSON(line)
                [] at' = "parsed" /\ detect(line) = "apache" -> parseApache(line)
                [] at' = "parsed" /\ detect(line) = "syslog" -> parseSyslog(line)
                [] OTHER -> asPlaintext(line)
  /\ UNCHANGED line

With(f, k, v) == [x \in DOMAIN f \cup {k} |-> IF x = k THEN v ELSE f[x]]

\* Mutant: a later level or message replaces an earlier one.
Store_Last(e, k, str, dated) ==
  CASE k \in jsonLevelKeys -> [e EXCEPT !.Level = normaliseLevel(str)]
    [] k \in jsonMsgKeys -> [e EXCEPT !.Message = str]
    [] OTHER -> [e EXCEPT !.Fields = With(e.Fields, k, str)]

\* Mutant: the level is guessed as soon as the message is found.
Store_Guess(e, k, str, dated) ==
  CASE e.Level = "" /\ k \in jsonLevelKeys -> [e EXCEPT !.Level = normaliseLevel(str)]
    [] e.Message = {} /\ k \in jsonMsgKeys ->
         [e EXCEPT !.Message = str, !.Level = IF @ = "" THEN detectLevel(str) ELSE @]
    [] OTHER -> [e EXCEPT !.Fields = With(e.Fields, k, str)]

\* A time would be taken by the third case. But the entry is made with the time
\* of now, so a time key is a field like any other.
Store(e, k, str, dated) ==
  CASE e.Level = "" /\ k \in jsonLevelKeys -> [e EXCEPT !.Level = normaliseLevel(str)]
    [] e.Message = {} /\ k \in jsonMsgKeys -> [e EXCEPT !.Message = str]
    [] e.Time = "zero" /\ k \in jsonTimeKeys /\ dated -> [e EXCEPT !.Time = "line"]
    [] OTHER -> [e EXCEPT !.Fields = With(e.Fields, k, str)]

\* One round of the loop.
TakeKey(k) ==
  /\ at = "keys" /\ k \in left
  /\ left' = left \ {k}
  /\ entry' = Store(entry, k, anyToString(line, k), parseTime(line, k))
  /\ UNCHANGED <<line, at>>

\* After the loop. The level is looked for in the message before the message
\* falls back to the line.
EndKeys ==
  /\ at = "keys" /\ left = {}
  /\ entry' = [entry EXCEPT
       !.Level = IF @ = "" THEN detectLevel(entry.Message) ELSE @,
       !.Message = IF @ = {} THEN line.text ELSE @]
  /\ at' = "parsed"
  /\ UNCHANGED <<line, left>>

ParserNext == Parse \/ (\E k \in left : TakeKey(k)) \/ EndKeys
-----------------------------------------------------------------------------
(* Properties of the entry once it is complete *)

Complete == at \notin {"line", "keys"}
FromJSON == Complete /\ entry.Format = "json"

LevelKeys(l) == DOMAIN l.parts \cap jsonLevelKeys
MessageKeys(l) == {k \in DOMAIN l.parts \cap jsonMsgKeys : anyToString(l, k) # {}}

\* Go's order of the keys makes no difference to an object with one level and
\* one message at most: its level is the one that is written, or else found in
\* the message; its message the one that is not empty, or else the line; and
\* the keys without a meaning have their values in Fields.
OrderIrrelevant ==
  FromJSON /\ Cardinality(LevelKeys(line)) <= 1 /\ Cardinality(MessageKeys(line)) <= 1 =>
    LET message == UNION {anyToString(line, k) : k \in MessageKeys(line)} IN
    /\ entry.Level = IF LevelKeys(line) = {} THEN detectLevel(message)
                     ELSE CHOOSE v \in {normaliseLevel(anyToString(line, k)) : k \in LevelKeys(line)} : TRUE
    /\ entry.Message = IF message = {} THEN line.text ELSE message
    /\ \A k \in DOMAIN line.parts \ (jsonLevelKeys \cup jsonMsgKeys) :
         k \in DOMAIN entry.Fields /\ entry.Fields[k] = anyToString(line, k)

\* And whatever the object, in any order, no value that is not an integer gets
\* lost: it is a field that a rule can name, under its key and as it is in the
\* line, but for one level key and one message key at most, which the entry's
\* level and message show, and a time that the entry's time shows. (Integers are
\* lost: anyToString makes each of them one NUL.)
ValuesKept ==
  FromJSON =>
    LET spent == {k \in DOMAIN line.parts \ line.ints :
                    /\ line.parts[k] # {}
                    /\ k \in DOMAIN entry.Fields => entry.Fields[k] # line.parts[k]}
    IN /\ spent \subseteq jsonLevelKeys \cup jsonMsgKeys \cup jsonTimeKeys
       /\ Cardinality(spent \cap jsonLevelKeys) <= 1
       /\ Cardinality(spent \cap jsonMsgKeys) <= 1
       /\ \A k \in spent \cap jsonLevelKeys : entry.Level = normaliseLevel(line.parts[k])
       /\ \A k \in spent \cap jsonMsgKeys : entry.Message = line.parts[k]
       /\ \A k \in spent \cap jsonTimeKeys : entry.Time = "line"

\* The rules engine and the log stream agree on what is severe enough, for
\* every entry the parser makes and every minimum that both know by name. They
\* would not for a level that is in neither table: the one lets it through, the
\* other drops it.
FiltersAgree ==
  Complete => \A minimum \in DOMAIN levelOrder :
    levelAtLeast(entry.Level, minimum) <=> Streamed(entry.Level, minimum)
=============================================================================
