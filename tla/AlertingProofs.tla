--------------------------- MODULE AlertingProofs ---------------------------
(***************************************************************************)
(* Proofs about the way of one line through the program, for every line,   *)
(* INI file and rule: what the parser keeps of an object, that a mail is   *)
(* encrypted before anything is said and its connection always closed,     *)
(* that all copies of an alert say the same, and that the dispatcher with  *)
(* its outputs implements Delivery.                                        *)
(***************************************************************************)
EXTENDS Alerting, SequenceTheorems, FiniteSetTheorems, TLAPS
-----------------------------------------------------------------------------
(* The parser *)

\* What has been gone through of the object, and the values in it.
Taken == DOMAIN line.parts \ left
Value(k) == anyToString(line, k)

\* The keys in K that were gone through and left no field.
Spent(K) == (Taken \cap K) \ DOMAIN entry.Fields

\* The fields so far are of the line, with its values, and a key without a
\* meaning is one of them.
FieldsKept ==
  /\ \A k \in DOMAIN entry.Fields : k \in Taken /\ entry.Fields[k] = Value(k)
  /\ \A k \in Taken \ (jsonLevelKeys \cup jsonMsgKeys) : k \in DOMAIN entry.Fields

\* The level is that of the one level key that was used up; without a level no
\* such key has come yet.
LevelKept ==
  /\ entry.Level = "" => Taken \cap jsonLevelKeys = {}
  /\ entry.Level # "" => \E k \in Spent(jsonLevelKeys) :
       /\ entry.Level = normaliseLevel(Value(k))
       /\ Spent(jsonLevelKeys) = {k}

\* Likewise the message. But one that is empty uses up its key, too.
MessageKept ==
  /\ entry.Message = {} => \A k \in Taken \cap jsonMsgKeys : Value(k) = {}
  /\ entry.Message # {} => \E k \in Spent(jsonMsgKeys) :
       /\ entry.Message = Value(k)
       /\ \A x \in Spent(jsonMsgKeys) : x = k \/ Value(x) = {}

\* The loop of parseJSON.
Loop ==
  at = "keys" =>
    /\ entry = LogEntry(line, "now", entry.Level, entry.Message, entry.Fields, "json")
    /\ left \subseteq DOMAIN line.parts
    /\ FieldsKept /\ LevelKept /\ MessageKept

\* The level of a complete entry is one of the five.
Levelled == Complete => entry.Level \in DOMAIN levelOrder /\ entry.Raw = line.text

Parsed == Loop /\ Levelled /\ ValuesKept /\ OrderIrrelevant
-----------------------------------------------------------------------------
\* Whatever is written, guessed or derived from a status is one of the five levels.
LEMMA FiveLevels ==
  ASSUME NEW s
  PROVE  /\ normaliseLevel(s) \in DOMAIN levelOrder /\ normaliseLevel(s) # ""
         /\ detectLevel(s) \in DOMAIN levelOrder
         /\ apacheLevel(s) \in DOMAIN levelOrder
<1>1. DOMAIN levelOrder = {"debug", "info", "warn", "error", "fatal"}
  BY DEF levelOrder
<1>2. normaliseLevel(s) \in {"debug", "info", "warn", "error", "fatal"}
  BY DEF normaliseLevel
<1>3. detectLevel(s) \in {"debug", "info", "warn", "error", "fatal"}
  BY DEF detectLevel
<1>4. apacheLevel(s) \in {"debug", "info", "warn", "error", "fatal"}
  BY DEF apacheLevel
<1> QED
  BY <1>1, <1>2, <1>3, <1>4

\* The two tables of levels have the five in the same order.
LEMMA SameOrder ==
  ASSUME NEW l \in DOMAIN levelOrder
  PROVE  levelOrder[l] \in Nat /\ minLevelRank(l) = levelOrder[l] + 2
<1>1. l \in {"debug", "info", "warn", "error", "fatal"}
  BY DEF levelOrder
<1>2. DOMAIN levelNames = 1..6
  BY DEF levelNames
<1> DEFINE Has(r) == l \in levelNames[r]
<1>3. \A r \in 1..6 : Has(r) <=> r = levelOrder[l] + 2
  BY <1>1 DEF levelNames, levelOrder
<1>4. levelOrder[l] \in 0..4
  BY <1>1 DEF levelOrder
<1>5. levelOrder[l] + 2 \in 1..6
  BY <1>4
<1> QED
  BY <1>2, <1>3, <1>4, <1>5 DEF minLevelRank

\* So both filters let the same of the five through.
LEMMA SameFilter ==
  ASSUME NEW l \in DOMAIN levelOrder, NEW m \in DOMAIN levelOrder
  PROVE  levelAtLeast(l, m) <=> Streamed(l, m)
BY SameOrder DEF levelAtLeast, Streamed
-----------------------------------------------------------------------------
(* The loop of parseJSON *)

\* The two kinds of keys have nothing in common.
LEMMA KeysApart == jsonLevelKeys \cap jsonMsgKeys = {}
BY DEF jsonLevelKeys, jsonMsgKeys

\* Before the first key.
LEMMA LoopBegins ==
  ASSUME Parse, at' = "keys"
  PROVE  Loop'
<1>1. /\ left' = DOMAIN line.parts /\ line' = line
      /\ entry' = LogEntry(line, "now", "", {}, <<>>, "json")
  BY DEF Parse, parseJSON
<1>2. /\ entry'.Time = "now" /\ entry'.Level = "" /\ entry'.Message = {}
      /\ entry'.Fields = <<>>
  BY <1>1 DEF LogEntry
<1>4. DOMAIN <<>> = {}
  OBVIOUS
<1>3. Taken' = {}
  BY <1>1 DEF Taken
<1> QED
  BY <1>1, <1>2, <1>3, <1>4 DEF Loop, FieldsKept, LevelKept, MessageKept

\* One key.
LEMMA LoopStep ==
  ASSUME Loop, NEW k \in left, TakeKey(k)
  PROVE  Loop'
<1>1. /\ entry = LogEntry(line, "now", entry.Level, entry.Message, entry.Fields, "json")
      /\ left \subseteq DOMAIN line.parts
      /\ FieldsKept /\ LevelKept /\ MessageKept
  BY DEF Loop, TakeKey
<1>2. /\ at' = "keys" /\ line' = line /\ left' = left \ {k}
      /\ entry' = Store(entry, k, Value(k), parseTime(line, k))
  BY DEF TakeKey, Value
<1>3. Taken' = Taken \cup {k} /\ k \notin Taken /\ left' \subseteq DOMAIN line'.parts
  BY <1>1, <1>2 DEF Taken
<1>4. k \notin DOMAIN entry.Fields
  BY <1>1, <1>3 DEF FieldsKept
<1>5. entry.Time = "now"
  BY <1>1 DEF LogEntry
<1>6. \A x : Value(x)' = Value(x)
  BY <1>2 DEF Value
<1>7. CASE entry.Level = "" /\ k \in jsonLevelKeys
  <2>1. entry' = [entry EXCEPT !.Level = normaliseLevel(Value(k))]
    BY <1>2, <1>5, <1>7, KeysApart DEF Store
  <2>2. entry' = LogEntry(line, "now", normaliseLevel(Value(k)), entry.Message, entry.Fields, "json")
    BY <1>1, <2>1 DEF LogEntry
  <2>3. /\ entry'.Level = normaliseLevel(Value(k)) /\ entry'.Message = entry.Message
        /\ entry'.Fields = entry.Fields
    BY <2>2 DEF LogEntry
  <2>4. FieldsKept'
    BY <1>1, <1>3, <1>6, <1>7, <2>3 DEF FieldsKept
  <2>5. Spent(jsonLevelKeys)' = {k}
    BY <1>1, <1>3, <1>4, <1>7, <2>3 DEF Spent, LevelKept
  <2>6. LevelKept'
    <3>1. entry'.Level # ""
      BY <2>3, FiveLevels
    <3>2. entry'.Level = normaliseLevel(Value(k)')
      BY <1>6, <2>3
    <3> QED
      BY <2>5, <3>1, <3>2 DEF LevelKept
  <2>7. Spent(jsonMsgKeys)' = Spent(jsonMsgKeys) /\ Taken' \cap jsonMsgKeys = Taken \cap jsonMsgKeys
    BY <1>3, <1>7, <2>3, KeysApart DEF Spent
  <2>8. MessageKept'
    BY <1>1, <1>6, <2>3, <2>7 DEF MessageKept
  <2> QED
    BY <1>2, <1>3, <2>2, <2>3, <2>4, <2>6, <2>8 DEF Loop
<1>8. CASE entry.Message = {} /\ k \in jsonMsgKeys
  <2>1. entry' = [entry EXCEPT !.Message = Value(k)]
    BY <1>2, <1>5, <1>8, KeysApart DEF Store
  <2>2. entry' = LogEntry(line, "now", entry.Level, Value(k), entry.Fields, "json")
    BY <1>1, <2>1 DEF LogEntry
  <2>3. /\ entry'.Level = entry.Level /\ entry'.Message = Value(k)
        /\ entry'.Fields = entry.Fields
    BY <2>2 DEF LogEntry
  <2>4. FieldsKept'
    BY <1>1, <1>3, <1>6, <1>8, <2>3 DEF FieldsKept
  <2>5. Spent(jsonMsgKeys)' = Spent(jsonMsgKeys) \cup {k} /\ k \in Spent(jsonMsgKeys)'
    BY <1>3, <1>4, <1>8, <2>3 DEF Spent
  <2>6. \A x \in Taken \cap jsonMsgKeys : Value(x) = {}
    BY <1>1, <1>8 DEF MessageKept
  <2>7. MessageKept'
    <3>1. \A x \in Taken' \cap jsonMsgKeys : x = k \/ Value(x)' = {}
      BY <1>3, <1>6, <2>6
    <3>2. \A x \in Spent(jsonMsgKeys)' : x = k \/ Value(x)' = {}
      BY <3>1 DEF Spent
    <3>3. entry'.Message = Value(k)'
      BY <1>6, <2>3
    <3> QED
      BY <2>5, <3>1, <3>2, <3>3 DEF MessageKept
  <2>8. Spent(jsonLevelKeys)' = Spent(jsonLevelKeys) /\ Taken' \cap jsonLevelKeys = Taken \cap jsonLevelKeys
    BY <1>3, <1>8, <2>3, KeysApart DEF Spent
  <2>9. LevelKept'
    BY <1>1, <1>6, <2>3, <2>8 DEF LevelKept
  <2> QED
    BY <1>2, <1>3, <2>2, <2>3, <2>4, <2>7, <2>9 DEF Loop
<1>9. CASE ~(entry.Level = "" /\ k \in jsonLevelKeys) /\ ~(entry.Message = {} /\ k \in jsonMsgKeys)
  <2>1. entry' = [entry EXCEPT !.Fields = With(entry.Fields, k, Value(k))]
    BY <1>2, <1>5, <1>9 DEF Store
  <2>2. entry' = LogEntry(line, "now", entry.Level, entry.Message,
                          With(entry.Fields, k, Value(k)), "json")
    BY <1>1, <2>1 DEF LogEntry
  <2>3. /\ entry'.Level = entry.Level /\ entry'.Message = entry.Message
        /\ entry'.Fields = With(entry.Fields, k, Value(k))
    BY <2>2 DEF LogEntry
  <2>4. /\ DOMAIN entry'.Fields = DOMAIN entry.Fields \cup {k}
        /\ \A x \in DOMAIN entry'.Fields :
             entry'.Fields[x] = IF x = k THEN Value(k) ELSE entry.Fields[x]
    BY <2>3 DEF With
  <2>5. FieldsKept'
    BY <1>1, <1>3, <1>6, <2>4 DEF FieldsKept
  <2>6. \A K : Spent(K)' = Spent(K)
    BY <1>3, <2>4 DEF Spent
  <2>7. LevelKept'
    BY <1>1, <1>3, <1>6, <1>9, <2>3, <2>6 DEF LevelKept
  <2>8. MessageKept'
    BY <1>1, <1>3, <1>6, <1>9, <2>3, <2>6 DEF MessageKept
  <2> QED
    BY <1>2, <1>3, <2>2, <2>3, <2>5, <2>7, <2>8 DEF Loop
<1> QED
  BY <1>7, <1>8, <1>9


\* What the entry of a JSON object comes to when its keys are all taken.
LEMMA LoopEnds ==
  ASSUME Loop, EndKeys
  PROVE  /\ entry'.Level = IF entry.Level = "" THEN detectLevel(entry.Message) ELSE entry.Level
         /\ entry'.Message = IF entry.Message = {} THEN line.text ELSE entry.Message
         /\ entry'.Fields = entry.Fields /\ entry'.Raw = line.text
         /\ line' = line /\ at' = "parsed"
         /\ Taken = DOMAIN line.parts
         /\ FieldsKept /\ LevelKept /\ MessageKept
<1> DEFINE level == IF entry.Level = "" THEN detectLevel(entry.Message) ELSE entry.Level
           message == IF entry.Message = {} THEN line.text ELSE entry.Message
<1>1. entry = LogEntry(line, "now", entry.Level, entry.Message, entry.Fields, "json")
  BY DEF Loop, EndKeys
<1>2. entry' = [entry EXCEPT !.Level = level, !.Message = message]
  BY <1>1 DEF EndKeys, LogEntry
<1>3. Taken = DOMAIN line.parts /\ line' = line /\ at' = "parsed"
  BY DEF Taken, EndKeys
<1>4. FieldsKept /\ LevelKept /\ MessageKept
  BY DEF Loop, EndKeys
<1> HIDE DEF level, message
<1>5. /\ entry'.Level = level /\ entry'.Message = message
      /\ entry'.Fields = entry.Fields /\ entry'.Raw = line.text
  BY <1>1, <1>2 DEF LogEntry
<1> QED
  BY <1>3, <1>4, <1>5 DEF level, message

\* A set of at most one element among finitely many.
LEMMA AtMostOne ==
  ASSUME NEW S, NEW x, S \subseteq {x}
  PROVE  Cardinality(S) <= 1
<1>1. CASE S = {}
  BY <1>1, FS_EmptySet
<1>2. CASE S = {x}
  BY <1>2, FS_Singleton
<1> QED
  BY <1>1, <1>2

\* And conversely.
LEMMA NoneOrOne ==
  ASSUME NEW S, IsFiniteSet(S), Cardinality(S) <= 1, S # {}
  PROVE  \E x : S = {x}
<1>1. Cardinality(S) \in Nat /\ Cardinality(S) # 0
  BY FS_CardinalityType, FS_EmptySet
<1>2. Cardinality(S) = 1
  BY <1>1
<1> QED
  BY <1>2, FS_Singleton

\* Four elements at most are finitely many.
LEMMA FourFinite ==
  ASSUME NEW a, NEW b, NEW c, NEW d
  PROVE  IsFiniteSet({a, b, c, d})
<1> DEFINE A == {a} \cup {b}
           B == {c} \cup {d}
<1>1. IsFiniteSet(A) /\ IsFiniteSet(B)
  BY FS_Singleton, FS_Union
<1>2. {a, b, c, d} = A \cup B
  OBVIOUS
<1> HIDE DEF A, B
<1>3. IsFiniteSet(A \cup B)
  BY <1>1, FS_Union
<1> QED
  BY <1>2, <1>3

\* The level a JSON object has in the end.
LEMMA EndLevel ==
  ASSUME Loop, EndKeys
  PROVE  /\ entry'.Level \in DOMAIN levelOrder
         /\ \A k \in Spent(jsonLevelKeys) : entry'.Level = normaliseLevel(Value(k))
         /\ \E c : Spent(jsonLevelKeys) \subseteq {c}
<1>1. /\ LevelKept
      /\ entry'.Level = IF entry.Level = "" THEN detectLevel(entry.Message) ELSE entry.Level
  BY LoopEnds
<1>2. CASE entry.Level = ""
  <2>1. Spent(jsonLevelKeys) = {}
    BY <1>1, <1>2 DEF LevelKept, Spent
  <2> QED
    BY <1>1, <1>2, <2>1, FiveLevels
<1>3. CASE entry.Level # ""
  <2>1. PICK k : entry.Level = normaliseLevel(Value(k)) /\ Spent(jsonLevelKeys) = {k}
    BY <1>1, <1>3 DEF LevelKept
  <2>2. entry'.Level = normaliseLevel(Value(k))
    BY <1>1, <1>3, <2>1
  <2> QED
    BY <2>1, <2>2, FiveLevels
<1> QED
  BY <1>2, <1>3

\* And its message.
LEMMA EndMessage ==
  ASSUME Loop, EndKeys
  PROVE  /\ \A k \in Spent(jsonMsgKeys) : Value(k) = {} \/ entry'.Message = Value(k)
         /\ \E c : \A k \in Spent(jsonMsgKeys) : Value(k) = {} \/ k = c
<1>1. /\ MessageKept
      /\ entry'.Message = IF entry.Message = {} THEN line.text ELSE entry.Message
  BY LoopEnds
<1>2. CASE entry.Message = {}
  BY <1>1, <1>2 DEF MessageKept, Spent
<1>3. CASE entry.Message # {}
  BY <1>1, <1>3 DEF MessageKept
<1> QED
  BY <1>2, <1>3

\* No value but an integer is lost when the loop ends. A key that was used up is
\* never one of a time.
LEMMA EndKeeps ==
  ASSUME Loop, EndKeys
  PROVE  ValuesKept'
<1>1. /\ entry'.Fields = entry.Fields /\ line' = line
      /\ Taken = DOMAIN line.parts /\ FieldsKept
  BY LoopEnds
<1> DEFINE spent == {k \in DOMAIN line.parts \ line.ints :
                       /\ line.parts[k] # {}
                       /\ k \in DOMAIN entry'.Fields => entry'.Fields[k] # line.parts[k]}
<1>2. \A k \in spent : Value(k) = line.parts[k]
  BY DEF Value, anyToString
<1>3. \A k \in spent : k \in Taken \ DOMAIN entry.Fields /\ Value(k) # {}
  BY <1>1, <1>2 DEF FieldsKept
<1> HIDE DEF spent
<1>4. spent \subseteq jsonLevelKeys \cup jsonMsgKeys
  BY <1>1, <1>3 DEF FieldsKept
<1>5. /\ \A k \in spent \cap jsonLevelKeys : entry'.Level = normaliseLevel(Value(k))
      /\ Cardinality(spent \cap jsonLevelKeys) <= 1
  <2>1. spent \cap jsonLevelKeys \subseteq Spent(jsonLevelKeys)
    BY <1>3 DEF Spent
  <2>2. PICK c : Spent(jsonLevelKeys) \subseteq {c}
    BY EndLevel
  <2>3. spent \cap jsonLevelKeys \subseteq {c}
    BY <2>1, <2>2
  <2>4. Cardinality(spent \cap jsonLevelKeys) <= 1
    BY <2>3, AtMostOne
  <2> QED
    BY <2>1, <2>4, EndLevel
<1>6. /\ \A k \in spent \cap jsonMsgKeys : entry'.Message = Value(k)
      /\ Cardinality(spent \cap jsonMsgKeys) <= 1
  <2>1. \A k \in spent \cap jsonMsgKeys : k \in Spent(jsonMsgKeys) /\ Value(k) # {}
    BY <1>3 DEF Spent
  <2>2. PICK c : \A k \in Spent(jsonMsgKeys) : Value(k) = {} \/ k = c
    BY EndMessage
  <2>3. spent \cap jsonMsgKeys \subseteq {c}
    BY <2>1, <2>2
  <2>4. Cardinality(spent \cap jsonMsgKeys) <= 1
    BY <2>3, AtMostOne
  <2> QED
    BY <2>1, <2>4, EndMessage
<1>7. spent \cap jsonTimeKeys = {}
  BY <1>4 DEF jsonLevelKeys, jsonMsgKeys, jsonTimeKeys
<1>8. /\ \A k \in spent \cap jsonLevelKeys : entry'.Level = normaliseLevel(line.parts[k])
      /\ \A k \in spent \cap jsonMsgKeys : entry'.Message = line.parts[k]
  BY <1>5, <1>6, <1>2
<1> QED
  BY <1>1, <1>4, <1>5, <1>6, <1>7, <1>8 DEF ValuesKept, spent

\* With one level and one message at most, the entry has these.
LEMMA EndFollows ==
  ASSUME Loop, EndKeys
  PROVE  OrderIrrelevant'
<1>1. /\ entry'.Level = IF entry.Level = "" THEN detectLevel(entry.Message) ELSE entry.Level
      /\ entry'.Message = IF entry.Message = {} THEN line.text ELSE entry.Message
      /\ entry'.Fields = entry.Fields /\ line' = line
      /\ Taken = DOMAIN line.parts
      /\ FieldsKept /\ LevelKept /\ MessageKept
  BY LoopEnds
<1> DEFINE levels == LevelKeys(line')
           messages == MessageKeys(line')
           message == UNION {anyToString(line', k) : k \in messages}
<1>2. levels = Taken \cap jsonLevelKeys
  BY <1>1 DEF LevelKeys
<1>3. \A k : k \in messages <=> k \in Taken \cap jsonMsgKeys /\ Value(k) # {}
  BY <1>1 DEF MessageKeys, Value
<1>4. IsFiniteSet(levels) /\ IsFiniteSet(messages)
  <2>1. IsFiniteSet(jsonLevelKeys) /\ IsFiniteSet(jsonMsgKeys)
    BY FourFinite DEF jsonLevelKeys, jsonMsgKeys
  <2>2. levels \subseteq jsonLevelKeys /\ messages \subseteq jsonMsgKeys
    BY DEF LevelKeys, MessageKeys
  <2> QED
    BY <2>1, <2>2, FS_Subset
<1> SUFFICES ASSUME Cardinality(levels) <= 1, Cardinality(messages) <= 1
             PROVE  /\ entry'.Level =
                         IF levels = {} THEN detectLevel(message)
                         ELSE CHOOSE v \in {normaliseLevel(anyToString(line', k)) : k \in levels} : TRUE
                    /\ entry'.Message = IF message = {} THEN line'.text ELSE message
                    /\ \A k \in DOMAIN line'.parts \ (jsonLevelKeys \cup jsonMsgKeys) :
                         k \in DOMAIN entry'.Fields /\ entry'.Fields[k] = anyToString(line', k)
  BY DEF OrderIrrelevant
<1> HIDE DEF levels, messages
<1>5. message = entry.Message
  <2>1. CASE messages = {}
    <3>1. message = {}
      BY <2>1
    <3>2. entry.Message = {}
      BY <1>1, <1>3, <2>1 DEF MessageKept, Spent
    <3> QED
      BY <3>1, <3>2
  <2>2. CASE messages # {}
    <3>1. PICK k : messages = {k}
      BY <1>4, <2>2, NoneOrOne
    <3>2. message = Value(k)
      BY <1>1, <3>1 DEF Value
    <3>3. entry.Message = Value(k)
      BY <1>1, <1>3, <3>1 DEF MessageKept, Spent
    <3> QED
      BY <3>2, <3>3
  <2> QED
    BY <2>1, <2>2
<1> HIDE DEF message
<1>6. entry'.Level = IF levels = {} THEN detectLevel(message)
                     ELSE CHOOSE v \in {normaliseLevel(anyToString(line', k)) : k \in levels} : TRUE
  <2>1. CASE levels = {}
    <3>1. entry.Level = ""
      BY <1>1, <1>2, <2>1 DEF LevelKept, Spent
    <3> QED
      BY <1>1, <1>5, <2>1, <3>1
  <2>2. CASE levels # {}
    <3>1. PICK k : levels = {k}
      BY <1>4, <2>2, NoneOrOne
    <3>2. {normaliseLevel(anyToString(line', x)) : x \in levels} = {normaliseLevel(Value(k))}
      BY <1>1, <3>1 DEF Value
    <3>3. \A v : (CHOOSE x \in {v} : TRUE) = v
      OBVIOUS
    <3>4. entry.Level = normaliseLevel(Value(k)) /\ entry.Level # ""
      BY <1>1, <1>2, <3>1 DEF LevelKept, Spent
    <3> QED
      BY <1>1, <2>2, <3>2, <3>3, <3>4
  <2> QED
    BY <2>1, <2>2
<1>7. entry'.Message = IF message = {} THEN line'.text ELSE message
  BY <1>1, <1>5
<1>8. \A k \in DOMAIN line'.parts \ (jsonLevelKeys \cup jsonMsgKeys) :
        k \in DOMAIN entry'.Fields /\ entry'.Fields[k] = anyToString(line', k)
  BY <1>1 DEF FieldsKept, Value
<1> QED
  BY <1>6, <1>7, <1>8
-----------------------------------------------------------------------------
(* The parser's invariant *)

\* The other formats: an entry with a level, and not in the format of JSON.
LEMMA OtherFormats ==
  ASSUME Parse, at' # "keys"
  PROVE  /\ at' = "parsed" /\ line' = line
         /\ entry'.Level \in DOMAIN levelOrder /\ entry'.Raw = line.text
         /\ entry'.Format # "json"
<1>1. at' = "parsed" /\ line' = line /\ at' # "line"
  BY DEF Parse
<1>2. entry' \in {parseApache(line), parseSyslog(line), asPlaintext(line)}
  BY <1>1 DEF Parse
<1>3. CASE entry' = parseApache(line)
  BY <1>1, <1>3, FiveLevels DEF parseApache, LogEntry
<1>4. CASE entry' = parseSyslog(line)
  BY <1>1, <1>4, FiveLevels DEF parseSyslog, LogEntry
<1>5. CASE entry' = asPlaintext(line)
  BY <1>1, <1>5, FiveLevels DEF asPlaintext, LogEntry
<1> QED
  BY <1>1, <1>2, <1>3, <1>4, <1>5

\* A step that does not touch the entry, nor goes back to the parser.
LEMMA EntryUntouched ==
  ASSUME Parsed, UNCHANGED <<line, left, entry>>,
         at' = at \/ (at = "parsed" /\ at' = "matched")
  PROVE  Parsed'
<1>1. Complete' <=> Complete
  BY DEF Complete
<1>2. Loop'
  <2>1. line' = line /\ left' = left /\ entry' = entry /\ (at' = "keys" => at = "keys")
    OBVIOUS
  <2>2. Taken' = Taken /\ (\A k : Value(k)' = Value(k)) /\ (\A K : Spent(K)' = Spent(K))
    BY <2>1 DEF Taken, Value, Spent
  <2>3. (FieldsKept /\ LevelKept /\ MessageKept) => (FieldsKept /\ LevelKept /\ MessageKept)'
    BY <2>1, <2>2 DEF FieldsKept, LevelKept, MessageKept
  <2> QED
    BY <2>1, <2>3 DEF Parsed, Loop
<1>3. Levelled'
  BY <1>1 DEF Parsed, Levelled
<1>4. FromJSON' <=> FromJSON
  BY <1>1 DEF FromJSON
<1>5. ValuesKept'
  BY <1>4 DEF Parsed, ValuesKept
<1>6. OrderIrrelevant'
  BY <1>4 DEF Parsed, OrderIrrelevant, LevelKeys, MessageKeys
<1> QED
  BY <1>2, <1>3, <1>5, <1>6 DEF Parsed

\* There is no entry at first.
LEMMA ParsedInit ==
  ASSUME Init
  PROVE  Parsed
<1>1. at = "line"
  BY DEF Init, ParserInit
<1> QED
  BY <1>1 DEF Parsed, Loop, Levelled, ValuesKept, OrderIrrelevant, FromJSON, Complete

\* Every step of the parser keeps the invariant.
LEMMA ParserSteps ==
  ASSUME Parsed, ParserNext
  PROVE  Parsed'
<1>1. CASE Parse /\ at' = "keys"
  <2>1. ~Complete'
    BY <1>1 DEF Complete
  <2>2. Loop'
    BY <1>1, LoopBegins
  <2> QED
    BY <2>1, <2>2 DEF Parsed, Levelled, ValuesKept, OrderIrrelevant, FromJSON
<1>2. CASE Parse /\ at' # "keys"
  <2>1. /\ at' = "parsed" /\ line' = line
        /\ entry'.Level \in DOMAIN levelOrder /\ entry'.Raw = line.text
        /\ entry'.Format # "json"
    BY <1>2, OtherFormats
  <2>2. Loop' /\ Levelled' /\ ~FromJSON'
    BY <2>1 DEF Loop, Levelled, FromJSON
  <2> QED
    BY <2>2 DEF Parsed, ValuesKept, OrderIrrelevant
<1>3. ASSUME NEW k \in left, TakeKey(k)
      PROVE  Parsed'
  <2>1. Loop'
    BY <1>3, LoopStep DEF Parsed
  <2>2. ~Complete'
    BY <1>3 DEF TakeKey, Complete
  <2> QED
    BY <2>1, <2>2 DEF Parsed, Levelled, ValuesKept, OrderIrrelevant, FromJSON
<1>4. CASE EndKeys
  <2>1. Loop
    BY DEF Parsed
  <2>2. at' = "parsed" /\ line' = line /\ entry'.Raw = line.text
    BY <1>4, <2>1, LoopEnds
  <2>3. entry'.Level \in DOMAIN levelOrder
    BY <1>4, <2>1, EndLevel
  <2>4. ValuesKept' /\ OrderIrrelevant'
    BY <1>4, <2>1, EndKeeps, EndFollows
  <2> QED
    BY <2>2, <2>3, <2>4 DEF Parsed, Loop, Levelled
<1> QED
  BY <1>1, <1>2, <1>3, <1>4 DEF ParserNext

\* Every step of the program does.
LEMMA ParsedNext ==
  ASSUME Parsed, [Next]_vars
  PROVE  Parsed'
<1>1. CASE ParserNext
  BY <1>1, ParserSteps
<1>2. CASE Match
  BY <1>2, EntryUntouched DEF Match
<1>3. CASE UNCHANGED parserVars
  BY <1>3, EntryUntouched DEF parserVars
<1> QED
  BY <1>1, <1>2, <1>3 DEF Next, Quiet, vars

\* The invariant holds always.
LEMMA AlwaysParsed == Spec => []Parsed
BY ParsedInit, ParsedNext, PTL DEF Spec

\* An entry of a JSON object does not depend on the order in which Go goes
\* through its keys, if it has one level and one message at most.
THEOREM AnyOrder == Spec => []OrderIrrelevant
<1>1. Parsed => OrderIrrelevant
  BY DEF Parsed
<1> QED
  BY <1>1, AlwaysParsed, PTL

\* For any JSON object and any order of its keys: every value that is not an
\* integer is in Fields as it is in the line, or is what the entry's level or
\* message shows, one of each at most (parseJSON).
THEOREM NoValueLost == Spec => []ValuesKept
<1>1. Parsed => ValuesKept
  BY DEF Parsed
<1> QED
  BY <1>1, AlwaysParsed, PTL

\* Rules and log stream agree on what is severe enough, for every entry
\* (levelAtLeast and the filter of handleLogStream, with a table each).
THEOREM FiltersAlike == Spec => []FiltersAgree
<1>1. Parsed => FiltersAgree
  BY SameFilter DEF Parsed, Levelled, FiltersAgree
<1> QED
  BY <1>1, AlwaysParsed, PTL
-----------------------------------------------------------------------------
(* The conversation with a mail server *)

Dials == {"dial", "tlsdial"}
Talk == {"starttls", "greet", "auth", "mail", "rcpt", "data", "write", "close", "quit"}

\* The last call but one closes the message.
Closing(s) == Len(s) > 1 /\ s[Len(s) - 1] = "close"

\* The rest of a conversation: a connection is opened by its first call if at
\* all, STARTTLS follows a plain one, and the message is closed before QUIT.
Orderly(s) ==
  /\ s \in Seq(Dials \cup Talk)
  /\ \A n \in 2..Len(s) : s[n] \in Talk
  /\ Len(s) > 0 /\ s[1] = "dial" => Len(s) > 1 /\ s[2] = "starttls"
  /\ Len(s) > 1 => Closing(s)

\* The inductive invariant. EncryptedFirst is not inductive: it says nothing of
\* the calls that are still to come.
Session ==
  /\ smtp.To \in Seq(STRING)
  /\ Orderly(script)
  /\ SessionsClosed
  /\ EncryptedFirst
-----------------------------------------------------------------------------
(* Sequences of calls *)

\* A sequence of some length is not the empty one.
LEMMA Nonempty ==
  ASSUME NEW s, Len(s) > 0
  PROVE  s # <<>>
<1>1. Len(s) # 0
  OBVIOUS
<1>2. Len(<<>>) = 0
  OBVIOUS
<1> QED
  BY <1>1, <1>2, Zenon

\* The tail of an orderly script is orderly, and it does not dial.
LEMMA TailOrderly ==
  ASSUME NEW s, Orderly(s), Len(s) > 1
  PROVE  /\ Orderly(Tail(s)) /\ Tail(s) # <<>>
         /\ Head(Tail(s)) \in Talk
         /\ Head(s) = "dial" => Head(Tail(s)) = "starttls"
<1>1. s \in Seq(Dials \cup Talk) /\ Len(s) \in Nat /\ s # <<>> /\ Head(s) = s[1]
  BY EmptySeq DEF Orderly
<1>2. /\ Tail(s) \in Seq(Dials \cup Talk) /\ Len(Tail(s)) = Len(s) - 1
      /\ \A n \in 1..Len(s) - 1 : Tail(s)[n] = s[n + 1]
  BY <1>1, HeadTailProperties
<1>3. \A n \in 1..Len(s) - 1 : Tail(s)[n] \in Talk
  BY <1>1, <1>2 DEF Orderly
<1>4. Tail(s)[1] = s[2] /\ Tail(s)[1] \in Talk
  <2>1. 1 \in 1..Len(s) - 1
    BY <1>1
  <2> QED
    BY <1>2, <1>3, <2>1
<1>5. \A n \in 2..Len(Tail(s)) : Tail(s)[n] \in Talk
  BY <1>1, <1>2, <1>3
<1>6. Len(Tail(s)) > 1 => Closing(Tail(s))
  <2>1. SUFFICES ASSUME Len(Tail(s)) > 1
                 PROVE  Tail(s)[Len(Tail(s)) - 1] = "close"
    BY DEF Closing
  <2>2. Len(Tail(s)) - 1 \in 1..Len(s) - 1 /\ Len(Tail(s)) - 1 + 1 = Len(s) - 1
    BY <1>1, <1>2, <2>1
  <2>3. s[Len(s) - 1] = "close"
    BY DEF Orderly, Closing
  <2> QED
    BY <1>2, <2>2, <2>3
<1>7. Orderly(Tail(s))
  BY <1>2, <1>4, <1>5, <1>6 DEF Orderly, Talk, Dials
<1>9. Len(Tail(s)) > 0
  BY <1>1, <1>2
<1>10. Tail(s) # <<>>
  BY <1>9, Nonempty
<1>11. Head(Tail(s)) = Tail(s)[1]
  BY <1>2, <1>10, HeadTailProperties
<1>8. s[1] = "dial" => s[2] = "starttls"
  BY <1>1 DEF Orderly
<1> QED
  BY <1>1, <1>4, <1>7, <1>8, <1>10, <1>11

\* What is put together from members of S is a sequence over S.
LEMMA ShortSequences ==
  ASSUME NEW S
  PROVE  /\ <<>> \in Seq(S)
         /\ \A a \in S : <<a>> \in Seq(S)
         /\ \A a, b \in S : <<a, b>> \in Seq(S)
         /\ \A a, b, c, d \in S : <<a, b, c, d>> \in Seq(S)
OBVIOUS

\* A sequence ends as its second part does.
LEMMA EndsAlike ==
  ASSUME NEW S, NEW p \in Seq(S), NEW t \in Seq(S), Closing(t)
  PROVE  p \o t \in Seq(S) /\ Closing(p \o t)
<1>1. Len(p) \in Nat /\ Len(t) \in Nat /\ Len(t) > 1
  BY LenProperties DEF Closing
<1>2. /\ p \o t \in Seq(S) /\ Len(p \o t) = Len(p) + Len(t)
      /\ \A n \in 1..Len(p) + Len(t) :
           (p \o t)[n] = IF n <= Len(p) THEN p[n] ELSE t[n - Len(p)]
  BY ConcatProperties
<1> DEFINE n == Len(p) + Len(t) - 1
<1>3. n \in 1..Len(p) + Len(t) /\ ~(n <= Len(p)) /\ n - Len(p) = Len(t) - 1
  BY <1>1
<1>4. (p \o t)[n] = t[Len(t) - 1]
  BY <1>2, <1>3
<1> QED
  BY <1>1, <1>2, <1>4 DEF Closing

\* Two calls that open a connection, and then talk.
LEMMA OpenAndTalk ==
  ASSUME NEW x \in Dials, NEW y \in Talk, NEW rest \in Seq(Talk), Closing(rest),
         x = "dial" => y = "starttls"
  PROVE  /\ Orderly(<<x, y>> \o rest) /\ <<x, y>> \o rest # <<>>
         /\ Head(<<x, y>> \o rest) \in Dials
<1>1. <<x, y>> \in Seq(Dials \cup Talk) /\ Len(<<x, y>>) = 2 /\ <<x, y>>[1] = x /\ <<x, y>>[2] = y
  OBVIOUS
<1>2. rest \in Seq(Dials \cup Talk) /\ Len(rest) \in Nat
  BY SeqMonotonic, LenProperties
<1> DEFINE s == <<x, y>> \o rest
<1>3. /\ s \in Seq(Dials \cup Talk) /\ Len(s) = 2 + Len(rest)
      /\ \A n \in 1..2 + Len(rest) : s[n] = IF n <= 2 THEN <<x, y>>[n] ELSE rest[n - 2]
  BY <1>1, <1>2, ConcatProperties
<1> HIDE DEF s
<1>4. s[1] = x /\ s[2] = y
  BY <1>1, <1>2, <1>3
<1>5. \A n \in 3..Len(s) : s[n] \in Talk
  BY <1>2, <1>3, ElementOfSeq
<1>6. \A n \in 2..Len(s) : s[n] \in Talk
  BY <1>2, <1>3, <1>4, <1>5
<1>7. s # <<>> /\ Head(s) = s[1]
  BY <1>2, <1>3, EmptySeq
<1>8. Closing(s)
  BY <1>1, <1>2, EndsAlike DEF s
<1>9. Orderly(s)
  BY <1>2, <1>3, <1>4, <1>6, <1>8 DEF Orderly
<1> QED
  BY <1>4, <1>7, <1>9 DEF s

\* What deliverSMTP says, with and without a user.
LEMMA DeliverTalks ==
  ASSUME smtp.To \in Seq(STRING)
  PROVE  deliverSMTP \in Seq(Talk) /\ Closing(deliverSMTP)
<1> DEFINE auth == IF smtp.User = "" THEN <<>> ELSE <<"auth">>
           rcpt == [n \in DOMAIN smtp.To |-> "rcpt"]
           end == <<"data", "write", "close", "quit">>
<1>1. {"auth", "mail", "rcpt", "data", "write", "close", "quit"} \subseteq Talk
  BY DEF Talk
<1>2. auth \in Seq(Talk) /\ <<"mail">> \in Seq(Talk) /\ end \in Seq(Talk)
  BY <1>1, ShortSequences
<1>3. rcpt \in Seq(Talk)
  <2>1. Len(smtp.To) \in Nat /\ DOMAIN smtp.To = 1..Len(smtp.To)
    BY LenProperties
  <2>2. rcpt \in [1..Len(smtp.To) -> Talk]
    BY <1>1, <2>1
  <2> HIDE DEF rcpt
  <2> QED
    BY <2>1, <2>2, SeqDef
<1>4. Closing(end)
  BY DEF Closing
<1>5. deliverSMTP = auth \o (<<"mail">> \o (rcpt \o end))
  BY DEF deliverSMTP
<1> HIDE DEF auth, rcpt, end
<1>6. rcpt \o end \in Seq(Talk) /\ Closing(rcpt \o end)
  BY <1>2, <1>3, <1>4, EndsAlike
<1>7. /\ <<"mail">> \o (rcpt \o end) \in Seq(Talk)
      /\ Closing(<<"mail">> \o (rcpt \o end))
  BY <1>2, <1>6, EndsAlike
<1> QED
  BY <1>2, <1>5, <1>7, EndsAlike

\* sendEmail's calls, on any port.
LEMMA ScriptOrderly ==
  ASSUME smtp.To \in Seq(STRING)
  PROVE  Orderly(Script) /\ Script # <<>> /\ Head(Script) \in Dials
<1>1. deliverSMTP \in Seq(Talk) /\ Closing(deliverSMTP)
  BY DeliverTalks
<1>2. "dial" \in Dials /\ "tlsdial" \in Dials /\ "starttls" \in Talk /\ "greet" \in Talk
  BY DEF Dials, Talk
<1>3. CASE smtp.Port = 465
  <2>1. Script = <<"tlsdial", "greet">> \o deliverSMTP
    BY <1>3 DEF Script, sendTLS
  <2> QED
    BY <1>1, <1>2, <2>1, OpenAndTalk
<1>4. CASE smtp.Port # 465
  <2>1. Script = <<"dial", "starttls">> \o deliverSMTP
    BY <1>4 DEF Script, sendSTARTTLS
  <2> QED
    BY <1>1, <1>2, <2>1, OpenAndTalk
<1> QED
  BY <1>3, <1>4
-----------------------------------------------------------------------------
(* The invariant *)

\* A step that leaves the mail and the configuration alone keeps the invariant.
LEMMA MailUntouched ==
  ASSUME Session, UNCHANGED <<cfg, mail>>
  PROVE  Session'
BY DEF Session, SessionsClosed, EncryptedFirst, smtp, mail

\* No mail is in progress at first.
LEMMA SessionInit ==
  ASSUME Init
  PROVE  Session
<1>1. smtp.To \in Seq(STRING)
  BY AlertingAssumption DEF Init, smtp
<1>2. script = <<>> /\ open = FALSE
  BY DEF Init, OutputsInit
<1>3. Orderly(<<>>)
  BY ShortSequences DEF Orderly
<1> QED
  BY <1>1, <1>2, <1>3 DEF Session, SessionsClosed, EncryptedFirst

\* The steps of a mail keep the invariant: it is begun, a call succeeds or
\* fails, the message is accepted, the server is left.
LEMMA MailSteps ==
  ASSUME Session, sendEmail \/ Succeeds \/ Accepted \/ Quit \/ Fails
  PROVE  Session'
<1>1. /\ smtp.To \in Seq(STRING) /\ Orderly(script)
      /\ script # <<>> /\ Head(script) \notin Dials =>
           open /\ (Head(script) # "starttls" => secure)
  BY DEF Session, EncryptedFirst, Dials
<1>2. smtp'.To \in Seq(STRING)
  <2>1. cfg' = cfg
    BY DEF sendEmail, Succeeds, Accepted, Quit, Fails, Return
  <2> QED
    BY <1>1, <2>1 DEF smtp
<1>3. CASE sendEmail
  <2>1. CASE UNCHANGED <<cfg, mail>>
    BY <2>1, MailUntouched
  <2>2. CASE script' = Script
    <3>1. Orderly(Script) /\ Script # <<>> /\ Head(Script) \in Dials
      BY <1>1, ScriptOrderly
    <3> QED
      BY <1>2, <2>2, <3>1 DEF Session, SessionsClosed, EncryptedFirst, Dials
  <2> QED
    BY <1>3, <2>1, <2>2 DEF sendEmail, Return
<1>4. CASE Succeeds
  <2>1. /\ Len(script) > 1 /\ script' = Tail(script) /\ open'
        /\ secure' = (secure \/ Head(script) \in {"tlsdial", "starttls"})
    <3>1. Len(script) > 2 /\ Len(script) \in Nat
      BY <1>1, <1>4, LenProperties DEF Succeeds, Orderly
    <3> QED
      BY <1>4, <3>1 DEF Succeeds
  <2>2. /\ Orderly(script') /\ script' # <<>> /\ script # <<>>
        /\ Head(script) = "dial" => Head(script') = "starttls"
    BY <1>1, <2>1, TailOrderly, EmptySeq
  <2>3. Head(script') # "starttls" => secure'
    BY <1>1, <2>1, <2>2 DEF Dials
  <2> QED
    BY <1>2, <2>1, <2>2, <2>3 DEF Session, SessionsClosed, EncryptedFirst
<1>5. CASE Accepted
  <2>1. /\ Len(script) = 2 /\ script' = Tail(script)
        /\ open' = open /\ secure' = secure
    BY <1>5 DEF Accepted
  <2>2. Orderly(script') /\ script' # <<>> /\ script # <<>>
    <3>1. Len(script) > 1 /\ Len(script) > 0
      BY <2>1
    <3> QED
      BY <1>1, <2>1, <3>1, TailOrderly, Nonempty, Zenon
  <2>3. Head(script) = "close"
    BY <1>1, <2>1, <2>2, HeadTailProperties DEF Orderly, Closing
  <2>4. open' /\ secure'
    BY <1>1, <2>1, <2>2, <2>3 DEF Dials
  <2> QED
    BY <1>2, <2>2, <2>4 DEF Session, SessionsClosed, EncryptedFirst
<1>6. CASE Quit \/ Fails
  <2>1. script' = <<>> /\ open' = FALSE
    BY <1>6 DEF Quit, Fails, HungUp
  <2>2. Orderly(<<>>)
    BY ShortSequences DEF Orderly
  <2> QED
    BY <1>2, <2>1, <2>2 DEF Session, SessionsClosed, EncryptedFirst
<1> QED
  BY <1>3, <1>4, <1>5, <1>6

\* Every step keeps the invariant.
LEMMA SessionNext ==
  ASSUME Session, [Next]_vars
  PROVE  Session'
<1>1. CASE UNCHANGED vars
  BY <1>1, MailUntouched DEF vars, outputVars
<1>2. CASE ParserNext /\ UNCHANGED outputVars
  BY <1>2, MailUntouched DEF outputVars
<1>3. CASE Match
  BY <1>3, MailUntouched DEF Match
<1>4. CASE OutputsNext
  <2>1. CASE Publish \/ printAlert \/ writeFile
    BY <2>1, MailUntouched DEF Publish, printAlert, writeFile, Return
  <2>2. CASE sendWebhook \/ sendTeams \/ UnknownAction
    BY <2>2, MailUntouched DEF sendWebhook, sendTeams, UnknownAction, Post, Return
  <2>3. CASE sendEmail \/ Succeeds \/ Accepted \/ Quit \/ Fails
    BY <2>3, MailSteps
  <2>4. CASE NextAlert
    BY <2>4, MailUntouched DEF NextAlert
  <2> QED
    BY <1>4, <2>1, <2>2, <2>3, <2>4 DEF OutputsNext
<1>5. CASE Quiet
  BY <1>1, <1>5 DEF Quiet
<1> QED
  BY <1>1, <1>2, <1>3, <1>4, <1>5 DEF Next

\* The invariant holds always.
LEMMA AlwaysSession == Spec => []Session
BY SessionInit, SessionNext, PTL DEF Spec

\* However a mail ends, its connection is closed (the deferred Close calls of
\* sendSTARTTLS and sendTLS).
THEOREM AlwaysClosed == Spec => []SessionsClosed
<1>1. Session => SessionsClosed
  BY DEF Session
<1> QED
  BY <1>1, AlwaysSession, PTL

\* On any port, with any number of recipients, with and without a user,
\* nothing of a mail is said before the connection is encrypted.
THEOREM AlwaysEncrypted == Spec => []EncryptedFirst
<1>1. Session => EncryptedFirst
  BY DEF Session
<1> QED
  BY <1>1, AlwaysSession, PTL
-----------------------------------------------------------------------------
(* What is in a copy *)

\* The facts of an alert that a copy can show, and how urgent its severity is.
Facts(a) ==
  [severity |-> a.Severity, rule |-> a.RuleName, message |-> a.Entry.Message,
   source |-> a.Entry.Source, level |-> a.Entry.Level, format |-> a.Entry.Format]

Grade(s) == CASE s = "CRITICAL" -> "high" [] s = "WARN" -> "middle" [] OTHER -> "low"

\* c is a copy of the alert a, at an output called to.
IsCopy(c, a, to) ==
  /\ {"rule", "severity", "message"} \subseteq DOMAIN c
  /\ \A f \in DOMAIN c \ {"colour", "time"} : c[f] = Facts(a)[f]
  /\ c.time = "alert" \/ to = "webhook"
  /\ "colour" \in DOMAIN c => Urgency(c.colour) = Grade(a.Severity)

\* The colours of the outputs stand for the same.
LEMMA ColoursAgree ==
  ASSUME NEW s
  PROVE  /\ Urgency(severityColour(s)) = Grade(s)
         /\ Urgency(teamsColour(s)) = Grade(s)
         /\ Urgency(emailColour(s)) = Grade(s)
<1>1. Urgency(severityColour(s)) = Grade(s)
  BY DEF Urgency, Grade, severityColour
<1>2. Urgency(teamsColour(s)) = Grade(s)
  BY DEF Urgency, Grade, teamsColour
<1>3. Urgency(emailColour(s)) = Grade(s)
  BY DEF Urgency, Grade, emailColour
<1> QED
  BY <1>1, <1>2, <1>3

\* What the outputs send are copies of the alert.
LEMMA CopiesMade ==
  ASSUME NEW a, NEW to
  PROVE  /\ IsCopy(AlertLine(a), a, to)
         /\ IsCopy(TailEvent(a), a, to)
         /\ IsCopy(slackPayload(a), a, "webhook")
         /\ IsCopy(teamsPayload(a), a, to)
         /\ IsCopy(renderEmailPlain(a), a, to)
         /\ IsCopy(renderEmailHTML(a), a, to)
<1>1. IsCopy(AlertLine(a), a, to)
  BY DEF IsCopy, AlertLine, Facts
<1>2. IsCopy(TailEvent(a), a, to)
  BY DEF IsCopy, TailEvent, Facts
<1>3. IsCopy(slackPayload(a), a, "webhook")
  BY ColoursAgree DEF IsCopy, slackPayload, Facts
<1>4. IsCopy(teamsPayload(a), a, to)
  BY ColoursAgree DEF IsCopy, teamsPayload, Facts
<1>5. IsCopy(renderEmailPlain(a), a, to)
  BY DEF IsCopy, renderEmailPlain, Facts
<1>6. IsCopy(renderEmailHTML(a), a, to)
  BY ColoursAgree DEF IsCopy, renderEmailHTML, Facts
<1> QED
  BY <1>1, <1>2, <1>3, <1>4, <1>5, <1>6

\* Two copies of one alert agree.
LEMMA CopiesOfOne ==
  ASSUME NEW a, NEW c, NEW d, NEW to, NEW at2, IsCopy(c, a, to), IsCopy(d, a, at2)
  PROVE  /\ {"rule", "severity", "message"} \subseteq DOMAIN c
         /\ \A f \in (DOMAIN c \cap DOMAIN d) \ {"colour", "time"} : c[f] = d[f]
         /\ c.time = d.time \/ "webhook" \in {to, at2}
         /\ "colour" \in DOMAIN c /\ "colour" \in DOMAIN d =>
              Urgency(c.colour) = Urgency(d.colour)
BY DEF IsCopy
-----------------------------------------------------------------------------
(* The rules that fire *)

\* Of a finite set of numbers there is an n-th for each n up to their count.
LEMMA NthExists ==
  ASSUME NEW H, NEW N \in Nat, H \subseteq 1..N,
         NEW n \in 1..Cardinality(H)
  PROVE  Cardinality(H) \in Nat /\ Nth(H, n) \in H
<1> DEFINE c == Cardinality(H)
           Below(h) == H \cap 1..h
           rank == [h \in H |-> Cardinality(Below(h))]
<1>1. IsFiniteSet(1..N)
  BY FS_Interval
<1>2. IsFiniteSet(H) /\ c \in Nat
  BY <1>1, FS_Subset, FS_CardinalityType
<1>3. \A h \in H : /\ IsFiniteSet(Below(h))
                   /\ Cardinality(Below(h)) \in Nat
                   /\ Cardinality(Below(h)) <= c
  <2> TAKE h \in H
  <2>1. Below(h) \subseteq H
    OBVIOUS
  <2> HIDE DEF Below
  <2> QED
    BY <1>2, <2>1, FS_Subset, FS_CardinalityType
<1>4. \A h \in H : h \in Below(h)
  BY SMT
<1>5. \A h \in H : Cardinality(Below(h)) \in 1..c
  <2> TAKE h \in H
  <2> HIDE DEF Below
  <2>1. Below(h) # {}
    BY <1>4
  <2>2. Cardinality(Below(h)) # 0
    BY <1>3, <2>1, FS_EmptySet
  <2> HIDE DEF c
  <2> QED
    BY <1>2, <1>3, <2>2
<1>6. \A h, m \in H : Cardinality(Below(h)) = Cardinality(Below(m)) => h = m
  <2>1. \A h, m \in H : h < m => Cardinality(Below(h)) # Cardinality(Below(m))
    <3> TAKE h, m \in H
    <3> HAVE h < m
    <3>1. Below(h) \subseteq Below(m) /\ m \notin Below(h)
      OBVIOUS
    <3>2. m \in Below(m)
      BY <1>4
    <3> HIDE DEF Below
    <3> QED
      BY <1>3, <3>1, <3>2, FS_Subset
  <2>2. \A h, m \in H : h < m \/ m < h \/ h = m
    OBVIOUS
  <2> HIDE DEF Below
  <2> QED
    BY <2>1, <2>2
<1>7. rank \in Injection(H, 1..c)
  <2> HIDE DEF Below, c
  <2>1. rank \in [H -> 1..c]
    BY <1>5
  <2> QED
    BY <1>6, <2>1 DEF Injection, IsInjective
<1>8. Cardinality(1..c) = c /\ IsFiniteSet(1..c)
  BY <1>2, FS_Interval
<1>9. rank \in Surjection(H, 1..c)
  <2> HIDE DEF rank, c
  <2> QED
    BY <1>7, <1>8, FS_Injection DEF c
<1>10. \E h \in H : Cardinality(Below(h)) = n
  <2> HIDE DEF Below, c
  <2>1. n \in 1..c
    BY DEF c
  <2> QED
    BY <1>9, <2>1 DEF Surjection
<1> QED
  BY <1>2, <1>10 DEF Nth
-----------------------------------------------------------------------------
(* The invariant *)

\* The alerts of a line are a sequence, with a list of actions each.
AlertsOK ==
  /\ Len(alerts) \in Nat /\ DOMAIN alerts = 1..Len(alerts)
  /\ \A n \in 1..Len(alerts) : alerts[n].Actions \in Seq(STRING)

\* Before the line is matched there is nothing to deliver.
Waiting ==
  at # "matched" =>
    /\ alerts = <<>> /\ i = 1 /\ j = 0 /\ got = {} /\ logged = {}
    /\ script = <<>> /\ rcpts = 0

\* The number of recipients a mail has.
Invited == Len(smtp.To)

\* Where the calls are that name a recipient, and where the message is closed,
\* by the number of calls after them.
Envelope(s) ==
  \A n \in 1..Len(s) :
    /\ s[n] = "rcpt" <=> Len(s) - n \in 4..Invited + 3
    /\ s[n] = "close" => Len(s) - n = 1

\* The recipients that the server knows when this many calls are left.
Named(calls) ==
  IF calls > Invited + 4 THEN 0 ELSE IF calls > 4 THEN Invited + 4 - calls ELSE Invited

\* Who has got what the output in hand sends.
Has(to) == \E g \in got : g.alert = i /\ g.output = j /\ g.to = to

\* A mail in progress is that of the action in hand; its recipients are named
\* one by one, and they have it when all that is left is to quit.
Mailing ==
  /\ script = <<>> => rcpts = 0
  /\ script # <<>> =>
    /\ i <= Len(alerts) /\ j \in 1..Len(Actions) /\ Actions[j] = "email"
    /\ Envelope(script)
    /\ rcpts = Named(Len(script))
    /\ Len(script) = 1 => \A to \in Recipients : Has(to)

\* What arrived are copies.
Copied == \A g \in got : IsCopy(g.copy, alerts[g.alert], g.to)

Served == TypeOK /\ AlertsOK /\ Waiting /\ Mailing /\ Copied
-----------------------------------------------------------------------------
\* A function on 1..n is a sequence of length n.
LEMMA FunctionLen ==
  ASSUME NEW f, NEW n \in Nat, DOMAIN f = 1..n
  PROVE  Len(f) = n
OBVIOUS

\* The rules that fire are finitely many, and each is one of the rules.
LEMMA MatchFires ==
  ASSUME Match, cfg \in {Load(ini) : ini \in Inis}
  PROVE  AlertsOK'
<1> DEFINE Rule == [Name : STRING, Pattern : STRING, Field : STRING, Level : STRING,
                    Severity : STRING, Action : Seq(STRING), Cooldown : Int]
           hits == {n \in compile(cfg.Rules) : matches(cfg.Rules[n], entry)}
           c == Cardinality(hits)
           r(n) == cfg.Rules[Nth(hits, n)]
<1>1. cfg.Rules \in Seq(Rule)
  BY AlertingAssumption
<1>2. Len(cfg.Rules) \in Nat /\ DOMAIN cfg.Rules = 1..Len(cfg.Rules)
  BY <1>1, LenProperties
<1>3. hits \subseteq 1..Len(cfg.Rules)
  BY <1>2 DEF compile
<1>4. alerts' = [n \in 1..c |->
        [RuleName |-> r(n).Name, Severity |-> r(n).Severity, Entry |-> entry,
         Actions |-> r(n).Action]]
  BY DEF Match
<1> HIDE DEF hits
<1>5. c \in Nat
  <2>1. IsFiniteSet(1..Len(cfg.Rules))
    BY <1>2, FS_Interval
  <2>2. IsFiniteSet(hits)
    BY <1>3, <2>1, FS_Subset
  <2> QED
    BY <2>2, FS_CardinalityType
<1>6. \A n \in 1..c : r(n) \in Rule
  <2> TAKE n \in 1..c
  <2>1. Nth(hits, n) \in hits
    BY <1>2, <1>3, NthExists
  <2> QED
    BY <1>1, <1>2, <1>3, <2>1, ElementOfSeq
<1>7. \A n \in 1..c : r(n).Action \in Seq(STRING)
  BY <1>6
<1> HIDE DEF c, r
<1>8. DOMAIN alerts' = 1..c /\ Len(alerts') = c
  BY <1>4, <1>5, FunctionLen
<1>9. \A n \in 1..c : alerts'[n].Actions = r(n).Action
  BY <1>4
<1> QED
  BY <1>5, <1>7, <1>8, <1>9 DEF AlertsOK
-----------------------------------------------------------------------------
(* The envelope of a mail *)

\* Other calls in front do not change where the recipients are named.
LEMMA Prefixed ==
  ASSUME NEW S, NEW p \in Seq(S), NEW t \in Seq(S), Invited \in Nat,
         \A n \in 1..Len(p) : p[n] \notin {"rcpt", "close"},
         Envelope(t), Len(t) >= Invited + 4
  PROVE  /\ p \o t \in Seq(S) /\ Envelope(p \o t)
         /\ Len(p \o t) = Len(p) + Len(t) /\ Len(p \o t) >= Invited + 4
<1>1. Len(p) \in Nat /\ Len(t) \in Nat
  BY LenProperties
<1>2. /\ p \o t \in Seq(S) /\ Len(p \o t) = Len(p) + Len(t)
      /\ \A n \in 1..Len(p) + Len(t) :
           (p \o t)[n] = IF n <= Len(p) THEN p[n] ELSE t[n - Len(p)]
  BY ConcatProperties
<1>3. ASSUME NEW n \in 1..Len(p) + Len(t)
      PROVE  /\ (p \o t)[n] = "rcpt" <=> Len(p) + Len(t) - n \in 4..Invited + 3
             /\ (p \o t)[n] = "close" => Len(p) + Len(t) - n = 1
  <2>1. CASE n <= Len(p)
    <3>1. (p \o t)[n] = p[n] /\ n \in 1..Len(p)
      BY <1>1, <1>2, <2>1
    <3>2. ~(Len(p) + Len(t) - n \in 4..Invited + 3)
      BY <1>1, <2>1
    <3> QED
      BY <3>1, <3>2
  <2>2. CASE ~(n <= Len(p))
    <3>1. (p \o t)[n] = t[n - Len(p)]
      BY <1>2, <2>2
    <3>2. n - Len(p) \in 1..Len(t) /\ Len(t) - (n - Len(p)) = Len(p) + Len(t) - n
      BY <1>1, <2>2
    <3> QED
      BY <3>1, <3>2 DEF Envelope
  <2> QED
    BY <2>1, <2>2
<1>4. Envelope(p \o t)
  BY <1>2, <1>3 DEF Envelope
<1> QED
  BY <1>1, <1>2, <1>4

\* What is left of a mail after its first call.
LEMMA TailEnvelope ==
  ASSUME NEW S, NEW s \in Seq(S), s # <<>>, Envelope(s)
  PROVE  /\ Len(Tail(s)) = Len(s) - 1 /\ Len(s) \in Nat /\ Len(s) > 0
         /\ Envelope(Tail(s))
         /\ Head(s) = "rcpt" <=> Len(s) - 1 \in 4..Invited + 3
         /\ Head(s) = "close" => Len(s) = 2
<1>1. Len(s) \in Nat /\ Len(s) > 0 /\ Head(s) = s[1]
  BY EmptySeq, LenProperties
<1>2. /\ Len(Tail(s)) = Len(s) - 1
      /\ \A n \in 1..Len(s) - 1 : Tail(s)[n] = s[n + 1]
  BY HeadTailProperties
<1>3. \A n \in 1..Len(s) - 1 : n + 1 \in 1..Len(s) /\ Len(s) - (n + 1) = Len(s) - 1 - n
  BY <1>1
<1>4. Envelope(Tail(s))
  <2>1. ASSUME NEW n \in 1..Len(s) - 1
        PROVE  /\ Tail(s)[n] = "rcpt" <=> Len(s) - 1 - n \in 4..Invited + 3
               /\ Tail(s)[n] = "close" => Len(s) - 1 - n = 1
    BY <1>2, <1>3 DEF Envelope
  <2> QED
    BY <1>2, <2>1 DEF Envelope
<1>5. 1 \in 1..Len(s)
  BY <1>1
<1>6. /\ s[1] = "rcpt" <=> Len(s) - 1 \in 4..Invited + 3
      /\ s[1] = "close" => Len(s) - 1 = 1
  BY <1>5 DEF Envelope
<1> QED
  BY <1>1, <1>2, <1>4, <1>6

\* Short sequences of calls without a recipient in them.
LEMMA ShortCalls ==
  ASSUME NEW S, NEW a \in S \ {"rcpt", "close"}, NEW b \in S \ {"rcpt", "close"}
  PROVE  /\ <<>> \in Seq(S) /\ Len(<<>>) = 0
         /\ <<a>> \in Seq(S) /\ Len(<<a>>) = 1
         /\ \A n \in 1..1 : <<a>>[n] \notin {"rcpt", "close"}
         /\ <<a, b>> \in Seq(S) /\ Len(<<a, b>>) = 2
         /\ \A n \in 1..2 : <<a, b>>[n] \notin {"rcpt", "close"}
OBVIOUS

\* What sendEmail begins with names all recipients, one by one.
LEMMA ScriptEnvelope ==
  ASSUME smtp.To \in Seq(STRING)
  PROVE  Invited \in Nat /\ Envelope(Script) /\ Len(Script) \in Nat /\ Len(Script) > Invited + 4
<1> DEFINE S == {"dial", "tlsdial", "starttls", "greet", "auth", "mail", "rcpt",
                 "data", "write", "close", "quit"}
           auth == IF smtp.User = "" THEN <<>> ELSE <<"auth">>
           rcpt == [n \in DOMAIN smtp.To |-> "rcpt"]
           end == <<"data", "write", "close", "quit">>
           open2 == IF smtp.Port = 465 THEN <<"tlsdial", "greet">> ELSE <<"dial", "starttls">>
<1>1. Invited \in Nat /\ DOMAIN smtp.To = 1..Invited
  BY LenProperties DEF Invited
<1>2. Script = open2 \o (auth \o (<<"mail">> \o (rcpt \o end)))
  BY DEF Script, sendTLS, sendSTARTTLS, deliverSMTP
<1>3. rcpt \in Seq(S) /\ Len(rcpt) = Invited /\ \A n \in 1..Invited : rcpt[n] = "rcpt"
  <2>1. rcpt \in [1..Invited -> S]
    BY <1>1
  <2>2. \A n \in 1..Invited : rcpt[n] = "rcpt"
    BY <1>1
  <2>3. DOMAIN rcpt = 1..Invited
    BY <1>1
  <2> HIDE DEF rcpt, S
  <2>4. Len(rcpt) = Invited
    BY <1>1, <2>3, FunctionLen
  <2> QED
    BY <1>1, <2>1, <2>2, <2>4, SeqDef
<1>4. /\ end \in Seq(S) /\ Len(end) = 4
      /\ \A n \in 1..4 : end[n] # "rcpt" /\ (end[n] = "close" => n = 3)
  BY SMT
<1>5. /\ auth \in Seq(S) /\ Len(auth) \in Nat
      /\ \A n \in 1..Len(auth) : auth[n] \notin {"rcpt", "close"}
  <2>1. <<"auth">> \in Seq(S) /\ Len(<<"auth">>) = 1 /\ \A n \in 1..1 : <<"auth">>[n] \notin {"rcpt", "close"}
    OBVIOUS
  <2>2. <<>> \in Seq(S) /\ Len(<<>>) = 0
    OBVIOUS
  <2>3. auth = <<>> \/ auth = <<"auth">>
    OBVIOUS
  <2>4. \A n \in 1..0 : FALSE
    OBVIOUS
  <2> HIDE DEF S, auth
  <2>5. CASE auth = <<>>
    BY <2>2, <2>4, <2>5, Zenon
  <2>6. CASE auth = <<"auth">>
    BY <2>1, <2>6, Zenon
  <2> QED
    BY <2>3, <2>5, <2>6
<1>6. /\ <<"mail">> \in Seq(S) /\ Len(<<"mail">>) = 1
       /\ \A n \in 1..1 : <<"mail">>[n] \notin {"rcpt", "close"}
  OBVIOUS
<1>7. /\ open2 \in Seq(S) /\ Len(open2) = 2
       /\ \A n \in 1..2 : open2[n] \notin {"rcpt", "close"}
  <2>1. \A a, b \in S \ {"rcpt", "close"} :
          /\ <<a, b>> \in Seq(S) /\ Len(<<a, b>>) = 2
          /\ \A n \in 1..2 : <<a, b>>[n] \notin {"rcpt", "close"}
    BY ShortCalls
  <2>2. \E a, b \in S \ {"rcpt", "close"} : open2 = <<a, b>>
    <3>1. open2 = <<"tlsdial", "greet">> \/ open2 = <<"dial", "starttls">>
      OBVIOUS
    <3>2. {"tlsdial", "greet", "dial", "starttls"} \subseteq S \ {"rcpt", "close"}
      OBVIOUS
    <3> HIDE DEF S, open2
    <3> QED
      BY <3>1, <3>2
  <2> HIDE DEF S, open2
  <2> QED
    BY <2>1, <2>2, Zenon
<1> HIDE DEF S, auth, rcpt, end, open2
<1> DEFINE t1 == rcpt \o end
           m == <<"mail">>
           t2 == m \o t1
           t3 == auth \o t2
<1>8. /\ t1 \in Seq(S) /\ Len(t1) = Invited + 4
       /\ \A n \in 1..Invited + 4 :
            t1[n] = IF n <= Invited THEN rcpt[n] ELSE end[n - Invited]
  <2>1. /\ rcpt \o end \in Seq(S) /\ Len(rcpt \o end) = Len(rcpt) + Len(end)
        /\ \A n \in 1..Len(rcpt) + Len(end) :
             (rcpt \o end)[n] = IF n <= Len(rcpt) THEN rcpt[n] ELSE end[n - Len(rcpt)]
    BY <1>3, <1>4, ConcatProperties
  <2> QED
    BY <1>3, <1>4, <2>1
<1> HIDE DEF t1
<1>9. Envelope(t1)
  <2>1. ASSUME NEW n \in 1..Invited + 4
        PROVE  /\ t1[n] = "rcpt" <=> Invited + 4 - n \in 4..Invited + 3
               /\ t1[n] = "close" => Invited + 4 - n = 1
    <3>1. CASE n <= Invited
      <4>1. n \in 1..Invited /\ Invited + 4 - n \in 4..Invited + 3
        BY <1>1, <3>1
      <4>2. t1[n] = "rcpt"
        BY <1>3, <1>8, <3>1, <4>1
      <4> QED
        BY <4>1, <4>2
    <3>2. CASE ~(n <= Invited)
      <4>1. n - Invited \in 1..4 /\ (n - Invited = 3 => Invited + 4 - n = 1)
            /\ ~(Invited + 4 - n \in 4..Invited + 3)
        BY <1>1, <3>2
      <4>2. t1[n] = end[n - Invited]
        BY <1>8, <3>2
      <4> QED
        BY <1>4, <4>1, <4>2
    <3> QED
      BY <3>1, <3>2
  <2>2. \A n \in 1..Invited + 4 :
          /\ t1[n] = "rcpt" <=> Invited + 4 - n \in 4..Invited + 3
          /\ t1[n] = "close" => Invited + 4 - n = 1
    BY <2>1
  <2>3. Len(t1) = Invited + 4
    BY <1>8
  <2> QED
    BY <1>1, <2>2, <2>3 DEF Envelope
<1>10. Len(t1) >= Invited + 4
  BY <1>1, <1>8
<1>11. t2 \in Seq(S) /\ Envelope(t2) /\ Len(t2) = 1 + Len(t1) /\ Len(t2) >= Invited + 4
  <2> HIDE DEF m
  <2> QED
    BY <1>1, <1>9, <1>10, <1>6, <1>8, Prefixed DEF m
<1> HIDE DEF t2
<1>12. t3 \in Seq(S) /\ Envelope(t3) /\ Len(t3) = Len(auth) + Len(t2) /\ Len(t3) >= Invited + 4
  BY <1>1, <1>5, <1>11, Prefixed
<1> HIDE DEF t3
<1>13. Envelope(open2 \o t3) /\ Len(open2 \o t3) = 2 + Len(t3)
  BY <1>1, <1>12, <1>7, Prefixed
<1>14. Script = open2 \o t3
  BY <1>2 DEF t1, t2, t3
<1>15. Len(t3) \in Nat
  BY <1>12, LenProperties
<1> QED
  BY <1>1, <1>12, <1>13, <1>14, <1>15
-----------------------------------------------------------------------------
(* The invariant is kept *)

\* What arrives is a copy of the alert in hand, from the output in hand.
Grown ==
  /\ got \subseteq got'
  /\ \A g \in got' \ got :
       g.alert = i /\ g.output = j /\ IsCopy(g.copy, alerts[i], g.to)

\* Arrive does no more than that.
LEMMA ArriveGrows ==
  ASSUME NEW to, NEW copies, Arrive(to, copies),
         \A t \in to, c \in copies : IsCopy(c, alerts[i], t)
  PROVE  Grown
<1>1. got' = got \cup {[alert |-> i, output |-> j, to |-> t, copy |-> c] : t \in to, c \in copies}
  BY DEF Arrive
<1>2. ASSUME NEW g \in got', g \notin got
      PROVE  g.alert = i /\ g.output = j /\ IsCopy(g.copy, alerts[i], g.to)
  <2>1. PICK t \in to, c \in copies : g = [alert |-> i, output |-> j, to |-> t, copy |-> c]
    BY <1>1, <1>2
  <2> QED
    BY <2>1
<1> QED
  BY <1>1, <1>2 DEF Grown

\* Nothing arrives.
LEMMA NothingGrows ==
  ASSUME UNCHANGED got
  PROVE  Grown
BY DEF Grown

\* Who arrives has it.
LEMMA ArriveHas ==
  ASSUME NEW to, NEW copies, Arrive(to, copies), copies # {}, i' = i, j' = j
  PROVE  \A t \in to : Has(t)'
<1> TAKE t \in to
<1>1. PICK c : c \in copies
  OBVIOUS
<1> DEFINE g == [alert |-> i, output |-> j, to |-> t, copy |-> c]
<1>2. g \in got'
  BY <1>1 DEF Arrive
<1>3. g.alert = i' /\ g.output = j' /\ g.to = t
  OBVIOUS
<1> HIDE DEF g
<1> QED
  BY <1>2, <1>3 DEF Has

\* What has arrived stays well-typed, and a copy of its alert.
LEMMA GrownIsTyped ==
  ASSUME TypeOK, AlertsOK, Copied, Grown, i \in 1..Len(alerts), j \in 0..Len(Actions),
         UNCHANGED alerts, i' = i \/ i' = i + 1
  PROVE  /\ \A g \in got' : g.alert \in 1..i' /\ g.output <= Len(alerts'[g.alert].Actions)
         /\ Copied'
<1>1. i \in 1..i' /\ 1..i \subseteq 1..i' /\ i \in Nat
  BY DEF AlertsOK
<1>2. Len(Actions) \in Nat /\ j \in Nat /\ j <= Len(Actions)
  BY LenProperties DEF AlertsOK, Actions
<1>3. ASSUME NEW g \in got'
      PROVE  /\ g.alert \in 1..i' /\ g.output <= Len(alerts'[g.alert].Actions)
             /\ IsCopy(g.copy, alerts'[g.alert], g.to)
  <2>1. CASE g \in got
    <3>1. /\ g.alert \in 1..i /\ g.output <= Len(alerts[g.alert].Actions)
          /\ IsCopy(g.copy, alerts[g.alert], g.to)
      BY <2>1 DEF TypeOK, Copied
    <3> QED
      BY <1>1, <3>1
  <2>2. CASE g \notin got
    <3>1. g.alert = i /\ g.output = j /\ IsCopy(g.copy, alerts[i], g.to)
      BY <1>3, <2>2 DEF Grown
    <3> QED
      BY <1>1, <1>2, <3>1 DEF Actions
  <2> QED
    BY <2>1, <2>2
<1> QED
  BY <1>3 DEF Copied

\* An output returns: it is the next one's turn.
LEMMA Returned ==
  ASSUME TypeOK, AlertsOK, i \in 1..Len(alerts), j \in 0..Len(Actions),
         NEW says, Return(says)
  PROVE  /\ j' \in Nat /\ i' = i /\ UNCHANGED <<cfg, alerts>>
         /\ \A l \in logged' : l[1] \in 1..i' /\ l[2] <= Len(alerts'[l[1]].Actions)
<1>1. Len(Actions) \in Nat /\ j \in Nat /\ j <= Len(Actions) /\ i \in 1..i
  BY LenProperties DEF AlertsOK, Actions
<1>2. i' = i /\ alerts' = alerts /\ cfg' = cfg /\ j' = j + 1
      /\ logged' \subseteq logged \cup {<<i, j>>}
  BY DEF Return
<1>3. ASSUME NEW l \in logged'
      PROVE  l[1] \in 1..i' /\ l[2] <= Len(alerts'[l[1]].Actions)
  <2>1. CASE l \in logged
    BY <1>2, <2>1 DEF TypeOK
  <2>2. CASE l = <<i, j>>
    BY <1>1, <1>2, <2>2 DEF Actions
  <2> QED
    BY <1>2, <1>3, <2>1, <2>2
<1> QED
  BY <1>1, <1>2, <1>3

\* The types of what the parser has are not touched by the outputs.
LEMMA EntryTyped ==
  ASSUME TypeOK, UNCHANGED parserVars
  PROVE  /\ line' \in Lines /\ at' \in {"line", "keys", "parsed", "matched"}
         /\ left' \subseteq DOMAIN line'.parts
         /\ Complete' => entry'.Level \in DOMAIN levelOrder /\ entry'.Raw = line'.text
<1>1. line' = line /\ at' = at /\ left' = left /\ entry' = entry
  BY DEF parserVars
<1> QED
  BY <1>1 DEF TypeOK, Complete

\* There is nothing to deliver at first.
LEMMA ServedInit ==
  ASSUME Init
  PROVE  Served
<1>1. /\ line \in Lines /\ at = "line" /\ left = {} /\ cfg \in {Load(ini) : ini \in Inis}
      /\ alerts = <<>> /\ i = 1 /\ j = 0 /\ script = <<>> /\ rcpts = 0
      /\ open = FALSE /\ secure = FALSE /\ got = {} /\ logged = {}
  BY DEF Init, ParserInit, OutputsInit
<1>2. Len(<<>>) = 0 /\ DOMAIN <<>> = 1..0
  OBVIOUS
<1>3. Invited \in Nat
  <2>1. smtp.To \in Seq(STRING)
    BY <1>1, SessionInit DEF Session
  <2> QED
    BY <2>1, LenProperties DEF Invited
<1>4. TypeOK
  <2>1. i \in 1..Len(alerts) + 1 /\ j \in Nat /\ rcpts \in 0..Len(smtp.To)
    BY <1>1, <1>2, <1>3 DEF Invited
  <2>2. ~Complete
    BY <1>1 DEF Complete
  <2>3. open \in BOOLEAN /\ secure \in BOOLEAN
    BY <1>1
  <2> QED
    BY <1>1, <2>1, <2>2, <2>3 DEF TypeOK
<1>5. AlertsOK
  BY <1>1, <1>2 DEF AlertsOK
<1> QED
  BY <1>1, <1>4, <1>5 DEF Served, Waiting, Mailing, Copied

\* The parser has nothing to do with the outputs.
LEMMA ServedParser ==
  ASSUME Served, Parsed', ParserNext, UNCHANGED outputVars
  PROVE  Served'
<1>1. at # "matched" /\ at' \in {"line", "keys", "parsed"} /\ line' = line
  BY DEF ParserNext, Parse, TakeKey, EndKeys
<1>2. left' \subseteq DOMAIN line'.parts
  <2>1. left \subseteq DOMAIN line.parts
    BY DEF Served, TypeOK
  <2> QED
    BY <1>1, <2>1 DEF ParserNext, Parse, TakeKey, EndKeys
<1>3. /\ alerts' = alerts /\ i' = i /\ j' = j /\ got' = got /\ logged' = logged
      /\ script' = script /\ rcpts' = rcpts /\ open' = open /\ secure' = secure /\ cfg' = cfg
  BY DEF outputVars, mail
<1>4. TypeOK'
  <2>1. Complete' => entry'.Level \in DOMAIN levelOrder /\ entry'.Raw = line'.text
    BY DEF Parsed, Levelled
  <2> QED
    BY <1>1, <1>2, <1>3, <2>1 DEF Served, TypeOK, smtp
<1>5. AlertsOK'
  BY <1>3 DEF Served, AlertsOK
<1>6. script = <<>> /\ got = {} /\ alerts = <<>> /\ i = 1 /\ j = 0 /\ logged = {} /\ rcpts = 0
  BY <1>1 DEF Served, Waiting
<1>7. Waiting' /\ Mailing' /\ Copied'
  BY <1>3, <1>6 DEF Waiting, Mailing, Copied
<1> QED
  BY <1>4, <1>5, <1>7 DEF Served

\* Nothing is delivered yet when the rules have fired.
LEMMA ServedMatch ==
  ASSUME Served, Match
  PROVE  Served'
<1>1. /\ at = "parsed" /\ at' = "matched" /\ line' = line /\ left' = left /\ entry' = entry
      /\ cfg' = cfg /\ i' = i /\ j' = j /\ got' = got /\ logged' = logged
      /\ script' = script /\ rcpts' = rcpts /\ open' = open /\ secure' = secure
  BY DEF Match, mail
<1>2. script = <<>> /\ got = {} /\ i = 1 /\ j = 0 /\ logged = {} /\ rcpts = 0
  BY <1>1 DEF Served, Waiting
<1>3. AlertsOK'
  BY MatchFires DEF Served, TypeOK
<1>4. i' \in 1..Len(alerts') + 1
  BY <1>1, <1>2, <1>3 DEF AlertsOK
<1>5. TypeOK'
  BY <1>1, <1>2, <1>4 DEF Served, TypeOK, Complete, smtp
<1> QED
  BY <1>1, <1>2, <1>3, <1>5 DEF Served, Waiting, Mailing, Copied

\* Nothing moves in the outputs before the line is matched.
LEMMA MatchedFirst ==
  ASSUME Served, OutputsNext
  PROVE  at = "matched" /\ i \in 1..Len(alerts) /\ i \in Nat /\ Len(alerts) \in Nat
         /\ Len(Actions) \in Nat
<1>1. Len(alerts) \in Nat /\ i \in 1..Len(alerts) + 1
  BY DEF Served, TypeOK, AlertsOK
<1>2. script # <<>> => i <= Len(alerts)
  BY DEF Served, Mailing
<1>3. Len(<<>>) = 0
  OBVIOUS
<1>4. i <= Len(alerts)
  <2>1. CASE Publish \/ NextAlert
    BY <2>1 DEF Publish, NextAlert
  <2>2. CASE printAlert \/ writeFile \/ sendWebhook \/ sendTeams \/ UnknownAction \/ sendEmail
    BY <2>2 DEF printAlert, writeFile, sendWebhook, sendTeams, UnknownAction, sendEmail, Serving
  <2>3. CASE Succeeds \/ Accepted \/ Quit \/ Fails
    <3>1. script # <<>>
      <4>1. Len(script) > 2 \/ Len(script) = 2 \/ Len(script) = 1 \/ script # <<>>
        BY <2>3 DEF Succeeds, Accepted, Quit, Fails
      <4>2. script = <<>> => Len(script) = 0
        BY <1>3, Zenon
      <4> QED
        BY <4>1, <4>2
    <3> QED
      BY <1>2, <3>1
  <2> QED
    BY <2>1, <2>2, <2>3 DEF OutputsNext
<1>5. at = "matched"
  <2>1. at # "matched" => alerts = <<>> /\ i = 1
    BY DEF Served, Waiting
  <2> QED
    BY <1>3, <1>4, <2>1
<1>6. i \in 1..Len(alerts)
  BY <1>1, <1>4
<1>7. Len(Actions) \in Nat
  BY <1>6, LenProperties DEF Served, AlertsOK, Actions
<1> QED
  BY <1>1, <1>5, <1>6, <1>7

\* An output that takes one step.
LEMMA OneStep ==
  ASSUME Served, UNCHANGED parserVars, at = "matched", script = <<>>,
         i \in 1..Len(alerts), j \in 0..Len(Actions), Grown,
         NEW says, Return(says), UNCHANGED mail
  PROVE  Served'
<1>1. TypeOK /\ AlertsOK /\ Copied
  BY DEF Served
<1>2. /\ j' \in Nat /\ i' = i /\ cfg' = cfg /\ alerts' = alerts
      /\ \A l \in logged' : l[1] \in 1..i' /\ l[2] <= Len(alerts'[l[1]].Actions)
  BY <1>1, Returned
<1>3. /\ \A g \in got' : g.alert \in 1..i' /\ g.output <= Len(alerts'[g.alert].Actions)
      /\ Copied'
  BY <1>1, <1>2, GrownIsTyped
<1>4. script' = <<>> /\ rcpts' = rcpts /\ open' = open /\ secure' = secure
  BY DEF mail
<1>5. TypeOK'
  BY <1>1, <1>2, <1>3, <1>4, EntryTyped DEF TypeOK, smtp
<1>6. AlertsOK'
  BY <1>1, <1>2 DEF AlertsOK
<1>7. Waiting' /\ Mailing'
  BY <1>4 DEF Served, Waiting, Mailing, parserVars
<1> QED
  BY <1>3, <1>5, <1>6, <1>7 DEF Served

\* No mail can be sent.
NoMail == smtp.Host = "" \/ smtp.To = <<>>

\* What a step of such an output does: it arrives, or not, and returns.
LEMMA AtOnceReturns ==
  ASSUME \/ Publish \/ printAlert \/ writeFile \/ sendWebhook \/ sendTeams \/ UnknownAction
         \/ sendEmail /\ NoMail
  PROVE  Grown /\ (\E says \in BOOLEAN : Return(says)) /\ UNCHANGED mail
<1> DEFINE a == alerts[i]
<1>1. \A to : /\ IsCopy(AlertLine(a), a, to) /\ IsCopy(TailEvent(a), a, to)
              /\ IsCopy(slackPayload(a), a, "webhook") /\ IsCopy(teamsPayload(a), a, to)
  BY CopiesMade
<1> HIDE DEF a
<1>2. ASSUME NEW to, NEW copy, Arrive(to, {copy}), \A t \in to : IsCopy(copy, a, t)
      PROVE  Grown
  BY <1>2, ArriveGrows DEF a
<1>3. TRUE \in BOOLEAN /\ FALSE \in BOOLEAN
  OBVIOUS
<1>4. CASE Publish
  BY <1>1, <1>2, <1>3, <1>4 DEF Publish, a
<1>5. CASE printAlert
  BY <1>1, <1>2, <1>3, <1>5 DEF printAlert, a
<1>6. CASE writeFile
  BY <1>1, <1>2, <1>3, <1>6, NothingGrows DEF writeFile, a
<1>7. CASE sendWebhook
  <2>1. Arrive({"webhook"}, {slackPayload(a)}) => Grown
    <3>1. \A t \in {"webhook"} : IsCopy(slackPayload(a), a, t)
      BY <1>1
    <3> QED
      BY <1>2, <3>1
  <2> QED
    BY <1>3, <1>7, <2>1, NothingGrows DEF sendWebhook, Post, a
<1>8. CASE sendTeams
  BY <1>1, <1>2, <1>3, <1>8, NothingGrows DEF sendTeams, Post, a
<1>9. CASE UnknownAction
  BY <1>3, <1>9, NothingGrows DEF UnknownAction
<1>10. CASE sendEmail /\ NoMail
  BY <1>3, <1>10, NothingGrows DEF sendEmail, NoMail
<1> QED
  BY <1>4, <1>5, <1>6, <1>7, <1>8, <1>9, <1>10

\* The outputs other than mail, and a mail that cannot be begun.
LEMMA ServedAtOnce ==
  ASSUME Served, UNCHANGED parserVars,
         \/ Publish \/ printAlert \/ writeFile \/ sendWebhook \/ sendTeams \/ UnknownAction
         \/ sendEmail /\ NoMail
  PROVE  Served'
<1>1. /\ at = "matched" /\ i \in 1..Len(alerts) /\ Len(Actions) \in Nat
  BY MatchedFirst DEF OutputsNext
<1>2. Grown /\ (\E says \in BOOLEAN : Return(says)) /\ UNCHANGED mail
  BY AtOnceReturns
<1>3. j \in 0..Len(Actions) /\ script = <<>>
  <2>1. CASE Publish
    <3>1. j = 0
      BY <2>1 DEF Publish
    <3>2. script = <<>>
      BY <1>1, <3>1 DEF Served, Mailing
    <3> QED
      BY <1>1, <3>1, <3>2
  <2>2. CASE ~Publish
    <3>1. Serving
      BY <2>2 DEF printAlert, writeFile, sendWebhook, sendTeams, UnknownAction, sendEmail
    <3> QED
      BY <1>1, <3>1 DEF Serving
  <2> QED
    BY <2>1, <2>2
<1> QED
  BY <1>1, <1>2, <1>3, OneStep

\* The next alert.
LEMMA ServedNext ==
  ASSUME Served, UNCHANGED parserVars, NextAlert
  PROVE  Served'
<1>1. at = "matched" /\ i \in 1..Len(alerts) /\ i \in Nat /\ Len(alerts) \in Nat /\ Len(Actions) \in Nat
  BY MatchedFirst DEF OutputsNext
<1>2. /\ j > Len(Actions) /\ i' = i + 1 /\ j' = 0
      /\ cfg' = cfg /\ alerts' = alerts /\ got' = got /\ logged' = logged
      /\ script' = script /\ rcpts' = rcpts /\ open' = open /\ secure' = secure
  BY DEF NextAlert, mail
<1>3. script = <<>>
  BY <1>1, <1>2 DEF Served, Mailing
<1>4. i' \in 1..Len(alerts') + 1 /\ j' \in Nat /\ 1..i \subseteq 1..i'
  BY <1>1, <1>2
<1>5. TypeOK'
  <2>1. TypeOK
    BY DEF Served
  <2>2. \A g \in got' : g.alert \in 1..i' /\ g.output <= Len(alerts'[g.alert].Actions)
    BY <1>2, <1>4, <2>1 DEF TypeOK
  <2>3. \A l \in logged' : l[1] \in 1..i' /\ l[2] <= Len(alerts'[l[1]].Actions)
    BY <1>2, <1>4, <2>1 DEF TypeOK
  <2> QED
    BY <1>2, <1>4, <2>1, <2>2, <2>3, EntryTyped DEF TypeOK, smtp
<1>6. AlertsOK' /\ Copied'
  BY <1>2 DEF Served, AlertsOK, Copied
<1>7. Waiting' /\ Mailing'
  BY <1>1, <1>2, <1>3 DEF Served, Waiting, Mailing, parserVars
<1> QED
  BY <1>5, <1>6, <1>7 DEF Served
-----------------------------------------------------------------------------
(* A mail *)

\* What is more than four is not one.
LEMMA NotOne ==
  ASSUME NEW m \in Nat, NEW n \in Nat, m > n + 4
  PROVE  m # 1
OBVIOUS

\* It is begun.
LEMMA ServedBegins ==
  ASSUME Session, Served, UNCHANGED parserVars, sendEmail,
         ~NoMail
  PROVE  Served'
<1>1. at = "matched" /\ i \in 1..Len(alerts) /\ i \in Nat /\ Len(alerts) \in Nat /\ Len(Actions) \in Nat
  BY MatchedFirst DEF OutputsNext
<1>2. /\ script = <<>> /\ j \in 1..Len(Actions) /\ Actions[j] = "email" /\ script' = Script
      /\ cfg' = cfg /\ alerts' = alerts /\ i' = i /\ j' = j /\ got' = got /\ logged' = logged
      /\ rcpts' = rcpts /\ open' = open /\ secure' = secure
  BY DEF sendEmail, NoMail, Serving, mail
<1>3. Invited \in Nat /\ Envelope(Script) /\ Len(Script) \in Nat /\ Len(Script) > Invited + 4
  BY ScriptEnvelope DEF Session
<1>4. rcpts = 0
  BY <1>2 DEF Served, Mailing
<1>5. TypeOK'
  BY <1>2, EntryTyped DEF Served, TypeOK, smtp
<1>6. AlertsOK' /\ Copied'
  BY <1>2 DEF Served, AlertsOK, Copied
<1>7. Waiting'
  BY <1>1 DEF Waiting, parserVars
<1>8. Mailing'
  <2>1. Invited' = Invited
    BY <1>2 DEF Invited, smtp
  <2>4. Envelope(script)'
    BY <1>2, <1>3, <2>1 DEF Envelope
  <2>2. Named(Len(script))' = 0 /\ Len(script') # 1
    <3>1. Len(script') = Len(Script)
      BY <1>2
    <3>2. Len(Script) > Invited + 4 /\ Invited \in Nat /\ Len(Script) \in Nat
      BY <1>3
    <3>3. Len(Script) # 1
      BY <3>2, NotOne, Zenon
    <3>4. Len(script') > Invited' + 4
      BY <2>1, <3>1, <3>2, Zenon
    <3>5. Named(Len(script))' = 0
      BY <3>4, Zenon DEF Named
    <3> QED
      BY <3>1, <3>3, <3>5, Zenon
  <2>3. script' # <<>>
    BY <1>2, <1>3, Nonempty
  <2> QED
    <3>1. i' <= Len(alerts') /\ Actions' = Actions /\ rcpts' = 0
      BY <1>1, <1>2, <1>4 DEF Actions
    <3> QED
      BY <1>2, <2>2, <2>3, <2>4, <3>1 DEF Mailing
<1> QED
  BY <1>5, <1>6, <1>7, <1>8 DEF Served

\* A step of a mail, other than its first: what can be said of all of them.
LEMMA MailGoesOn ==
  ASSUME Session, Served, Succeeds \/ Accepted \/ Quit \/ Fails
  PROVE  /\ at = "matched" /\ i \in 1..Len(alerts) /\ j \in 1..Len(Actions)
         /\ Len(Actions) \in Nat /\ Actions[j] = "email" /\ Invited \in Nat
         /\ script # <<>> /\ Len(script) \in Nat /\ Len(script) > 0
         /\ rcpts = Named(Len(script)) /\ Envelope(script)
         /\ Len(script) = 1 => \A to \in Recipients : Has(to)
         /\ Head(script) = "rcpt" <=> Len(script) - 1 \in 4..Invited + 3
         /\ Head(script) = "close" <=> Len(script) = 2
         /\ Len(Tail(script)) = Len(script) - 1 /\ Envelope(Tail(script))
<1>1. at = "matched" /\ i \in 1..Len(alerts) /\ Len(Actions) \in Nat
  BY MatchedFirst DEF OutputsNext
<1>2. script \in Seq(Dials \cup Talk) /\ (Len(script) > 1 => Closing(script))
  BY DEF Session, Orderly
<1>3. script # <<>>
  <2>1. CASE Fails
    BY <2>1 DEF Fails
  <2>2. CASE Succeeds \/ Accepted \/ Quit
    <3>2. Len(script) > 2 \/ Len(script) = 2 \/ Len(script) = 1
      BY <2>2 DEF Succeeds, Accepted, Quit
    <3>3. Len(script) \in Nat
      BY <1>2, LenProperties
    <3>1. Len(script) > 0
      BY <3>2, <3>3
    <3> QED
      BY <3>1, Nonempty
  <2> QED
    BY <2>1, <2>2
<1>4. /\ j \in 1..Len(Actions) /\ Actions[j] = "email"
      /\ rcpts = Named(Len(script)) /\ Envelope(script)
      /\ Len(script) = 1 => \A to \in Recipients : Has(to)
  BY <1>3 DEF Served, Mailing
<1>5. Invited \in Nat
  BY LenProperties DEF Session, Invited
<1>6. /\ Len(Tail(script)) = Len(script) - 1 /\ Len(script) \in Nat /\ Len(script) > 0
      /\ Envelope(Tail(script))
      /\ Head(script) = "rcpt" <=> Len(script) - 1 \in 4..Invited + 3
      /\ Head(script) = "close" => Len(script) = 2
  BY <1>2, <1>3, <1>4, TailEnvelope
<1>7. Len(script) = 2 => Head(script) = "close"
  BY <1>2, <1>3, HeadTailProperties DEF Closing
<1> QED
  BY <1>1, <1>3, <1>4, <1>5, <1>6, <1>7

\* The recipients are named one by one.
LEMMA NamedStep ==
  ASSUME Invited \in Nat, NEW calls \in Nat, calls > 0
  PROVE  /\ Named(calls) \in 0..Invited
         /\ Named(calls - 1) =
              IF calls - 1 \in 4..Invited + 3 THEN Named(calls) + 1 ELSE Named(calls)
         /\ calls = 2 => Named(calls) = Invited
BY DEF Named

\* The message is taken, for all recipients.
LEMMA TakenForAll ==
  ASSUME Session, rcpts = Invited, MailTaken
  PROVE  /\ Grown
         /\ \E copies : copies # {} /\ Arrive(Recipients, copies)
<1> DEFINE plain == renderEmailPlain(alerts[i])
           html == renderEmailHTML(alerts[i])
<1>1. smtp.To \in Seq(STRING) /\ DOMAIN smtp.To = 1..Invited
  BY LenProperties DEF Session, Invited
<1>2. Recipients = {smtp.To[n] : n \in 1..rcpts}
  BY <1>1 DEF Recipients
<1>3. Arrive(Recipients, {plain, html})
  BY <1>2 DEF MailTaken, buildMIME
<1>4. \A t : IsCopy(plain, alerts[i], t) /\ IsCopy(html, alerts[i], t)
  BY CopiesMade
<1> HIDE DEF plain, html
<1>5. \A t \in Recipients, c \in {plain, html} : IsCopy(c, alerts[i], t)
  BY <1>4
<1>6. {plain, html} # {}
  OBVIOUS
<1> QED
  BY <1>3, <1>5, <1>6, ArriveGrows

\* A call succeeds.
LEMMA ServedSucceeds ==
  ASSUME Session, Served, UNCHANGED parserVars, Succeeds
  PROVE  Served'
<1>1. /\ at = "matched" /\ i \in 1..Len(alerts) /\ j \in 1..Len(Actions)
      /\ Len(Actions) \in Nat /\ Actions[j] = "email" /\ Invited \in Nat
      /\ Len(script) \in Nat /\ Len(script) > 0 /\ rcpts = Named(Len(script))
      /\ Head(script) = "rcpt" <=> Len(script) - 1 \in 4..Invited + 3
      /\ Len(Tail(script)) = Len(script) - 1 /\ Envelope(Tail(script))
  BY MailGoesOn
<1>2. /\ Len(script) > 2 /\ script' = Tail(script) /\ open' = TRUE
      /\ secure' = (secure \/ Head(script) \in {"tlsdial", "starttls"})
      /\ rcpts' = IF Head(script) = "rcpt" THEN rcpts + 1 ELSE rcpts
      /\ cfg' = cfg /\ alerts' = alerts /\ i' = i /\ j' = j /\ got' = got /\ logged' = logged
  BY DEF Succeeds
<1>3. Invited' = Invited /\ Actions' = Actions
  BY <1>2 DEF Invited, smtp, Actions
<1>4. rcpts' = Named(Len(script) - 1) /\ rcpts' \in 0..Invited
  <2>1. Len(script) - 1 \in Nat /\ Len(script) - 1 > 0
    BY <1>1, <1>2
  <2> QED
    BY <1>1, <1>2, <2>1, NamedStep
<1>5. TypeOK'
  <2>1. TypeOK
    BY DEF Served
  <2>2. open' \in BOOLEAN /\ secure' \in BOOLEAN
    BY <1>2, <2>1 DEF TypeOK
  <2>3. rcpts' \in 0..Len(smtp'.To)
    BY <1>3, <1>4 DEF Invited
  <2> QED
    BY <1>2, <2>1, <2>2, <2>3, EntryTyped DEF TypeOK
<1>6. AlertsOK' /\ Copied'
  BY <1>2 DEF Served, AlertsOK, Copied
<1>7. Waiting'
  BY <1>1 DEF Waiting, parserVars
<1>8. Mailing'
  <2>1. Envelope(script)'
    BY <1>1, <1>2, <1>3 DEF Envelope
  <2>2. Len(script') = Len(script) - 1
    BY <1>1, <1>2
  <2>3. rcpts' = Named(Len(script))'
    BY <1>3, <1>4, <2>2 DEF Named
  <2>4. Len(script') # 1 /\ Len(script') > 0
    <3>1. Len(script) \in Nat /\ Len(script) > 2
      BY <1>1, <1>2
    <3> QED
      BY <2>2, <3>1
  <2>5. script' # <<>>
    BY <2>4, Nonempty
  <2> QED
    BY <1>1, <1>2, <1>3, <2>1, <2>3, <2>4, <2>5 DEF Mailing
<1> QED
  BY <1>5, <1>6, <1>7, <1>8 DEF Served

\* The message is accepted.
LEMMA ServedAccepted ==
  ASSUME Session, Served, UNCHANGED parserVars, Accepted
  PROVE  Served'
<1>1. /\ at = "matched" /\ i \in 1..Len(alerts) /\ j \in 1..Len(Actions)
      /\ Len(Actions) \in Nat /\ Actions[j] = "email" /\ Invited \in Nat
      /\ Len(script) \in Nat /\ Len(script) > 0 /\ rcpts = Named(Len(script))
      /\ Len(Tail(script)) = Len(script) - 1 /\ Envelope(Tail(script))
  BY MailGoesOn
<1>2. /\ Len(script) = 2 /\ script' = Tail(script) /\ MailTaken
      /\ rcpts' = rcpts /\ open' = open /\ secure' = secure
      /\ cfg' = cfg /\ alerts' = alerts /\ i' = i /\ j' = j /\ logged' = logged
  BY DEF Accepted
<1>3. Invited' = Invited /\ Actions' = Actions /\ Recipients' = Recipients
  BY <1>2 DEF Invited, smtp, Actions, Recipients
<1>4. rcpts = Invited
  BY <1>1, <1>2, NamedStep
<1>5. Grown /\ \E copies : copies # {} /\ Arrive(Recipients, copies)
  BY <1>2, <1>4, TakenForAll
<1>6. /\ \A g \in got' : g.alert \in 1..i' /\ g.output <= Len(alerts'[g.alert].Actions)
      /\ Copied'
  BY <1>1, <1>2, <1>5, GrownIsTyped DEF Served
<1>7. TypeOK'
  BY <1>2, <1>6, EntryTyped DEF Served, TypeOK, smtp
<1>8. AlertsOK'
  BY <1>2 DEF Served, AlertsOK
<1>9. Waiting'
  BY <1>1 DEF Waiting, parserVars
<1>10. Mailing'
  <2>1. Envelope(script)'
    BY <1>1, <1>2, <1>3 DEF Envelope
  <2>2. Len(script') = 1
    BY <1>1, <1>2
  <2>3. rcpts' = Named(Len(script))'
    <3>1. rcpts' = Invited /\ Invited \in Nat
      BY <1>1, <1>2, <1>4
    <3> QED
      BY <1>3, <2>2, <3>1 DEF Named
  <2>4. \A to \in Recipients' : Has(to)'
    BY <1>2, <1>3, <1>5, ArriveHas
  <2>5. script' # <<>>
    BY <2>2, Nonempty
  <2> QED
    BY <1>1, <1>2, <1>3, <2>1, <2>3, <2>4, <2>5 DEF Mailing
<1> QED
  BY <1>6, <1>7, <1>8, <1>9, <1>10 DEF Served

\* A mail ends, well or not.
LEMMA ServedEnds ==
  ASSUME Session, Served, UNCHANGED parserVars, Quit \/ Fails
  PROVE  Served'
<1>1. /\ at = "matched" /\ i \in 1..Len(alerts) /\ j \in 1..Len(Actions)
      /\ Len(Actions) \in Nat /\ Invited \in Nat
      /\ Len(script) \in Nat /\ Len(script) > 0 /\ rcpts = Named(Len(script))
      /\ Head(script) = "close" <=> Len(script) = 2
  BY MailGoesOn
<1>2. TypeOK /\ AlertsOK /\ Copied
  BY DEF Served
<1>3. PICK says \in BOOLEAN : Return(says)
  BY DEF Quit, Fails
<1>4. open' = FALSE /\ secure' = FALSE /\ rcpts' = 0 /\ script' = <<>>
  BY DEF Quit, Fails, HungUp
<1>5. Grown
  <2>1. CASE UNCHANGED got
    BY <2>1, NothingGrows
  <2>2. CASE MailTaken /\ Head(script) = "close"
    <3>1. rcpts = Invited
      BY <1>1, <2>2, NamedStep
    <3> QED
      BY <2>2, <3>1, TakenForAll
  <2> QED
    BY <2>1, <2>2 DEF Quit, Fails
<1>6. j \in 0..Len(Actions)
  BY <1>1
<1>7. /\ j' \in Nat /\ i' = i /\ cfg' = cfg /\ alerts' = alerts
      /\ \A l \in logged' : l[1] \in 1..i' /\ l[2] <= Len(alerts'[l[1]].Actions)
  BY <1>1, <1>2, <1>3, <1>6, Returned
<1>8. /\ \A g \in got' : g.alert \in 1..i' /\ g.output <= Len(alerts'[g.alert].Actions)
      /\ Copied'
  BY <1>1, <1>2, <1>5, <1>6, <1>7, GrownIsTyped
<1>9. TypeOK'
  <2>1. rcpts' \in 0..Len(smtp'.To)
    BY <1>1, <1>4, <1>7 DEF Invited, smtp
  <2>2. open' \in BOOLEAN /\ secure' \in BOOLEAN
    BY <1>4
  <2> QED
    BY <1>2, <1>7, <1>8, <2>1, <2>2, EntryTyped DEF TypeOK
<1>10. AlertsOK'
  BY <1>2, <1>7 DEF AlertsOK
<1>11. Waiting' /\ Mailing'
  BY <1>1, <1>4 DEF Waiting, Mailing, parserVars
<1> QED
  BY <1>8, <1>9, <1>10, <1>11 DEF Served

\* Every step keeps the invariant.
LEMMA ServedStep ==
  ASSUME Session, Parsed', Served, [Next]_vars
  PROVE  Served'
<1>1. CASE ParserNext /\ UNCHANGED outputVars
  BY <1>1, ServedParser
<1>2. CASE Match
  BY <1>2, ServedMatch
<1>3. CASE OutputsNext /\ UNCHANGED parserVars
  <2>1. CASE \/ Publish \/ printAlert \/ writeFile \/ sendWebhook \/ sendTeams \/ UnknownAction
             \/ sendEmail /\ NoMail
    BY <1>3, <2>1, ServedAtOnce
  <2>2. CASE sendEmail /\ ~NoMail
    BY <1>3, <2>2, ServedBegins
  <2>3. CASE Succeeds \/ Accepted \/ Quit \/ Fails
    BY <1>3, <2>3, ServedSucceeds, ServedAccepted, ServedEnds
  <2>4. CASE NextAlert
    BY <1>3, <2>4, ServedNext
  <2> QED
    BY <1>3, <2>1, <2>2, <2>3, <2>4 DEF OutputsNext
<1>4. CASE UNCHANGED vars
  <2>1. UNCHANGED parserVars /\ cfg' = cfg /\ alerts' = alerts /\ i' = i /\ j' = j /\ got' = got
        /\ logged' = logged /\ script' = script /\ rcpts' = rcpts /\ open' = open /\ secure' = secure
    BY <1>4 DEF vars, outputVars, mail
  <2>2. TypeOK'
    BY <2>1, EntryTyped DEF Served, TypeOK, smtp
  <2>3. AlertsOK' /\ Waiting' /\ Copied'
    BY <2>1 DEF Served, AlertsOK, Waiting, Copied, parserVars
  <2>4. Mailing'
    BY <2>1 DEF Served, Mailing, Envelope, Named, Invited, smtp, Recipients, Has, Actions
  <2> QED
    BY <2>2, <2>3, <2>4 DEF Served
<1> QED
  BY <1>1, <1>2, <1>3, <1>4 DEF Next, Quiet

\* The invariant holds always.
LEMMA AlwaysServed == Spec => []Served
<1>1. Init => Served
  BY ServedInit
<1>2. Session /\ Parsed' /\ Served /\ [Next]_vars => Served'
  BY ServedStep
<1>3. Spec => []Session /\ []Parsed
  BY AlwaysSession, AlwaysParsed, PTL
<1> QED
  BY <1>1, <1>2, <1>3, PTL DEF Spec

\* The state is well-typed; above all, no output and no alert is in hand that
\* there is not, and no more recipients are named than there are.
THEOREM TypeCorrect == Spec => []TypeOK
<1>1. Served => TypeOK
  BY DEF Served
<1> QED
  BY <1>1, AlwaysServed, PTL

\* Wherever an alert arrives it says the same: the formatters of all outputs
\* agree on what they show, and their colours on the severity.
THEOREM CopiesAlike == Spec => []CopiesAgree
<1>1. ASSUME Served
      PROVE  CopiesAgree
  <2>1. ASSUME NEW g \in got, NEW h \in got, g.alert = h.alert
        PROVE  /\ {"rule", "severity", "message"} \subseteq DOMAIN g.copy
               /\ \A f \in (DOMAIN g.copy \cap DOMAIN h.copy) \ {"colour", "time"} :
                    g.copy[f] = h.copy[f]
               /\ g.copy.time = h.copy.time \/ "webhook" \in {g.to, h.to}
               /\ "colour" \in DOMAIN g.copy /\ "colour" \in DOMAIN h.copy =>
                    Urgency(g.copy.colour) = Urgency(h.copy.colour)
    <3>1. IsCopy(g.copy, alerts[g.alert], g.to) /\ IsCopy(h.copy, alerts[g.alert], h.to)
      BY <1>1, <2>1 DEF Served, Copied
    <3> QED
      BY <3>1, CopiesOfOne
  <2> QED
    BY <2>1 DEF CopiesAgree
<1> QED
  BY <1>1, AlwaysServed, PTL
-----------------------------------------------------------------------------
(* The dispatcher keeps its promise *)

\* What the promise sees of the alerts, and of what arrived.
Asked == [n \in DOMAIN alerts |-> alerts[n].Actions]
Arrived == {<<g.alert, g.output, g.to>> : g \in got}

\* The alerts that it sees, and the output it is at.
LEMMA AskedActions ==
  ASSUME AlertsOK
  PROVE  /\ Len(Asked) = Len(alerts)
         /\ i \in 1..Len(alerts) => Asked[i] = Actions
<1>1. DOMAIN Asked = 1..Len(alerts) /\ Len(alerts) \in Nat
  BY DEF Asked, AlertsOK
<1>2. Len(Asked) = Len(alerts)
  BY <1>1, FunctionLen
<1>3. i \in 1..Len(alerts) => Asked[i] = Actions
  BY DEF Asked, Actions, AlertsOK
<1> QED
  BY <1>2, <1>3

\* Whoever the copies go to has arrived.
LEMMA ArriveMaps ==
  ASSUME NEW to, NEW copies, copies # {}, Arrive(to, copies)
  PROVE  Arrived' = Arrived \cup {<<i, j, t>> : t \in to}
<1>1. got' = got \cup {[alert |-> i, output |-> j, to |-> t, copy |-> c] : t \in to, c \in copies}
  BY DEF Arrive
<1>2. ASSUME NEW x \in Arrived'
      PROVE  x \in Arrived \cup {<<i, j, t>> : t \in to}
  <2>1. PICK g \in got' : x = <<g.alert, g.output, g.to>>
    BY <1>2 DEF Arrived
  <2>2. CASE g \in got
    BY <2>1, <2>2 DEF Arrived
  <2>3. CASE g \notin got
    <3>1. PICK t \in to, c \in copies : g = [alert |-> i, output |-> j, to |-> t, copy |-> c]
      BY <1>1, <2>1, <2>3
    <3>2. x = <<i, j, t>>
      BY <2>1, <3>1
    <3> QED
      BY <3>2
  <2> QED
    BY <2>2, <2>3
<1>3. ASSUME NEW x \in Arrived
      PROVE  x \in Arrived'
  BY <1>1 DEF Arrived
<1>4. ASSUME NEW t \in to
      PROVE  <<i, j, t>> \in Arrived'
  <2>1. PICK c : c \in copies
    OBVIOUS
  <2> DEFINE g == [alert |-> i, output |-> j, to |-> t, copy |-> c]
  <2>2. g \in got'
    BY <1>1, <2>1
  <2>3. g.alert = i /\ g.output = j /\ g.to = t
    OBVIOUS
  <2> HIDE DEF g
  <2> QED
    BY <2>2, <2>3 DEF Arrived
<1> QED
  BY <1>2, <1>3, <1>4

\* An output that returns is settled: it delivered to all, now or before, or
\* to nobody, and says so unless it may be silent.
LEMMA ReturnSettles ==
  ASSUME AlertsOK, i \in 1..Len(alerts), j \in 0..Len(Actions),
         NEW says \in BOOLEAN, Return(says),
         Arrived' = Arrived \/ Arrived' = Arrived \cup Promise!Copies,
         Promise!Action \in Promise!MayBeSilent \/ Promise!Copies \subseteq Arrived' \/ says
  PROVE  Promise!Settle
<1>1. /\ Len(Asked) = Len(alerts) /\ Asked[i] = Actions
      /\ Len(alerts) \in Nat /\ Len(Actions) \in Nat
  BY AskedActions, LenProperties DEF AlertsOK, Actions
<1>2. /\ logged' = IF says THEN logged \cup {<<i, j>>} ELSE logged
      /\ j' = j + 1 /\ i' = i /\ alerts' = alerts /\ cfg' = cfg
  BY DEF Return
<1>3. Promise!Serving
  <2>1. i <= Len(Asked) /\ j <= Len(Asked[i])
    BY <1>1
  <2> QED
    BY <2>1 DEF Promise!Serving, Asked
<1>4. Arrived' = Arrived \/ (~Promise!Delivered /\ Arrived' = Arrived \cup Promise!Copies)
  BY DEF Promise!Delivered, Arrived
<1>5. /\ logged' \in {logged, logged \cup {<<i, j>>}}
      /\ says => <<i, j>> \in logged'
  BY <1>2
<1>6. Asked' = Asked /\ Recipients' = Recipients
  BY <1>2 DEF Asked, Recipients, smtp
<1> QED
  BY <1>2, <1>3, <1>4, <1>5, <1>6 DEF Promise!Settle, Asked, Arrived

\* The output in hand, and what it is to deliver.
LEMMA InHand ==
  ASSUME AlertsOK, i \in 1..Len(alerts)
  PROVE  /\ Promise!Action = IF j = 0 THEN "stream" ELSE Actions[j]
         /\ Promise!Action = "email" => Promise!Copies = {<<i, j, r>> : r \in Recipients}
         /\ Promise!Action # "email" => Promise!Copies = {<<i, j, Promise!Action>>}
<1>1. Asked[i] = Actions
  BY AskedActions
<1>2. Promise!Action = IF j = 0 THEN "stream" ELSE Actions[j]
  BY <1>1 DEF Promise!Action, Asked
<1> QED
  BY <1>2 DEF Promise!Copies

\* What is sent to the output in hand arrives there, or does not.
LEMMA SentThere ==
  ASSUME AlertsOK, i \in 1..Len(alerts), Promise!Action # "email", NEW copy,
         UNCHANGED got \/ Arrive({}, {copy}) \/ Arrive({Promise!Action}, {copy})
  PROVE  Arrived' = Arrived \/ Arrived' = Arrived \cup Promise!Copies
<1>1. Promise!Copies = {<<i, j, Promise!Action>>}
  BY InHand
<1>2. CASE UNCHANGED got
  BY <1>2 DEF Arrived
<1>3. CASE Arrive({}, {copy})
  <2>1. Arrived' = Arrived \cup {<<i, j, t>> : t \in {}}
    BY <1>3, ArriveMaps
  <2> QED
    BY <2>1
<1>4. CASE Arrive({Promise!Action}, {copy})
  <2>1. Arrived' = Arrived \cup {<<i, j, t>> : t \in {Promise!Action}}
    BY <1>4, ArriveMaps
  <2> QED
    BY <1>1, <2>1
<1> QED
  BY <1>2, <1>3, <1>4

\* An output that takes one step is settled by it.
LEMMA AtOnceSettles ==
  ASSUME Served,
         \/ Publish \/ printAlert \/ writeFile \/ sendWebhook \/ sendTeams \/ UnknownAction
         \/ sendEmail /\ NoMail
  PROVE  Promise!Settle
<1>1. /\ AlertsOK /\ i \in 1..Len(alerts) /\ i \in Nat /\ Len(Actions) \in Nat
  BY MatchedFirst DEF Served, OutputsNext
<1>2. /\ Promise!Action = IF j = 0 THEN "stream" ELSE Actions[j]
      /\ Promise!Action # "email" => Promise!Copies = {<<i, j, Promise!Action>>}
  BY <1>1, InHand
<1>3. ASSUME j \in 0..Len(Actions), Promise!Action # "email", NEW copy,
             UNCHANGED got \/ Arrive({}, {copy}) \/ Arrive({Promise!Action}, {copy}),
             NEW says \in BOOLEAN, Return(says), Promise!Action \in Promise!MayBeSilent \/ says
      PROVE  Promise!Settle
  BY <1>1, <1>3, SentThere, ReturnSettles
<1>4. {"stream", "stdout", "file", "webhook", "teams"} = Promise!MayBeSilent
  BY DEF Promise!MayBeSilent
<1>5. Serving => j \in 1..Len(Actions) /\ j \in 0..Len(Actions) /\ j # 0
  BY <1>1 DEF Serving
<1>6. CASE Publish
  <2>1. j = 0 /\ j \in 0..Len(Actions) /\ Promise!Action = "stream"
    BY <1>1, <1>2, <1>6 DEF Publish
  <2>2. Return(FALSE) /\ (Arrive({}, {TailEvent(alerts[i])}) \/ Arrive({"stream"}, {TailEvent(alerts[i])}))
    BY <1>6 DEF Publish
  <2> QED
    BY <1>3, <1>4, <2>1, <2>2
<1>7. CASE printAlert
  <2>1. j \in 0..Len(Actions) /\ Promise!Action = "stdout"
    BY <1>2, <1>5, <1>7 DEF printAlert
  <2>2. Return(FALSE) /\ (Arrive({}, {AlertLine(alerts[i])}) \/ Arrive({"stdout"}, {AlertLine(alerts[i])}))
    BY <1>7 DEF printAlert
  <2> QED
    BY <1>3, <1>4, <2>1, <2>2
<1>8. CASE writeFile
  <2>1. j \in 0..Len(Actions) /\ Promise!Action = "file"
    BY <1>2, <1>5, <1>8 DEF writeFile
  <2>2. /\ Return(TRUE) \/ Return(FALSE)
        /\ \/ UNCHANGED got
           \/ Arrive({}, {AlertLine(alerts[i])}) \/ Arrive({"file"}, {AlertLine(alerts[i])})
    BY <1>8 DEF writeFile
  <2> QED
    BY <1>3, <1>4, <2>1, <2>2
<1>9. CASE sendWebhook
  <2>1. j \in 0..Len(Actions) /\ Promise!Action = "webhook"
    BY <1>2, <1>5, <1>9 DEF sendWebhook
  <2>2. /\ Return(TRUE) \/ Return(FALSE)
        /\ UNCHANGED got \/ Arrive({"webhook"}, {slackPayload(alerts[i])})
    BY <1>9 DEF sendWebhook, Post
  <2> QED
    BY <1>3, <1>4, <2>1, <2>2
<1>10. CASE sendTeams
  <2>1. j \in 0..Len(Actions) /\ Promise!Action = "teams"
    BY <1>2, <1>5, <1>10 DEF sendTeams
  <2>2. /\ Return(TRUE) \/ Return(FALSE)
        /\ UNCHANGED got \/ Arrive({"teams"}, {teamsPayload(alerts[i])})
    BY <1>10 DEF sendTeams, Post
  <2> QED
    BY <1>3, <1>4, <2>1, <2>2
<1>11. CASE UnknownAction
  <2>1. j \in 0..Len(Actions) /\ Promise!Action # "email"
    BY <1>2, <1>5, <1>11 DEF UnknownAction
  <2>2. Return(TRUE) /\ UNCHANGED got
    BY <1>11 DEF UnknownAction
  <2> QED
    BY <1>3, <2>1, <2>2
<1>12. CASE sendEmail /\ NoMail
  <2>1. j \in 0..Len(Actions) /\ Return(TRUE) /\ got' = got
    BY <1>5, <1>12 DEF sendEmail, NoMail
  <2>2. Arrived' = Arrived
    BY <2>1 DEF Arrived
  <2> QED
    BY <1>1, <2>1, <2>2, ReturnSettles
<1> QED
  BY <1>6, <1>7, <1>8, <1>9, <1>10, <1>11, <1>12

\* The message is taken for all: a delivery, if it was not one before.
LEMMA TakenDelivers ==
  ASSUME Session, Served, rcpts = Invited, MailTaken, i \in 1..Len(alerts),
         j # 0, Actions[j] = "email"
  PROVE  Arrived' = Arrived \cup Promise!Copies
<1>1. PICK copies : copies # {} /\ Arrive(Recipients, copies)
  BY TakenForAll
<1>2. Arrived' = Arrived \cup {<<i, j, t>> : t \in Recipients}
  BY <1>1, ArriveMaps
<1>3. Promise!Copies = {<<i, j, r>> : r \in Recipients}
  BY InHand DEF Served
<1> QED
  BY <1>2, <1>3

\* Each step of a mail is one of the promise, or none.
LEMMA MailSettles ==
  ASSUME Session, Served, Succeeds \/ Accepted \/ Quit \/ Fails
  PROVE  Promise!Deliver \/ Promise!Settle \/ UNCHANGED Promise!vars
<1>1. /\ i \in 1..Len(alerts) /\ j \in 1..Len(Actions) /\ j \in 0..Len(Actions) /\ j # 0
      /\ Len(Actions) \in Nat /\ Actions[j] = "email" /\ Invited \in Nat /\ AlertsOK
      /\ Len(script) \in Nat /\ Len(script) > 0 /\ rcpts = Named(Len(script))
      /\ Len(script) = 1 => \A to \in Recipients : Has(to)
      /\ Head(script) = "close" <=> Len(script) = 2
  <2>1. AlertsOK
    BY DEF Served
  <2>2. /\ i \in 1..Len(alerts) /\ j \in 1..Len(Actions)
        /\ Len(Actions) \in Nat /\ Actions[j] = "email" /\ Invited \in Nat
        /\ Len(script) \in Nat /\ Len(script) > 0 /\ rcpts = Named(Len(script))
        /\ Len(script) = 1 => \A to \in Recipients : Has(to)
        /\ Head(script) = "close" <=> Len(script) = 2
    BY MailGoesOn
  <2>3. j \in 0..Len(Actions) /\ j # 0
    BY <2>2
  <2> QED
    BY <2>1, <2>2, <2>3
<1>2. Len(script) = 2 => rcpts = Invited
  BY <1>1, NamedStep
<1>3. Promise!Copies = {<<i, j, r>> : r \in Recipients}
  BY <1>1, InHand
<1>4. CASE Succeeds
  BY <1>4 DEF Succeeds, Promise!vars, Recipients, smtp
<1>5. CASE Accepted
  <2>1. /\ cfg' = cfg /\ alerts' = alerts /\ i' = i /\ j' = j /\ logged' = logged
        /\ Len(script) = 2 /\ MailTaken
    BY <1>5 DEF Accepted
  <2>2. Arrived' = Arrived \cup Promise!Copies
    BY <1>1, <1>2, <2>1, TakenDelivers
  <2>3. Asked' = Asked /\ Recipients' = Recipients
    BY <2>1 DEF Asked, Recipients, smtp
  <2>4. Promise!Serving
    <3>1. i <= Len(Asked) /\ j <= Len(Asked[i])
      BY <1>1, AskedActions
    <3> QED
      BY <3>1 DEF Promise!Serving, Asked
  <2>5. CASE Promise!Delivered
    <3>1. Arrived' = Arrived
      BY <2>2, <2>5 DEF Promise!Delivered, Arrived
    <3> QED
      BY <2>1, <2>3, <3>1 DEF Promise!vars, Asked, Arrived
  <2>6. CASE ~Promise!Delivered
    BY <2>1, <2>2, <2>3, <2>4, <2>6 DEF Promise!Deliver, Asked, Arrived
  <2> QED
    BY <2>5, <2>6
<1>6. CASE Quit
  <2>1. Return(FALSE) /\ got' = got /\ \A to \in Recipients : Has(to)
    BY <1>1, <1>6 DEF Quit
  <2>2. Arrived' = Arrived
    BY <2>1 DEF Arrived
  <2>3. Promise!Copies \subseteq Arrived'
    BY <1>3, <2>1, <2>2 DEF Has, Arrived
  <2> QED
    BY <1>1, <2>1, <2>2, <2>3, ReturnSettles
<1>7. CASE Fails
  <2>1. Return(TRUE) /\ (got' = got \/ (MailTaken /\ Head(script) = "close"))
    BY <1>7 DEF Fails
  <2>2. Arrived' = Arrived \/ Arrived' = Arrived \cup Promise!Copies
    <3>1. CASE got' = got
      BY <3>1 DEF Arrived
    <3>2. CASE MailTaken /\ Head(script) = "close"
      BY <1>1, <1>2, <3>2, TakenDelivers
    <3> QED
      BY <2>1, <3>1, <3>2
  <2> QED
    BY <1>1, <2>1, <2>2, ReturnSettles
<1> QED
  BY <1>4, <1>5, <1>6, <1>7

\* Each step of the program is one of the promise, or none.
LEMMA StepSettles ==
  ASSUME Session, Served, [Next]_vars
  PROVE  [Promise!Next]_(Promise!vars)
<1>1. ASSUME UNCHANGED <<cfg, alerts, i, j, got, logged>>
      PROVE  UNCHANGED Promise!vars
  BY <1>1 DEF Promise!vars, Recipients, smtp
<1>2. CASE UNCHANGED outputVars
  BY <1>1, <1>2 DEF outputVars
<1>3. CASE Match
  <2>1. /\ at = "parsed" /\ cfg' = cfg /\ i' = i /\ j' = j /\ got' = got /\ logged' = logged
    BY <1>3 DEF Match
  <2>2. alerts = <<>>
    BY <2>1 DEF Served, Waiting
  <2>3. Asked = <<>>
    BY <2>2 DEF Asked
  <2>4. Recipients' = Recipients /\ Arrived' = Arrived
    BY <2>1 DEF Recipients, smtp, Arrived
  <2>5. CASE Asked' = <<>>
    BY <2>1, <2>3, <2>4, <2>5 DEF Promise!vars, Asked, Arrived
  <2>6. CASE Asked' # <<>>
    <3>1. Promise!Fire
      BY <2>1, <2>3, <2>4, <2>6 DEF Promise!Fire, Asked, Arrived
    <3> QED
      BY <3>1 DEF Promise!Next
  <2> QED
    BY <2>5, <2>6
<1>4. CASE OutputsNext
  <2>1. CASE \/ Publish \/ printAlert \/ writeFile \/ sendWebhook \/ sendTeams \/ UnknownAction
             \/ sendEmail /\ NoMail
    BY <2>1, AtOnceSettles DEF Promise!Next
  <2>2. CASE sendEmail /\ ~NoMail
    BY <1>1, <2>2 DEF sendEmail, NoMail
  <2>3. CASE Succeeds \/ Accepted \/ Quit \/ Fails
    BY <2>3, MailSettles DEF Promise!Next
  <2>4. CASE NextAlert
    <3>1. AlertsOK /\ i \in 1..Len(alerts)
      BY <1>4, MatchedFirst DEF Served
    <3>2. /\ i <= Len(alerts) /\ j > Len(Actions) /\ i' = i + 1 /\ j' = 0
          /\ cfg' = cfg /\ alerts' = alerts /\ got' = got /\ logged' = logged
      BY <2>4 DEF NextAlert
    <3>3. i <= Len(Asked) /\ j > Len(Asked[i])
      BY <3>1, <3>2, AskedActions
    <3>4. Asked' = Asked /\ Arrived' = Arrived /\ Recipients' = Recipients
      BY <3>2 DEF Asked, Arrived, Recipients, smtp
    <3>5. Promise!NextAlert
      BY <3>2, <3>3, <3>4 DEF Promise!NextAlert, Asked, Arrived
    <3> QED
      BY <3>5 DEF Promise!Next
  <2> QED
    BY <1>4, <2>1, <2>2, <2>3, <2>4 DEF OutputsNext
<1>5. CASE Quiet \/ UNCHANGED vars
  <2>1. UNCHANGED outputVars
    BY <1>5 DEF Quiet, vars
  <2> QED
    BY <1>2, <2>1
<1> QED
  BY <1>2, <1>3, <1>4, <1>5 DEF Next

\* The dispatcher serves each output of each alert once and in order, whatever
\* fails; mail goes to all of its recipients or to none, and mail that does not
\* arrive is logged: it implements Delivery.tla.
THEOREM KeepsPromise == Spec => IsDelivery
<1>1. Init => Promise!Init
  <2>1. ASSUME Init
        PROVE  Promise!Init
    <3>1. alerts = <<>> /\ i = 1 /\ j = 0 /\ got = {} /\ logged = {}
      BY <2>1 DEF Init, OutputsInit
    <3>2. Asked = <<>> /\ Arrived = {}
      BY <3>1 DEF Asked, Arrived
    <3> QED
      BY <3>1, <3>2 DEF Promise!Init, Asked, Arrived
  <2> QED
    BY <2>1
<1>2. Session /\ Served /\ [Next]_vars => [Promise!Next]_(Promise!vars)
  BY StepSettles
<1> QED
  BY <1>1, <1>2, AlwaysSession, AlwaysServed, PTL DEF Spec, IsDelivery, Promise!Spec
=============================================================================
