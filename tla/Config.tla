------------------------------- MODULE Config -------------------------------
(***************************************************************************)
(* config.Load: from an INI file to the configuration, with its defaults.  *)
(* Nothing is validated: what a key holds is taken as it is or replaced    *)
(* by a default without a word.                                            *)
(*                                                                         *)
(* A file is the record of its sections, each a record of the keys that    *)
(* are written, and the sequence of its [rule:<name>] sections. A list is  *)
(* the sequence of its parts, blanks trimmed.                              *)
(***************************************************************************)
EXTENDS Integers, Sequences

CONSTANT Numeral   \* strconv: the strings that are integers, with their values

ASSUME ConfigAssumption == \A s \in DOMAIN Numeral : Numeral[s] \in Int

\* A key that is not there reads as "", and so does one without a value.
Key(sec, k) == IF k \in DOMAIN sec THEN sec[k] ELSE ""

MustString(s, default) == IF s = "" THEN default ELSE s

\* "60s" is not an integer: the default.
MustInt(s, default) == IF s \in DOMAIN Numeral THEN Numeral[s] ELSE default

splitTrim(sec, k) ==
  IF k \in DOMAIN sec THEN SelectSeq(sec[k], LAMBDA part : part # "") ELSE <<>>

\* Without an [output] section, the zero value: a port of 0 and no default.
Output(ini) ==
  LET sec == IF "output" \in DOMAIN ini THEN ini.output ELSE <<>>
      there == "output" \in DOMAIN ini
  IN [WebhookURL |-> Key(sec, "webhook_url"),
      TeamsWebhookURL |-> Key(sec, "teams_webhook_url"),
      AlertFile |-> Key(sec, "alert_file"),
      DashboardAddr |-> IF there THEN MustString(Key(sec, "dashboard_addr"), ":9090") ELSE "",
      SMTP |-> [Host |-> Key(sec, "smtp_host"),
                Port |-> IF there THEN MustInt(Key(sec, "smtp_port"), 587) ELSE 0,
                User |-> Key(sec, "smtp_user"),
                From |-> IF there THEN MustString(Key(sec, "smtp_from"), "logitcat") ELSE "",
                To |-> splitTrim(sec, "smtp_to")]]

Rules(ini) ==
  [n \in DOMAIN ini.rules |->
     LET sec == ini.rules[n] IN
     [Name |-> sec.name,
      Pattern |-> Key(sec, "pattern"),
      Field |-> Key(sec, "field"),
      Level |-> Key(sec, "level"),
      Severity |-> MustString(Key(sec, "severity"), "INFO"),
      Action |-> splitTrim(sec, "action"),
      Cooldown |-> MustInt(Key(sec, "cooldown"), 0)]]

Load(ini) ==
  [Files |-> IF "watch" \in DOMAIN ini THEN splitTrim(ini.watch, "files") ELSE <<>>,
   Rules |-> Rules(ini),
   Output |-> Output(ini)]
=============================================================================
