----------------------------- MODULE MCAlerting -----------------------------
(***************************************************************************)
(* Alerting on lines of every format and on four configuration files.      *)
(***************************************************************************)
EXTENDS Alerting, TLC

MCNumeral == "465" :> 465 @@ "587" :> 587 @@ "25" :> 25 @@ "60" :> 60

JSON(parts, ints) ==
  [source |-> "app.log", text |-> {"{"} \cup DOMAIN parts \cup UNION {parts[k] : k \in DOMAIN parts},
   form |-> {"brace", "object"}, parts |-> parts, ints |-> ints,
   dated |-> {"ts"}]

Text(words, form, parts, dated) ==
  [source |-> "app.log", text |-> words, form |-> form, parts |-> parts, ints |-> {},
   dated |-> dated]

\* A line of the form "Mar 13 11:45:12 [a b: c] ..." fits the syslog pattern too.
Access(status, form) ==
  Text({"mar", "noon", "get", "/error", "error", "err", "http", status}, form,
       "ip" :> {"mar"} @@ "user" :> {"noon"} @@ "method" :> {"get"} @@ "path" :> {"/error"}
       @@ "proto" :> {"http"} @@ "status" :> {status} @@ "bytes" :> {"-"},
       IF "syslog" \in form THEN {} ELSE {"time"})

Syslog(pid, words) ==
  Text({"mar", "web"} \cup words, {"syslog"},
       "hostname" :> {"web"} @@ "app" :> {"app"} @@ "pid" :> pid
       @@ "message" :> words, IF pid = {} THEN {} ELSE {"time"})

MCLines ==
  { JSON("level" :> {"critical"} @@ "msg" :> {"oom"} @@ "host" :> {"web"}, {}),
    JSON("msg" :> {"fatal", "oom"} @@ "code" :> {"7"} @@ "ts" :> {"noon"}, {"code"}),
    JSON("level" :> {"3"} @@ "message" :> {} @@ "text" :> {"oom"}, {"level"}),
    JSON("severity" :> {"info"} @@ "lvl" :> {"warning"} @@ "msg" :> {"oom"} @@ "body" :> {"panic"}, {}),
    JSON("error" :> {"7"}, {"error"}),
    Text({"{", "oom", "warn"}, {"brace"}, <<>>, {}),
    Access("5xx", {"apache"}), Access("4xx", {"apache", "syslog"}),
    Syslog({"9"}, {"oom", "debug"}), Syslog({}, {"panic"}),
    Text({"oom"}, {}, <<>>, {}), Text({}, {}, <<>>, {}) }

Rule(name, pattern, action) == [name |-> name, pattern |-> pattern, action |-> action]

\* Mail over TLS with a password, to two people; two alerts.
Full ==
  [output |-> [smtp_host |-> "mx", smtp_port |-> "465", smtp_user |-> "me",
               smtp_to |-> <<"ann", "bob">>, teams_webhook_url |-> "T"],
   rules |-> << Rule("oom", "oom", <<"email", "teams">>) @@ [severity |-> "CRITICAL"],
                Rule("bad", "(", <<"stdout">>),
                Rule("all", "", <<"teams", "email">>) @@ [level |-> "error"] >>]

\* The relay on port 25, all outputs at once.
Relay ==
  [watch |-> [files |-> <<"app.log", "">>],
   output |-> [smtp_host |-> "mx", smtp_port |-> "25", smtp_to |-> <<"ann">>,
               webhook_url |-> "W", alert_file |-> "F", teams_webhook_url |-> "T"],
   rules |-> << Rule("web", "web", <<"webhook", "file", "teams", "email">>)
                  @@ [field |-> "host", severity |-> "WARN"],
                Rule("nul", NUL, <<"file">>) @@ [field |-> "code"],
                Rule("get", "get", <<"webhook", "email">>) @@ [field |-> "method"],
                Rule("any", "", <<"stdout", "file", "email">>) >>]

\* Nothing is configured, and one action is misspelt.
Bare ==
  [rules |-> << Rule("all", "", <<"file", "webhook", "e-mail", "teams", "email">>)
                  @@ [cooldown |-> "60s", level |-> "warn"] >>]

\* The default port, and a rule without an action.
Default ==
  [output |-> [smtp_host |-> "mx", smtp_port |-> "tls", smtp_user |-> "me",
               smtp_to |-> <<"", "bob">>, dashboard_addr |-> ""],
   rules |-> << Rule("raw", "{", <<>>) @@ [field |-> "raw"],
                Rule("src", "app.log", <<"email">>) @@ [field |-> "source"],
                Rule("lvl", "fatal", <<"stdout">>) @@ [field |-> "level", cooldown |-> "60"] >>]

MCInis == {Full, Relay, Bare, Default}
=============================================================================
