# A TLA+ model of logitcat

logitcat is one Go program. It follows log files (or reads stdin), parses each
line, matches it against the rules of an INI file, and sends alerts to
outputs, to `logitcat tail` clients and to a web dashboard. It also runs as a
daemon with a PID file and a control socket. These modules model what can go
wrong between its goroutines, its processes and the disk. TLC checks them on
small instances, and TLAPS proves some of the results for every instance.

All source paths below are relative to the repository's root. `PROJECT.json`
maps every definition to its lines.

## Inventory

### How the parts fit together

    tailers / stdin --rawLines--> parser.Run --entries--> teeLogEntries
                                                             |      \--> LogBroker --> SSE, forwarder
                                                             entries2
                                                             v
                       rules.Match --alerts--> Dispatch --> outputs, one by one
                                                      \--> Broker --> tail clients, SSE, forwarder
                    a pipe's forwarder --POST--> handlePushAlert --^

    start / run --> PID file, control socket <-- stop, status, reload, tail

Calls go down the pipeline through buffered channels (1000, 1000, 1000, 100).
The brokers fan events out to subscribers. The daemon's main goroutine waits
for a signal or for the `quit` channel, which the handler of a `stop` command
closes.

### The components

| Component | State | Operations | What is hard | Correct when |
|---|---|---|---|---|
| Brokers, `internal/control/server.go` | a set of channels under a RWMutex | Subscribe, Unsubscribe, Publish (Close is never called) | the channel is closed after the unlock; publishers overlap; slow, dead and vanished readers | no send on a closed channel; order kept; Publish never waits for a reader; subscriptions are given back |
| Line pipeline, `parser.go`, `main.go`, `rules.go`, `dispatcher.go` | four channels, one item in each stage's hand, the alert counter | receive, parse, send, publish, match, dispatch, and the counting of pushed alerts | backpressure through four stages; outputs that fail; log and alert streams that race; a counter with two writers | no line lost or reordered; every alert goes to all of its outputs |
| Rules engine, `rules.go` | `lastFired` per rule | compile, matches, cooldownOK | the clock is read three times per alert, and a send may wait in between | no rule fires within its cooldown, and none stays silent outside it |
| Tailers, `watcher.go` | a descriptor, a buffered reader, an offset, `seekEnd` | open, seek, read, send, checkRotation, waitForFile | writes and rotations at any moment; calls that fail on a file that is there | nothing forwarded twice, no gaps, the new file is found |
| Control socket, `server.go`, `client.go` | the listener, one goroutine per connection | Listen, Close, stop, status, reload, tail | a stale socket; a socket in use; two stops; a process that ends between accept and answer | commands are answered or fail; the socket is the live daemon's |
| Daemon lifecycle, `daemon.go`, `cmdStart`, `cmdRun` | the PID file | IsRunning, Start, WritePID, RemovePID | looking and writing far apart; crashes; the truncating write | one daemon, found through its files |
| Dashboard server, `dashboard/server.go` | none of its own | SSE streams, push handlers | subscribers that vanish | as for the brokers |
| Pipe mode, `cmdPipe`, `stdin.go` | the pipeline, and two forwarders | the end of stdin | a 400 ms sleep and a 2 s timeout race the pipeline | what was read is reported before the exit |
| Line formats, `parser/*.go` | none | detect, parse, normalise | random map order; integers in JSON | no value of an object is lost, in any order |
| Outputs, `dispatcher/*.go` | an SMTP connection | stdout, file, webhook, Teams, email | each call can fail, or succeed and lose its answer; none has a timeout; a write to a broken stdout ends the process | each is served once and in order; mail goes to all or none, encrypted; the connection is closed |
| Configuration, `config/config.go` | none | load | silent defaults | what is missing has its default |
| Command line, `cmd/logitcat/main.go` | none | arguments, printing | – | – |
| Dashboard page and plugins | in the browser | shows the streams | – | – |

The hazards in `PROJECT.json` say, line by line, where each of these bites.

## The modules

| Module | Models | Relation |
|---|---|---|
| `FanOut` | what a broker promises: a best-effort broadcast with a fixed membership per broadcast | abstract |
| `Broker` | both brokers, lock by lock, with publishers and the three kinds of reader | implements `FanOut` (`IsFanOut`) |
| `Engine` | what the pipeline promises: a sequential rule engine over the lines | abstract |
| `Pipeline` | the four stages, each channel operation a step | implements `Engine` (`IsEngine`) |
| `Watcher` | one tailer, the program that writes its file, and the rotation tool | produces `Pipeline`'s lines |
| `Pipe` | the end of stdin in pipe mode, with the stages as counters, the forwarders and the daemon they post to | uses what `Pipeline` and `Broker` show |
| `Levels` | the tables of levels, and the two filters that compare them | used by `Pipeline` and `Parser` |
| `Config` | config.Load | used by `Outputs` |
| `Parser` | parser.Parse, a JSON object key by key | refines what `Pipeline` calls `LevelOf` |
| `Outputs` | Dispatch, its five outputs and the SMTP conversation | refines what `Pipeline` calls `Act` |
| `Delivery` | what the dispatcher promises for the alerts of a line | abstract |
| `Alerting` | `Parser` and `Outputs` with rules.Match between them, under a configuration | implements `Delivery` (`IsDelivery`) |
| `Daemon` | processes, the PID file, the control socket and its clients | on its own |
| `BrokerProofs`, `PipelineProofs`, `EngineProofs`, `WatcherProofs`, `PipeProofs`, `AlertingProofs`, `DaemonProofs` | theorems about `Broker`, `Pipeline` (two modules), `Watcher`, `Pipe`, `Alerting` and `Daemon` | each extends its module; `EngineProofs` extends `PipelineProofs` |
| `QueueLemmas` | what Append, Head, Tail and `\o` do to a queue | used by four of them |
| `MCBroker`, `MCPipeline`, `MCWatcher`, `MCPipe`, `MCDaemon`, `MCAlerting` | the instances TLC checks | |

The components are joined by assumption rather than in one large module.
`Pipeline` treats a publication as one step that always returns, which is what
`PublishCompletes` of `Broker` shows. `Watcher` takes a send to `rawLines` to
find room in the end, which is what `EveryLineDecided` of `Pipeline` shows.

`Pipeline` and `Alerting` are the same pipeline, seen twice. `Pipeline` has the
stages at once and takes a line's content for granted. `Alerting` has the
content and takes one line through one stage after the other, which is sound
because stages share nothing but the channels. A text in `Pipeline` stands for
a line together with the entry that came of it, whatever the order of its keys.

### Broker

One action per lock operation, channel operation or write. A subscription and
its channel are the same thing, because Subscribe makes a new channel each
time. `subs` is the broker's map, `writer` and `readers` its RWMutex: a
waiting writer keeps new readers out, as Go's does. `Unsubscribe` and
`CloseChan` are two steps because the code closes after it has unlocked
(server.go:155-160). `Offer` is the select with a default. A closed channel
that gets a send or a second close sets `panicked`. The three kinds of reader
differ in how they notice that they should leave: a tail handler by a failing
write, an SSE handler by its context too, and a forwarder because main
unsubscribes its channel.

### Pipeline

A line is its number in the order of arrival and a text from a small set. What
the rules can tell apart of a text is its level and which rules' patterns hit
it, so `Hits` and `LevelOf` stand for regular expressions and parsing. What a
stage holds between a receive and a send is a sequence of length 0 or 1.
`Match` is broken where other goroutines or the clock can come in between: the
comparison in cooldownOK (`Test`), its second reading of the clock (`Arm`),
the third one for the alert (`Stamp`), and the send (`MatchSend`). `Act`
succeeds or fails, and an error is only logged. A rule that never fired has
been quiet for longer than any cooldown (Go's zero time). Cooldowns are
natural numbers: negative ones and overflowing durations are not modelled.

The alert counter has two writers. Dispatch counts and then publishes (`Count`,
`Publish`); handlePushAlert, which runs in a goroutine per request, publishes
and then counts (`PushPublish`, `PushCount`). `DispatchInOrder` says how far the
count and the broadcasts can be apart in between.

`LogOneBehind` is about the order in which the two brokers are given their
events. It says nothing of the order in which a page shows them: logs and alerts
go over two SSE streams with a channel each, which lag and drop independently.
What one stream shows is `FeedOrdered` in `Broker`.

`CooldownRespected` and `Engine` are about the time at which a rule is
*armed*. The time printed in an alert is read later, so the printed times of
two alerts can be closer together than the cooldown.

### Watcher

A file is an inode and a sequence of numbered units, two to a line, so that a
write, a read or a rotation can fall inside a line. The disk can be written,
renamed, created, reopened by the program and truncated at any moment. The
tailer's steps are the system calls of tailUntilRotation: `Open`, `Seek`,
`Fill` (a read that may return less than there is), `ReadLine` and `ReadEOF`
(ReadString from the buffer, or what was left at the end of the file), `Send`,
and `Check`. `offset` is the code's own count of what it sent, which lags
behind the position while lines are buffered. `history` and `named` are
history variables for the properties. A path that is configured twice has two
tailers, each as modelled here.

Calls also fail on a file that is there. os.Open, f.Stat and f.Seek end in the
same return (`OpenFails`), and a read error is not told from the end of the file
(`ReadEOF`). Any error of os.Stat is taken for a rotation (`StatFails`). Two
things follow that the code's comments do not say. The first open that fails
clears `seekEnd`, whatever the reason (watcher.go:41), so the second one replays
the history that "first open: start from EOF (don't replay history)"
(watcher.go:32) promises to skip. And an os.Stat that fails makes the tailer read
the same file from its start (watcher.go:112), so that its lines are forwarded
again. `ForwardedOnce` is stated around both: the history is skipped if no call
failed, and what is forwarded is in order and without repetition from one failed
os.Stat to the next (`since`).

### Pipe

Each stage is a counter of the lines that have passed it, which is sound
because `Pipeline` shows that channels neither lose nor reorder, and one
iteration of a stage's loop is one step. A publication and a hang-up are
single steps: in pipe mode each broker has one publisher, and by `IsFanOut`
membership does not change within a broadcast. `main` follows cmdPipe from
its select to the exit, and after the exit no other goroutine moves. The log
forwarder's batch is filled by `TakeLog`, posted when full, on a tick, or when
the channel is closed, one POST at a time (`LogPosted`). A POST may take for
ever, or fail once the daemon is gone. Note that parser.Run never closes
`entries`: nothing tells main that the stages are done, which is why it
sleeps. `Prompt` says whether the sleep is always long enough. A line raises
at most one alert here.

### Levels, Config, Parser, Outputs, Delivery and Alerting

A text is the set of the words that occur in it, in lower case: enough for
keyword search, for equality with the names of levels, and for rules, whose
patterns are words here. The empty text is the empty set. A line also says
which forms it fits and what parts these find in it, so that regular
expressions and the JSON decoder stay outside. Of times an entry keeps whether
it is the line's or that of its arrival.

`Parse` chooses the format, in detect's order. For a JSON object the loop of
parseJSON follows, one key per step (`TakeKey`) in any order, because Go's
range over a map has none, and then the defaults (`EndKeys`), the level before
the message. `anyToString` is as it is: an integer becomes one NUL character
(json.go:97), whatever its value, although "Unknown fields are preserved in
Fields as strings" (json.go:23). `ValuesKept` compares an entry with the values
in the line, and therefore leaves the integers out: all of them are lost. The time
keys are never looked at, because the entry is made with the time of now and
the loop asks for a zero time (json.go:51). They are fields like any other, and
the entry has the time of its arrival, although they are among the fields that
are to be extracted (json.go:11, 39).

`compile` gives the numbers of the rules that are kept, and `Match` numbers the
rules that hit with `Nth`: the order of the loop, said with sets.

`Load` gives each key its default without a word: a port that is not a number
is 587, a cooldown of `60s` is none, an empty `dashboard_addr` is `:9090`.
Without an `[output]` section the zero values stay.

`Outputs` walks through the alerts (`i`) and the outputs of each (`j`; 0 is
the publication to the broker). An output is one step, except email, whose
`script` is the list of calls that sendTLS or sendSTARTTLS and then deliverSMTP
make. A call succeeds (`Succeeds`, `Accepted`, `Quit`) or fails (`Fails`), and
every failure ends in the deferred Close and one line in the log. The call that
closes the message is the delicate one: the server may have taken the mail
although the answer is lost. A webhook may take the alert or not, and answer
or not; a redirect is followed by a GET, so an alert that nobody took can look
like a success. What arrived is in `got`, with what the copy says: the facts
that two outputs can both show (rule, level, source, message, time and the urgency
that a colour stands for), and no wording or layout.

No call has a timeout, and nothing is assumed of when one returns: there is no
fairness in these modules. A write to a stdout that nobody reads any more ends the
process, because Go turns EPIPE on it into SIGPIPE, which main does not catch.
That end is not an action: from then on nothing happens, and every invariant
and the safety of `Delivery` hold of what has happened before.

`Delivery` forgets scripts and copies. It promises that the outputs are served
in order, each once, that mail reaches all of its recipients or none, and that
mail which reached nobody is in the log. It promises nothing of the kind for
the others, since stdout and the file ignore write errors, the webhook returns
silently without a URL, and the broker drops what finds no room.

Every port but 465 needs STARTTLS, also 25, which config.go:24 calls plain and
email.go:18 does not. `EncryptedFirst` holds for all of them.

### Daemon

A process is one that `start` launched (in `Daemons`) or a `run` in the
foreground (in `Runs`). `at` is its main goroutine, `listener` its Listen
goroutine, `quit` and `signalled` what main waits for. A client dials, is
accepted, is served by its own goroutine, and may lose the connection. `Kill`
is a crash at any point. The PID file is written in two steps, as os.WriteFile
truncates first. `srv.Close` reads `s.listener` without a lock while Listen
sets it: between `ListenBind` and `ListenReady` main may or may not see it,
and passes over a listener it does not see.

Removing the PID file and the end of the process are two steps (`RemovePID`,
`Exit`), as is everything between a start's look at the PID file and its child's
writing of it: daemon.Start returns when the child is launched (daemon.go:81-88),
so even a start that comes after the first has returned can find nothing
(main.go:74). Nothing in the model keeps starts apart. `races` counts those that
found nothing while another daemon was on its way up or out, and both then come up:
the second overwrites the first one's PID and unlinks its socket. `OneDaemon`
and `Findable` say that this is the only way to two daemons or to a lost file.

IsRunning is one step. PIDs are not reused. IsRunning removes no stale PID
file: `_ = RemovePID` (daemon.go:56) names the function without calling it.
`reload` acknowledges and does nothing, because its callback is a TODO
(main.go:317).

## The runs

| Run | Instance | Shows |
|---|---|---|
| `broker_safety` | two publishers, two events each, one SSE stream, one forwarder, capacity 1 | `NoPanic`, `FeedOrdered`, `IsFanOut` |
| `broker_live` | one reader of each kind, one publisher, two events, capacity 1 | `PublishCompletes`, `DeadClientReaped` |
| `pipeline` | two lines, two texts, three rules (one invalid, one with a level and a cooldown), capacities 1, time up to 2, one pushed alert | the nine properties of `Pipeline` |
| `watcher` | a line and a half in parts, three inodes, one truncation, one refused call | `ForwardedOnce`, `ReadsWithoutGaps`, `LinesNotGlued`, `FollowsFile` |
| `watcher_rename` | one line, one rename | violation of `RenameLosesNothing` |
| `pipe` | three lines, two of which raise an alert, room for one everywhere, batches of two | `ForwardedInOrder`, `FlushedWhenDone`, `Ends` |
| `pipe_missed` | one line that raises an alert, stages that finish within the sleep | violation of `NothingMissed` |
| `alerting` | twelve lines of every format (JSON with up to four keys, none, one or two levels and messages), four configurations (ports 465, 25 and the default, with and without a password, two recipients, nothing configured), up to two alerts | `OrderIrrelevant`, `ValuesKept`, `FiltersAgree`, `EncryptedFirst`, `SessionsClosed`, `CopiesAgree`, `IsDelivery` |
| `daemon_files` | two starts, a run, two stops, one crash | `OneDaemon`, `Findable` |
| `daemon_live` | two starts, a stop, a status, one crash | `GetsSocket`, `StopIsObeyed`, `RequestsEnd` |
| `daemon_stop` | one daemon, two stops | violation of `GracefulStop` |
| `daemon_run` | one daemon, one run, a status | violation of `StatusHonest` |

### Bounds, and why they are enough

* Capacity 1 makes every channel full after one item, so backpressure and
  dropping happen in most behaviours. Each publisher's second event can meet a
  full channel; overlapping broadcasts need two publishers.
* Two lines are enough for one to be ahead of the other in every stage. Two
  texts are enough for a level filter to let one through and not the other.
  The cooldown is 2 and the clock goes from 0 to 2, so the second line can
  come before the cooldown ends and exactly at its end; what is later than
  that is no different from its end.
* One pushed alert, so that the counter has both writers in the middle of
  their two steps.
* Three units, which are a line and a half: the smallest file in which a piece
  can hold half a line, a line and a half, or parts of two lines. Three inodes
  give two rotations, so that a second one can happen before the first was
  noticed. One refused call, at any of the places where one can be.
* Four keys of a JSON object: two levels and two messages in all 24 orders.
  Two recipients, so that one can be refused after the other was accepted. Two
  alerts with every output between them, so that a failure has something to
  come before and after. A configuration with everything, one with nothing.
* Two daemons are enough for a dying one to meet a new one, and for two starts
  to race; two stops for the double close. One crash leaves both files behind.
  `daemon_files` uses the symmetry of the starts and of the stops (`Alike`),
  which no action and no invariant tells apart.

For safety the bounds do not matter in the end: every invariant and every
refinement that a run checks is also proved, for all values of the constants.
The runs found the invariants, and they are what stands behind the liveness
properties, for which the bounds above were chosen.

### Fairness

Goroutines that can run do run: weak fairness of each goroutine's steps.
Nothing is assumed of files, users or clients, who may never write, connect or
leave, or may stop reading for good. Three assumptions are worth naming:

* `Broker`: a write to a client that has gone returns (with an error); a write
  to a connected one need not. Nothing is assumed of a forwarder's POST.
* `Pipeline`: an output returns. The code sets no timeout on HTTP and SMTP, so
  a server that accepts and never answers stops the pipeline; and a broken
  stdout ends the process. Without the assumption `EveryAlertDispatched` is
  false.
* `Daemon`: a process's main goroutine, its Listen goroutine, and each
  connection progress on their own. Starting, stopping, signalling and
  crashing are not fair.

`Alerting` has no fairness. `Pipe` assumes nothing of the forwarders: `Ends`
holds although a daemon may never answer a POST, and nothing says that a
forwarder gets to the end of its channel before main ends the process.

## Findings

1. **A rename can lose lines** (`watcher_rename`). The package comment says
   that the tailer "transparently handles log rotation (rename and
   copytruncate strategies)" (watcher.go:2). After an end of file the tailer
   looks at the name; if it is gone, the old file is left without another
   read. A line written between the last read and the rename is never
   forwarded.
2. **Two stops panic the daemon** (`daemon_stop`). The stop callback is
   `close(quit)` (main.go:316), each connection has its own goroutine, and
   nothing keeps the second close from happening before main has left. The
   panic skips the removal of the socket and of the PID file. The next start
   recovers from what is left (`GetsSocket`).
3. **`run` takes a live daemon's socket away** (`daemon_run`). Listen removes
   whatever is at the path, "clean up stale socket" (server.go:51), and `run`
   does not look whether a daemon is up. Before the run listens, and again once
   it has ended, `status` says "logitcat is not running" while `start` says it
   is. In between the run answers in the daemon's place.
4. **Pipe mode does not wait for the alert forwarder** (`pipe_missed`). main
   subscribes both forwarders early "so no events are missed" (main.go:169)
   and waits for `forwardDone`, but only the log forwarder closes it. An alert
   that was broadcast in time can still be in the alert forwarder's hands when
   the process ends.

Five more disagreements with what a comment or a message says happen at one line of
code each, and are in the models without a run of their own: the integers and
the times of JSON lines (see `Parser` above), the history that is replayed after a
failed open and the file that is read again after a failed Stat (see `Watcher`),
and the two daemons that two starts can give although start refuses when one
"is already running" (see `Daemon`). The properties name these cases and hold of
everything else.

## The proofs

`tlapm M.tla` checks each of the eight modules `BrokerProofs`,
`PipelineProofs`, `EngineProofs`, `WatcherProofs`, `PipeProofs`,
`AlertingProofs`, `DaemonProofs` and `QueueLemmas`. Every theorem is of the
specification, without fairness, and so holds of all its behaviours.

### What is assumed

The theorems hold for all values of the constants that satisfy the named
assumptions, which say no more than that the constants are of their types:

* `BrokerAssumption`, `PipelineAssumption`, `PipeAssumption`: capacities and
  batch sizes are at least 1, and the bounds are natural numbers. Publishers,
  subscribers, rules, texts and actions may be any; an action's name is a string,
  a cooldown a natural number, `Valid` any subset of the rules.
* `WatcherAssumption`: any numbers of units, truncations and refused calls, at
  least one file.
* `DaemonAssumption`: starts and runs, and the two kinds of clients, are
  different. Starts may come at any time.
* `AlertingAssumption`: the rules and the recipients of each INI file have the
  types of config.go's structs. Lines, their parts and texts, patterns, ports
  and the numbers of rules, actions and recipients may be any.

### What is proved

| Theorem | Says |
|---|---|
| `BrokerProofs!TypeCorrect` | `Spec => []TypeOK`, with no channel above its capacity |
| `BrokerProofs!NeverPanics` | `Spec => []NoPanic` |
| `BrokerProofs!FeedsStayOrdered` | `Spec => []FeedOrdered` |
| `BrokerProofs!ImplementsFanOut` | `Spec => IsFanOut` |
| `PipelineProofs!TypeCorrect` | `Spec => []TypeOK`, with no channel above its capacity |
| `PipelineProofs!NothingIsLost` | `Spec => []NothingLost` |
| `EngineProofs!AlertsInOrder` | `Spec => []DispatchInOrder` |
| `EngineProofs!OutputsServed` | `Spec => []OutputsIndependent` |
| `EngineProofs!CooldownHolds` | `Spec => []CooldownRespected` |
| `EngineProofs!LogNearlyLevel` | `Spec => []LogOneBehind` |
| `EngineProofs!ImplementsEngine` | `Spec => IsEngine` |
| `WatcherProofs!TypeCorrect` | `Spec => []TypeOK` |
| `WatcherProofs!NothingTwice` | `Spec => []ForwardedOnce` |
| `WatcherProofs!NothingSkipped` | `Spec => []ReadsWithoutGaps` |
| `WatcherProofs!NothingGlued` | `Spec => []LinesNotGlued` |
| `PipeProofs!TypeCorrect` | `Spec => []TypeOK`, with no channel or batch above its size |
| `PipeProofs!ForwardingOrdered` | `Spec => []ForwardedInOrder` |
| `PipeProofs!FlushComplete` | `Spec => []FlushedWhenDone` |
| `AlertingProofs!AnyOrder` | `Spec => []OrderIrrelevant` |
| `AlertingProofs!NoValueLost` | `Spec => []ValuesKept` |
| `AlertingProofs!FiltersAlike` | `Spec => []FiltersAgree` |
| `AlertingProofs!AlwaysClosed` | `Spec => []SessionsClosed` |
| `AlertingProofs!AlwaysEncrypted` | `Spec => []EncryptedFirst` |
| `AlertingProofs!TypeCorrect` | `Spec => []TypeOK` |
| `AlertingProofs!CopiesAlike` | `Spec => []CopiesAgree` |
| `AlertingProofs!KeepsPromise` | `Spec => IsDelivery` |
| `DaemonProofs!TypeCorrect` | `Spec => []TypeOK` |
| `DaemonProofs!DaemonsKeptApart` | `Spec => []OneDaemon` |
| `DaemonProofs!DaemonsFindable` | `Spec => []Findable` |

### Why they hold: the brokers

* `NoPanic` is not inductive. `LockDiscipline` is: `subs` holds exactly the
  subscriptions that are live or leaving, a channel is closed exactly when its
  subscription is done, and every publisher's remaining loop `todo` is a part
  of `subs`. The last part needs the lock. A writer changes `subs` only when
  `readers` is empty, and a publisher outside the lock has nothing left to do.
  So a channel that is closed is in nobody's loop.
* `FeedOrdered` needs two more facts: what is in a feed from a publisher has a
  number of at most `seq`, and less than `seq` if the publisher has not yet
  settled that subscriber.
* `ImplementsFanOut` maps each step to a step or a stutter of `FanOut`:
  `Subscribe` is `Join`, `Unsubscribe` is `Leave` (with `active` empty because
  of the lock), `Offer` is `Settle`, `Receive` is `Read`.

### The pipeline

* `Pipeline`'s `TypeOK` is inductive with `ControlOK`, which says where each
  stage is when it holds something.
* `NothingLost` is inductive together with the types, the control facts and
  the count of the log stream (`Flow` in `PipelineProofs`). A step moves one
  item across one boundary, so the proof has one lemma for taking from the
  head of a channel and one for appending to its end. `LogOneBehind` follows
  from those counts, and from `Reached`: no alert is of a line that the rules
  have not been given.
* `DispatchInOrder` is inductive once it has the exact value of the code's
  counter, which runs ahead of the broadcast between `Count` and `Publish` and
  behind it by what handlers of pushed alerts have in hand, `pushing` (`Queued`).
* `CooldownRespected` is about pairs of alerts, but the code compares with
  `lastFired` only. `Clocked` says that no alert was armed after its rule's
  `lastFired`, nor in the future. `Due` says what the rule under test has
  established by each step: after `Test` all earlier alerts of the rule are a
  cooldown old, and, as time only grows, still are when `Arm` and `Stamp` read
  the clock again. So they are when the send is done at last.
* `ImplementsEngine` maps `Emit` to the arrival of a line, a `Test` that goes
  on to the next rule to `Pass`, `MatchSend` to `Fire`, `MatchDone` to
  `NextLine`, and what the other goroutines do to a stutter. `Fire` wants an
  arming time at which the rule was not cooling, which is `Due`. `Pass` wants a
  rule that does not match or is cooling. That needs `Accounted`: a `lastFired`
  that keeps a rule silent is the arming time of an alert that was raised, or
  that is being sent.

### The tailer

* `Typed` adds to the types what is true of the disk (`DiskOK`: units grow
  within a file and from one file to the next) and of the tailer's hands (the
  code's `offset`, the line in hand and the buffer make up the position).
* `ForwardedOnce` needs to know that whatever may still be read is later than
  everything seen. `Ahead` says so for each place the tailer can be at: for all
  later files while it reads, for the new file while it waits, and for a
  truncated file, which is shorter than the position, for all of it. `Ordered`
  keeps what was sent, the line in hand and the buffer in a row. A failed Stat
  sends the tailer back to what it has seen, so these facts are about what was
  sent from `since` on, of which there is nothing at that moment.
* `ReadsWithoutGaps` is inductive with `Sized`: without a truncation the
  position stays between the start and the file's size.
* `LinesNotGlued` needs `Unbroken`: without truncations a file holds
  consecutive units, and the buffer is the piece of it before the position. So
  what ReadString returns up to the first newline is of one line.

### Pipe mode

* `ForwardedInOrder` is inductive for each forwarder's three pieces in a row
  (`InLine`): what the daemon has, what is in the batch, what is in the channel.
* `FlushedWhenDone` is about the end only. `Accounted` says of every moment
  that each log line published up to the hang-up is at the daemon, in the batch,
  in the channel, or was dropped, and that nothing else is. When `forwardDone`
  is closed the batch and the channel are empty.

### Formats and outputs

* The three properties of the parser speak of complete entries. Their invariant
  is that of the loop in parseJSON (`Loop` in `AlertingProofs`), for the keys
  gone through so far: each value is a field unless its key was used up, at
  most one level key was, and all used up message keys but one were empty. The
  order of the loop does not occur in it.
* `FiltersAgree` rests on `SameOrder`, that the ranks of the two tables differ
  by a constant, and on the level of a complete entry being one of the five.
* `EncryptedFirst` is not inductive: it says nothing of the calls that are
  still to come. `Session` adds what is left of a script (`Orderly`): only its
  first call opens a connection, STARTTLS follows at once if that was a plain
  one, and the call before the last closes the message. `ScriptOrderly` shows
  this of what sendEmail begins with, for any port and list of recipients, and
  `TailOrderly` that a call which succeeds leaves an orderly rest.
* `CopiesAgree` compares every two copies. The invariant compares each with the
  alert (`IsCopy`), which the lemma `CopiesMade` shows of every formatter.
* `KeepsPromise` needs to know that a server which takes the mail has been
  given all recipients. Where a script's RCPT calls are is fixed (`Envelope`:
  the fourth call from the end and those before it), so how many have been
  named follows from how many calls are left (`Named`). An output in one step is
  `Settle`; so is the last step of a mail; the answer of the server that takes
  it is `Deliver`, and every other call a stutter. The alerts that `Match` makes
  are a sequence by `NthExists`, a pigeonhole argument over the library's
  theorems on finite sets.

### Daemons

* `OneDaemon` and `Findable` need each other, and hold together until two
  starts race (`Kept`; once `races` is not 0 it stays so, `RacedStays`). `Alone`:
  at most one process is between its look at the PID file and its end. That
  holds because the file names a daemon for as long as it is up (`PIDKept`), so
  the next start is refused, or else it finds nothing and counts as a race.
  `PIDKept` holds because the only process that removes or truncates the file is
  the one that is alone. `SocketKept` is the same for the socket, as long as
  nothing is run in the foreground.

### What the proofs changed

* `Watcher`'s `Init` let the file begin with two units whatever `MaxUnits`.
  With `MaxUnits < 2` the types would not hold at the start.
* `Alerting` used to select the rules with SelectSeq. That is a recursive
  definition, of which nothing could be proved. It counts them with sets now.

### Only model-checked

* All liveness: `PublishCompletes`, `DeadClientReaped`, `EveryLineDecided`,
  `EveryAlertDispatched`, `FollowsFile`, `Ends`, `GetsSocket`, `StopIsObeyed`,
  `RequestsEnd`. The prover cannot reason about ENABLED, and so about fairness.
* `RenameLosesNothing`, `NothingMissed`, `GracefulStop` and `StatusHonest`,
  which are false: their runs show the counterexamples.

Induction over data is out of reach, too, so hardly anything in the proved
modules recurses. Where the code loops over a list, the model takes one step
per element, or says the result with a function over the list's domain. The
exception is the SelectSeq with which `Config` drops the empty parts of a list:
that its result is a list of strings is a part of `AlertingAssumption`, which
TLC evaluates for the instance it checks.

## Not modelled

* `Broker.Close` and `forwardAlertsToDaemon`, which nothing calls.
* Argument parsing, printing, HTML, the wording of alerts, the JSON encoding
  of events, and the routes of the dashboard: straight-line code without state.
* The calendar: parseSyslogTime gives a line without a year the year of now.
* What an INI file and a regular expression are, and the outcomes of a POST in
  more detail than taken or not, answered or not.
* The start of the dashboard. `cmdPipe` looks for a running one once, and
  whoever binds the port second has none.
* The end of the process by SIGPIPE on a broken stdout (see `Outputs`).
* The end of `Watcher`'s and `Pipeline`'s goroutines: in the daemon they end
  with the process.

## Plan

The order was the brokers first (the code with the most goroutines), then the
pipeline, the watcher, the daemon and pipe mode, and then the content that
flows through them: formats, configuration and outputs. The proofs followed
the same order, and now cover every safety property. What is left:

1. What the liveness properties rest on and can be proved without fairness:
   measures that no step increases and each fair step decreases, for example
   the work left to a publisher inside the lock, or to the stages of a line.
2. What joins the modules: that what `Watcher` sends is what `Pipeline` takes,
   and that `Pipe`'s counters are the lengths of `Pipeline`'s streams.
3. The defaults of `Config`, stated as properties of their own.
4. The hazards without a property in `PROJECT.json`: each has a note that says
   what it would take.
