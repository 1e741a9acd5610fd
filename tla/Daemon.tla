------------------------------- MODULE Daemon -------------------------------
(***************************************************************************)
(* How logitcat processes come and go: cmdStart and cmdRun with the PID    *)
(* file of internal/daemon, the control socket of internal/control, and    *)
(* the clients that send commands to it.                                   *)
(*                                                                         *)
(* A process is launched by `start` (a daemon, after a look at the PID     *)
(* file) or by `run` (in the foreground, without one). Both serve the one  *)
(* control socket. PIDs are not reused. The tail command is in Broker.tla. *)
(***************************************************************************)
EXTENDS Naturals, FiniteSets

CONSTANTS
  Daemons,      \* the `start` commands that are issued, each with its process
  Runs,         \* the `run` commands
  StopClients, QueryClients,  \* commands sent to the socket: stop; status or reload
  MaxKills,     \* bound: processes killed without warning
  None          \* no process

Proc == Daemons \cup Runs
Client == StopClients \cup QueryClients

ASSUME DaemonAssumption ==
  /\ Daemons \cap Runs = {} /\ StopClients \cap QueryClients = {}
  /\ None \notin Proc /\ "empty" \notin Proc
  /\ MaxKills \in Nat

VARIABLES
  pidFile,   \* the PID in the PID file, "empty" once truncated, None if missing
  sockFile,  \* the process that made the file at the socket's path, or None
  at,        \* the main goroutine of each process
  listener,  \* the Listen goroutine of each process
  quit,      \* the processes whose quit channel is closed
  signalled, \* the processes that got SIGINT or SIGTERM
  panicked,  \* the processes that closed quit twice
  kills,
  races,     \* the starts that found nothing while another daemon was on its
             \* way up or out
  conn,      \* per client, the process it is connected to, or None
  handler,   \* per client, the goroutine that serves it
  reply      \* per client: "none", "waiting", "ok" or "failed"

files == <<pidFile, sockFile>>
clients == <<conn, handler, reply>>
vars == <<files, at, listener, quit, signalled, panicked, kills, races, clients>>

Init ==
  /\ pidFile = None /\ sockFile = None
  /\ at = [p \in Proc |-> "none"]
  /\ listener = [p \in Proc |-> "none"]
  /\ quit = {} /\ signalled = {} /\ panicked = {} /\ kills = 0 /\ races = 0
  /\ conn = [c \in Client |-> None]
  /\ handler = [c \in Client |-> "none"]
  /\ reply = [c \in Client |-> "none"]

Alive == {p \in Proc : at[p] \in {"boot", "pid", "up", "closing", "leaving", "gone"}}

\* The daemons whose PID is not in the PID file: not yet, or no more.
Unseen == {p \in Daemons : at[p] \in {"launch", "boot", "pid", "gone"}}

Goto(p, to) == at' = [at EXCEPT ![p] = to]

\* All the goroutines of a process end with it.
Die(p) ==
  /\ Goto(p, "dead")
  /\ listener' = [listener EXCEPT ![p] = "none"]
  /\ quit' = quit \ {p} /\ signalled' = signalled \ {p}
-----------------------------------------------------------------------------
(* Coming up *)

\* Mutant: no look at the PID file.
IsRunning_Never == FALSE

\* The PID that is read is 0 when the file is missing or still empty.
IsRunning == pidFile \in Alive

\* cmdStart looks first and launches later.
CheckRunning(p) ==
  /\ p \in Daemons /\ at[p] = "none"
  /\ Goto(p, IF IsRunning THEN "refused" ELSE "launch")
  /\ races' = IF ~IsRunning /\ Unseen # {} THEN races + 1 ELSE races
  /\ UNCHANGED <<files, listener, quit, signalled, panicked, kills, clients>>

\* daemon.Start, which does not wait for what becomes of the child; or `run`.
Launch(p) ==
  /\ IF p \in Daemons THEN at[p] = "launch" ELSE at[p] = "none"
  /\ Goto(p, "boot")
  /\ UNCHANGED <<files, listener, quit, signalled, panicked, kills, races, clients>>

\* The configuration does not load.
BootFails(p) ==
  /\ at[p] = "boot"
  /\ Die(p)
  /\ UNCHANGED <<files, panicked, kills, races, clients>>

\* os.WriteFile truncates, then writes.
TruncatePID(p) ==
  /\ p \in Daemons /\ at[p] = "boot"
  /\ pidFile' = "empty"
  /\ Goto(p, "pid")
  /\ UNCHANGED <<sockFile, listener, quit, signalled, panicked, kills, races, clients>>

WritePID(p) ==
  /\ at[p] = "pid"
  /\ pidFile' = p
  /\ Goto(p, "up")
  /\ listener' = [listener EXCEPT ![p] = "start"]
  /\ UNCHANGED <<sockFile, quit, signalled, panicked, kills, races, clients>>

\* Mutant: the PID is written in the foreground too.
RunUp_WritesPID(p) ==
  /\ p \in Runs /\ at[p] = "boot"
  /\ pidFile' = p
  /\ Goto(p, "up")
  /\ listener' = [listener EXCEPT ![p] = "start"]
  /\ UNCHANGED <<sockFile, quit, signalled, panicked, kills, races, clients>>

RunUp(p) ==
  /\ p \in Runs /\ at[p] = "boot"
  /\ Goto(p, "up")
  /\ listener' = [listener EXCEPT ![p] = "start"]
  /\ UNCHANGED <<files, quit, signalled, panicked, kills, races, clients>>
-----------------------------------------------------------------------------
(* Listen, a goroutine that goes on until the process ends *)

\* Mutant: the old socket is left where it is.
ListenRemove_Skipped(p) ==
  /\ p \in Alive /\ listener[p] = "start"
  /\ listener' = [listener EXCEPT ![p] = "removed"]
  /\ UNCHANGED <<files, at, quit, signalled, panicked, kills, races, clients>>

\* os.Remove, of the socket of whatever process.
ListenRemove(p) ==
  /\ p \in Alive /\ listener[p] = "start"
  /\ sockFile' = None
  /\ listener' = [listener EXCEPT ![p] = "removed"]
  /\ UNCHANGED <<pidFile, at, quit, signalled, panicked, kills, races, clients>>

\* net.Listen, which fails if the path was taken meanwhile; the error is logged.
ListenBind(p) ==
  /\ p \in Alive /\ listener[p] = "removed"
  /\ IF sockFile = None
     THEN sockFile' = p /\ listener' = [listener EXCEPT ![p] = "bound"]
     ELSE UNCHANGED sockFile /\ listener' = [listener EXCEPT ![p] = "failed"]
  /\ UNCHANGED <<pidFile, at, quit, signalled, panicked, kills, races, clients>>

\* s.listener is set, and main can see it: there is no lock around it.
ListenReady(p) ==
  /\ p \in Alive /\ listener[p] = "bound"
  /\ listener' = [listener EXCEPT ![p] = "accepting"]
  /\ UNCHANGED <<files, at, quit, signalled, panicked, kills, races, clients>>
-----------------------------------------------------------------------------
(* Clients and handlers *)

Dial(c) ==
  /\ reply[c] = "none"
  /\ IF sockFile \in Alive /\ listener[sockFile] \in {"bound", "accepting"}
     THEN /\ conn' = [conn EXCEPT ![c] = sockFile]
          /\ reply' = [reply EXCEPT ![c] = "waiting"]
     ELSE /\ reply' = [reply EXCEPT ![c] = "failed"]
          /\ UNCHANGED conn
  /\ UNCHANGED <<files, at, listener, quit, signalled, panicked, kills, races, handler>>

Accept(c) ==
  /\ conn[c] \in Alive /\ handler[c] = "none"
  /\ listener[conn[c]] = "accepting"
  /\ handler' = [handler EXCEPT ![c] = "accepted"]
  /\ UNCHANGED <<files, at, listener, quit, signalled, panicked, kills, races, conn, reply>>

\* Mutant: a command without an answer, its connection left open.
Respond_StopOnly(c) ==
  /\ conn[c] \in Alive /\ handler[c] = "accepted"
  /\ c \in StopClients
  /\ reply' = [reply EXCEPT ![c] = "ok"]
  /\ handler' = [handler EXCEPT ![c] = "stopping"]
  /\ UNCHANGED <<files, at, listener, quit, signalled, panicked, kills, races, conn>>

\* handleStatus, handleReload (whose callback does nothing), and handleStop up
\* to the acknowledgement.
Respond(c) ==
  /\ conn[c] \in Alive /\ handler[c] = "accepted"
  /\ reply' = [reply EXCEPT ![c] = "ok"]
  /\ handler' = [handler EXCEPT ![c] = IF c \in StopClients THEN "stopping" ELSE "done"]
  /\ UNCHANGED <<files, at, listener, quit, signalled, panicked, kills, races, conn>>

\* stopFn: close(quit). Closing it again panics, and that ends the process.
StopFn(c) ==
  /\ conn[c] \in Alive /\ handler[c] = "stopping"
  /\ handler' = [handler EXCEPT ![c] = "done"]
  /\ IF conn[c] \in quit
     THEN Die(conn[c]) /\ panicked' = panicked \cup {conn[c]}
     ELSE quit' = quit \cup {conn[c]} /\ UNCHANGED <<at, listener, signalled, panicked>>
  /\ UNCHANGED <<files, kills, races, conn, reply>>

\* The connection is reset: the process is gone, or no longer accepts.
ConnLost(c) ==
  /\ reply[c] = "waiting"
  /\ \/ conn[c] \notin Alive
     \/ handler[c] = "none" /\ listener[conn[c]] = "closed"
  /\ reply' = [reply EXCEPT ![c] = "failed"]
  /\ UNCHANGED <<files, at, listener, quit, signalled, panicked, kills, races, conn, handler>>
-----------------------------------------------------------------------------
(* Going down *)

Signal(p) ==
  /\ at[p] = "up" /\ p \notin signalled
  /\ signalled' = signalled \cup {p}
  /\ UNCHANGED <<files, at, listener, quit, panicked, kills, races, clients>>

\* Mutant: the PID file is removed before the socket is closed.
Shutdown_RemovesPID(p) ==
  /\ at[p] = "up" /\ p \in quit \cup signalled
  /\ pidFile' = IF p \in Daemons THEN None ELSE pidFile
  /\ Goto(p, "closing")
  /\ UNCHANGED <<sockFile, listener, quit, signalled, panicked, kills, races, clients>>

\* Mutant: the select without its quit case.
Shutdown_OnSignal(p) ==
  /\ at[p] = "up" /\ p \in signalled
  /\ Goto(p, "closing")
  /\ UNCHANGED <<files, listener, quit, signalled, panicked, kills, races, clients>>

Shutdown(p) ==
  /\ at[p] = "up" /\ p \in quit \cup signalled
  /\ Goto(p, "closing")
  /\ UNCHANGED <<files, listener, quit, signalled, panicked, kills, races, clients>>

\* srv.Close: closing a listener also unlinks its path, whoever's it is now. A
\* listener that is not there yet is passed over.
CloseServer(p) ==
  /\ at[p] = "closing"
  /\ IF listener[p] = "accepting"
     THEN listener' = [listener EXCEPT ![p] = "closed"] /\ sockFile' = None
     ELSE UNCHANGED <<listener, sockFile>>
  /\ Goto(p, "leaving")
  /\ UNCHANGED <<pidFile, quit, signalled, panicked, kills, races, clients>>

\* The deferred RemovePID, of whatever process's PID.
RemovePID(p) ==
  /\ p \in Daemons /\ at[p] = "leaving"
  /\ pidFile' = None
  /\ Goto(p, "gone")
  /\ UNCHANGED <<sockFile, listener, quit, signalled, panicked, kills, races, clients>>

\* main returns; up to here the other goroutines go on.
Exit(p) ==
  /\ at[p] = IF p \in Daemons THEN "gone" ELSE "leaving"
  /\ Die(p)
  /\ UNCHANGED <<files, panicked, kills, races, clients>>

\* A crash, SIGKILL, or a signal before signal.Notify.
Kill(p) ==
  /\ p \in Alive /\ kills < MaxKills
  /\ kills' = kills + 1
  /\ Die(p)
  /\ UNCHANGED <<files, panicked, races, clients>>
-----------------------------------------------------------------------------
\* What a process does of itself.
Progress(p) ==
  \/ TruncatePID(p) \/ WritePID(p) \/ RunUp(p)
  \/ Shutdown(p) \/ CloseServer(p) \/ RemovePID(p) \/ Exit(p)

Listening(p) == ListenRemove(p) \/ ListenBind(p) \/ ListenReady(p)

Serving(c) == Accept(c) \/ Respond(c) \/ StopFn(c) \/ ConnLost(c)

\* Nothing is left to happen.
Quiet ==
  /\ \A p \in Proc : at[p] \in {"refused", "dead"}
  /\ \A c \in Client : reply[c] \in {"ok", "failed"}
  /\ UNCHANGED vars

Next ==
  \/ \E p \in Proc :
       \/ CheckRunning(p) \/ Launch(p) \/ BootFails(p) \/ Signal(p) \/ Kill(p)
       \/ Progress(p) \/ Listening(p)
  \/ \E c \in Client : Dial(c) \/ Serving(c)
  \/ Quiet

Spec == Init /\ [][Next]_vars

\* Goroutines run and kernels deliver; nobody has to start, stop or kill.
FairSpec ==
  /\ Spec
  /\ \A p \in Proc : WF_vars(Progress(p)) /\ WF_vars(Listening(p))
  /\ \A c \in Client : WF_vars(Serving(c))
-----------------------------------------------------------------------------
(* Properties *)

TypeOK ==
  /\ pidFile \in Daemons \cup {None, "empty"}
  /\ sockFile \in Proc \cup {None}
  /\ at \in [Proc -> {"none", "refused", "launch", "boot", "pid", "up", "closing", "leaving",
                  "gone", "dead"}]
  /\ listener \in [Proc -> {"none", "start", "removed", "bound", "failed", "accepting", "closed"}]
  /\ quit \subseteq Proc /\ signalled \subseteq Proc /\ panicked \subseteq Proc
  /\ kills \in 0..MaxKills /\ races \in Nat
  /\ conn \in [Client -> Proc \cup {None}]
  /\ handler \in [Client -> {"none", "accepted", "stopping", "done"}]
  /\ reply \in [Client -> {"none", "waiting", "ok", "failed"}]

\* The PID file keeps daemons apart, through crashes, panics and restarts, and
\* whatever is run in the foreground: two are alive together only when a `start`
\* looked before another daemon wrote its PID, or after it removed it.
OneDaemon == races = 0 => Cardinality(Daemons \cap Alive) <= 1

NoRuns == \A r \in Runs : at[r] = "none"

\* Unless that happened, the PID of a daemon is in the PID file while it is up,
\* and, if nothing is run in the foreground, the socket is its own from the bind
\* on until it closes it. No dead or dying daemon takes either away.
Findable ==
  races = 0 =>
  \A p \in Daemons \cap Alive :
    /\ at[p] \in {"up", "closing", "leaving"} => pidFile = p
    /\ NoRuns /\ listener[p] \in {"bound", "accepting"} => sockFile = p

\* If no two starts raced, a daemon that is up gets its socket, whatever an
\* earlier one left there, unless it ends first.
GetsSocket ==
  \A p \in Daemons :
    at[p] = "up" ~> (sockFile = p \/ at[p] = "dead" \/ ~NoRuns \/ races # 0)

\* A stop that was acknowledged ends the process that acknowledged it, even
\* when others stop or kill it too.
StopIsObeyed ==
  \A c \in StopClients :
    reply[c] = "ok" ~> conn[c] # None /\ at[conn[c]] = "dead"

\* No client waits for ever for its answer.
RequestsEnd == \A c \in Client : reply[c] = "waiting" ~> reply[c] \in {"ok", "failed"}

\* What the client's comment says of stop: it is a graceful shutdown, with the
\* files removed and no panic, whoever else sends the same command.
GracefulStop == panicked = {}

\* What status says: "not running" when it cannot connect, which is to mean
\* that no daemon is up with its socket open.
StatusHonest ==
  [][ \A c \in QueryClients : reply[c] = "none" /\ reply'[c] = "failed" =>
        \A p \in Daemons : at[p] = "up" => listener[p] \notin {"bound", "accepting"} ]_vars
=============================================================================
