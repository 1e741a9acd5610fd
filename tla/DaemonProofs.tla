---------------------------- MODULE DaemonProofs ----------------------------
(***************************************************************************)
(* Theorems about Daemon, for any number of starts, foreground runs,       *)
(* clients and crashes.                                                    *)
(***************************************************************************)
EXTENDS Daemon, FiniteSetTheorems, TLAPS

\* Between the look at the PID file and the end of the process.
InProgress ==
  {p \in Daemons : at[p] \in {"launch", "boot", "pid", "up", "closing", "leaving", "gone"}}

\* Where the PID of a daemon is in its file.
Up == {"up", "closing", "leaving"}

\* What is true of a process by its place in its life.
Stages ==
  \A p \in Proc :
    /\ at[p] \in {"refused", "launch", "pid", "gone"} => p \in Daemons
    /\ at[p] \notin Up \cup {"gone"} => listener[p] = "none"

\* The part of Findable about the PID file.
PIDKept == \A p \in Daemons : at[p] \in Up => pidFile = p

Alone == \A p, q \in InProgress : p = q

\* The part of Findable about the socket.
SocketKept ==
  NoRuns => \A p \in Daemons : listener[p] \in {"bound", "accepting"} => sockFile = p

Shape == TypeOK /\ Stages

Lonely == Alone /\ PIDKept

Kept == races # 0 \/ (Lonely /\ SocketKept)
-----------------------------------------------------------------------------
(* The types *)

\* With no process and no file the types are right.
LEMMA ShapeInit == Init => Shape
BY DaemonAssumption DEF Init, Shape, TypeOK, Stages, Up, Proc

\* The end of a process keeps the types.
LEMMA DieShape ==
  ASSUME TypeOK, Stages, NEW p \in Proc, Die(p)
  PROVE  /\ at' \in [Proc -> {"none", "refused", "launch", "boot", "pid", "up",
                               "closing", "leaving", "gone", "dead"}]
         /\ listener' \in [Proc -> {"none", "start", "removed", "bound", "failed",
                                    "accepting", "closed"}]
         /\ quit' \subseteq Proc /\ signalled' \subseteq Proc
         /\ Stages'
BY DEF Die, Goto, TypeOK, Stages, Up

\* No step of a process, goroutine, client or file breaks the types or the stages.
LEMMA ShapeStep == Shape /\ [Next]_vars => Shape'
<1> SUFFICES ASSUME TypeOK, Stages, [Next]_vars PROVE TypeOK' /\ Stages'
  BY DEF Shape
<1> USE DaemonAssumption DEF vars, files, clients
<1>1. ASSUME NEW p \in Proc, CheckRunning(p) \/ Launch(p) PROVE TypeOK' /\ Stages'
  BY <1>1 DEF CheckRunning, Launch, Goto, TypeOK, Stages, Up, Proc
<1>2. ASSUME NEW p \in Proc, BootFails(p) \/ Kill(p) \/ Exit(p) PROVE TypeOK' /\ Stages'
  <2>1. Die(p) /\ UNCHANGED <<files, panicked, races, clients>> /\ kills' \in 0..MaxKills
    BY <1>2 DEF BootFails, Kill, Exit, TypeOK
  <2> QED
    BY <2>1, DieShape DEF TypeOK
<1>3. ASSUME NEW p \in Proc, Signal(p) PROVE TypeOK' /\ Stages'
  BY <1>3 DEF Signal, TypeOK, Stages
<1>4. ASSUME NEW p \in Proc, TruncatePID(p) \/ WritePID(p) \/ RunUp(p) PROVE TypeOK' /\ Stages'
  BY <1>4 DEF TruncatePID, WritePID, RunUp, Goto, TypeOK, Stages, Up, Proc
<1>5. ASSUME NEW p \in Proc, Shutdown(p) \/ CloseServer(p) PROVE TypeOK' /\ Stages'
  BY <1>5 DEF Shutdown, CloseServer, Goto, TypeOK, Stages, Up, Proc
<1>6. ASSUME NEW p \in Proc, RemovePID(p) PROVE TypeOK' /\ Stages'
  BY <1>6 DEF RemovePID, Goto, TypeOK, Stages, Up, Proc
<1>7. ASSUME NEW p \in Proc, Listening(p) PROVE TypeOK' /\ Stages'
  BY <1>7 DEF Listening, ListenRemove, ListenBind, ListenReady, Alive, TypeOK, Stages, Up, Proc
<1>8. ASSUME NEW c \in Client, Dial(c) \/ Accept(c) \/ Respond(c) \/ ConnLost(c)
      PROVE  TypeOK' /\ Stages'
  BY <1>8 DEF Dial, Accept, Respond, ConnLost, Alive, TypeOK, Stages
<1>9. ASSUME NEW c \in Client, StopFn(c) PROVE TypeOK' /\ Stages'
  <2>1. conn[c] \in Proc
    BY <1>9 DEF StopFn, Alive
  <2>2. handler' \in [Client -> {"none", "accepted", "stopping", "done"}]
        /\ UNCHANGED <<files, kills, races, conn, reply>>
    BY <1>9 DEF StopFn, TypeOK
  <2>3. CASE Die(conn[c]) /\ panicked' = panicked \cup {conn[c]}
    BY <2>1, <2>2, <2>3, DieShape DEF TypeOK
  <2>4. CASE quit' = quit \cup {conn[c]} /\ UNCHANGED <<at, listener, signalled, panicked>>
    BY <2>1, <2>2, <2>4 DEF TypeOK, Stages
  <2> QED
    BY <1>9, <2>3, <2>4 DEF StopFn
<1>10. ASSUME UNCHANGED vars PROVE TypeOK' /\ Stages'
  BY <1>10 DEF TypeOK, Stages
<1> QED
  BY <1>1, <1>2, <1>3, <1>4, <1>5, <1>6, <1>7, <1>8, <1>9, <1>10
     DEF Next, Progress, Serving, Quiet

\* Types and stages hold always, for whatever starts and kills there are.
LEMMA AlwaysShape == Spec => []Shape
BY ShapeInit, ShapeStep, PTL DEF Spec

\* The files, processes, goroutines and connections are in states that the
\* code knows, through every interleaving, crash and panic.
THEOREM TypeCorrect == Spec => []TypeOK
<1>1. Shape => TypeOK
  BY DEF Shape
<1> QED
  BY <1>1, AlwaysShape, PTL
-----------------------------------------------------------------------------
(* One daemon, while no start races another *)

\* Before the first start there is no daemon to share with.
LEMMA LonelyInit == Init => Lonely /\ SocketKept
BY DEF Init, Lonely, Alone, InProgress, PIDKept, Up, NoRuns, SocketKept, Proc

\* A race is never forgotten.
LEMMA RacedStays ==
  ASSUME TypeOK, [Next]_vars, races # 0
  PROVE  races' # 0
BY DEF TypeOK, vars, Next, CheckRunning, Launch, BootFails, Signal, Kill, Progress, TruncatePID,
   WritePID, RunUp, Shutdown, CloseServer, RemovePID, Exit, Listening, ListenRemove,
   ListenBind, ListenReady, Dial, Serving, Accept, Respond, StopFn, ConnLost, Quiet

\* A process that ends leaves the others where they are.
LEMMA DieLonely ==
  ASSUME TypeOK, Lonely, NEW p \in Proc, Die(p), pidFile' = pidFile
  PROVE  Lonely'
<1>1. InProgress' \subseteq InProgress
  BY DEF Die, Goto, InProgress, TypeOK, Proc
<1>2. Alone'
  BY <1>1 DEF Lonely, Alone
<1>3. PIDKept'
  BY DEF Die, Goto, Up, TypeOK, Proc, Lonely, PIDKept
<1> QED
  BY <1>2, <1>3 DEF Lonely

\* Steps that leave the main goroutines and the PID file alone.
LEMMA LonelyStutter ==
  ASSUME Lonely, UNCHANGED <<at, pidFile>>
  PROVE  Lonely'
BY DEF Lonely, Alone, InProgress, PIDKept

\* The look at the PID file is enough to keep daemons apart as long as no start
\* looks when another daemon is on its way up or out: one that is up has its PID
\* there.
LEMMA LonelyStep ==
  ASSUME races' = 0, TypeOK, Stages, Lonely, [Next]_vars
  PROVE  Lonely'
<1> USE DaemonAssumption DEF vars, files, clients
<1>1. ASSUME NEW p \in Proc, CheckRunning(p) PROVE Lonely'
  <2>1. /\ p \in Daemons /\ at[p] = "none" /\ pidFile' = pidFile
        /\ races' = IF ~IsRunning /\ Unseen # {} THEN races + 1 ELSE races
        /\ at' = [at EXCEPT ![p] = IF IsRunning THEN "refused" ELSE "launch"]
    BY <1>1 DEF CheckRunning, Goto
  <2>2. IsRunning \/ Unseen = {}
    <3>1. races \in Nat
      BY DEF TypeOK
    <3> QED
      BY <2>1, <3>1
  <2>3. CASE IsRunning
    BY <2>1, <2>3 DEF Lonely, Alone, InProgress, PIDKept, Up, TypeOK, Proc
  <2>4. CASE ~IsRunning
    <3>1. InProgress = {}
      <4> SUFFICES ASSUME NEW q \in InProgress PROVE FALSE
        OBVIOUS
      <4>1. q \in Daemons /\ at[q] \in Up
        BY <2>1, <2>4, <2>2 DEF InProgress, Unseen, Up
      <4>2. pidFile = q
        BY <4>1 DEF Lonely, PIDKept
      <4> QED
        BY <2>4, <4>1, <4>2 DEF IsRunning, Alive, Up, Proc
    <3>2. \A q \in Daemons : at[q] \notin Up
      BY <3>1 DEF InProgress, Up
    <3>3. InProgress' = {p}
      BY <2>1, <2>4, <3>1 DEF InProgress, TypeOK, Proc
    <3>4. PIDKept'
      BY <2>1, <2>4, <3>2 DEF PIDKept, Up, TypeOK, Proc
    <3> QED
      BY <3>3, <3>4 DEF Lonely, Alone
  <2> QED
    BY <2>3, <2>4
<1>2. ASSUME NEW p \in Proc, Launch(p) PROVE Lonely'
  BY <1>2 DEF Launch, Goto, Lonely, Alone, InProgress, PIDKept, Up, TypeOK, Proc
<1>3. ASSUME NEW p \in Proc, BootFails(p) \/ Kill(p) \/ Exit(p) PROVE Lonely'
  BY <1>3, DieLonely DEF BootFails, Kill, Exit
<1>4. ASSUME NEW p \in Proc, RemovePID(p) PROVE Lonely'
  <2>1. p \in InProgress /\ at' = [at EXCEPT ![p] = "gone"]
    BY <1>4 DEF RemovePID, Goto, InProgress
  <2>2. InProgress' \subseteq InProgress
    BY <2>1 DEF InProgress, TypeOK, Proc
  <2>3. PIDKept'
    BY <2>1 DEF Lonely, Alone, InProgress, PIDKept, Up, TypeOK, Proc
  <2> QED
    BY <2>2, <2>3 DEF Lonely, Alone
<1>5. ASSUME NEW p \in Proc, TruncatePID(p) \/ WritePID(p) PROVE Lonely'
  <2>1. /\ p \in InProgress /\ at[p] \in {"boot", "pid"}
        /\ \/ at' = [at EXCEPT ![p] = "pid"]
           \/ at' = [at EXCEPT ![p] = "up"] /\ pidFile' = p
    BY <1>5 DEF TruncatePID, WritePID, Goto, InProgress, Stages
  <2>2. \A q \in Daemons : at[q] \notin Up
    BY <2>1 DEF Lonely, Alone, InProgress, Up
  <2>3. InProgress' \subseteq InProgress
    BY <2>1 DEF InProgress, TypeOK, Proc
  <2>4. PIDKept'
    BY <2>1, <2>2 DEF PIDKept, Up, TypeOK, Proc
  <2> QED
    BY <2>3, <2>4 DEF Lonely, Alone
<1>6. ASSUME NEW p \in Proc, RunUp(p) PROVE Lonely'
  BY <1>6 DEF RunUp, Goto, Lonely, Alone, InProgress, PIDKept, Up, TypeOK, Proc
<1>7. ASSUME NEW p \in Proc, Shutdown(p) \/ CloseServer(p) PROVE Lonely'
  BY <1>7 DEF Shutdown, CloseServer, Goto, Lonely, Alone, InProgress, PIDKept, Up, TypeOK, Proc
<1>8. ASSUME NEW c \in Client, StopFn(c) PROVE Lonely'
  <2>1. conn[c] \in Proc /\ pidFile' = pidFile
    BY <1>8 DEF StopFn, Alive
  <2> QED
    BY <1>8, <2>1, DieLonely, LonelyStutter DEF StopFn
<1>9. ASSUME NEW p \in Proc, Signal(p) \/ Listening(p) PROVE Lonely'
  BY <1>9, LonelyStutter DEF Signal, Listening, ListenRemove, ListenBind, ListenReady
<1>10. ASSUME NEW c \in Client, Dial(c) \/ Accept(c) \/ Respond(c) \/ ConnLost(c) PROVE Lonely'
  BY <1>10, LonelyStutter DEF Dial, Accept, Respond, ConnLost
<1>11. ASSUME UNCHANGED vars PROVE Lonely'
  BY <1>11, LonelyStutter
<1> QED
  BY <1>1, <1>2, <1>3, <1>4, <1>5, <1>6, <1>7, <1>8, <1>9, <1>10, <1>11
     DEF Next, Progress, Serving, Quiet

\* A `run` that was issued stays issued.
LEMMA RunsStay ==
  ASSUME TypeOK, [Next]_vars, NoRuns'
  PROVE  NoRuns
<1> SUFFICES ASSUME NEW r \in Runs, at[r] # "none" PROVE at'[r] # "none"
  BY DEF NoRuns
<1> QED
  BY DaemonAssumption DEF TypeOK, vars, Next, CheckRunning, Launch, BootFails, Signal, Kill, Progress, TruncatePID,
     WritePID, RunUp, Shutdown, CloseServer, RemovePID, Exit, Listening, ListenRemove,
     ListenBind, ListenReady, Dial, Serving, Accept, Respond, StopFn, ConnLost, Quiet, Die, Goto, Proc

\* A step in which a daemon's goroutine touches the socket is that daemon's own.
LEMMA SocketStep ==
  ASSUME TypeOK, Stages, Lonely, SocketKept, [Next]_vars
  PROVE  SocketKept'
<1> USE DaemonAssumption DEF vars, files, clients
<1> SUFFICES ASSUME NoRuns', NEW d \in Daemons, listener'[d] \in {"bound", "accepting"}
             PROVE  sockFile' = d
  BY DEF SocketKept
<1> d \in Proc
  BY DEF Proc
<1>0. NoRuns
  BY RunsStay
<1>1. ASSUME UNCHANGED sockFile, listener[d] \in {"bound", "accepting"} PROVE sockFile' = d
  BY <1>0, <1>1 DEF SocketKept
<1>2. ASSUME NEW p \in Proc, listener[p] # "none" PROVE p \in InProgress
  <2>1. at[p] \in Up \cup {"gone"}
    BY <1>2 DEF Stages
  <2>2. p \in Daemons
    BY <1>0, <2>1 DEF NoRuns, Proc, Up
  <2> QED
    BY <2>1, <2>2 DEF InProgress, Up
<1>3. ASSUME NEW p \in Proc, listener[p] # "none", listener[d] # "none" PROVE p = d
  BY <1>2, <1>3 DEF Lonely, Alone
<1>4. ASSUME NEW p \in Proc, ListenRemove(p) PROVE sockFile' = d
  BY <1>3, <1>4 DEF ListenRemove, TypeOK
<1>5. ASSUME NEW p \in Proc, ListenBind(p) PROVE sockFile' = d
  BY <1>1, <1>3, <1>5 DEF ListenBind, TypeOK
<1>6. ASSUME NEW p \in Proc, ListenReady(p) PROVE sockFile' = d
  BY <1>1, <1>6 DEF ListenReady, TypeOK
<1>7. ASSUME NEW p \in Proc, CloseServer(p) PROVE sockFile' = d
  BY <1>1, <1>3, <1>7 DEF CloseServer, TypeOK
<1>8. ASSUME NEW p \in Proc, Die(p), UNCHANGED sockFile PROVE sockFile' = d
  BY <1>1, <1>8 DEF Die, TypeOK
<1>9. ASSUME NEW p \in Proc, BootFails(p) \/ Kill(p) \/ Exit(p) PROVE sockFile' = d
  BY <1>8, <1>9 DEF BootFails, Kill, Exit
<1>10. ASSUME NEW p \in Proc, WritePID(p) \/ RunUp(p) PROVE sockFile' = d
  BY <1>1, <1>10 DEF WritePID, RunUp, TypeOK
<1>11. ASSUME NEW p \in Proc,
              CheckRunning(p) \/ Launch(p) \/ Signal(p) \/ TruncatePID(p) \/ Shutdown(p)
              \/ RemovePID(p)
       PROVE  sockFile' = d
  BY <1>1, <1>11 DEF CheckRunning, Launch, Signal, TruncatePID, Shutdown, RemovePID
<1>12. ASSUME NEW c \in Client, StopFn(c) PROVE sockFile' = d
  <2>1. conn[c] \in Proc /\ UNCHANGED sockFile
    BY <1>12 DEF StopFn, Alive
  <2> QED
    BY <1>1, <1>8, <1>12, <2>1 DEF StopFn
<1>13. ASSUME NEW c \in Client, Dial(c) \/ Accept(c) \/ Respond(c) \/ ConnLost(c)
       PROVE  sockFile' = d
  BY <1>1, <1>13 DEF Dial, Accept, Respond, ConnLost
<1>14. ASSUME UNCHANGED vars PROVE sockFile' = d
  BY <1>1, <1>14
<1> QED
  BY <1>4, <1>5, <1>6, <1>7, <1>9, <1>10, <1>11, <1>12, <1>13, <1>14
     DEF Next, Progress, Listening, Serving, Quiet

\* Until two starts race, a daemon is alone and its files are its own.
LEMMA AlwaysKept == Spec => [](Shape /\ Kept)
<1>1. Init => Shape /\ Kept
  BY ShapeInit, LonelyInit DEF Kept
<1>2. Shape /\ Kept /\ [Next]_vars => Shape' /\ Kept'
  BY ShapeStep, RacedStays, LonelyStep, SocketStep DEF Shape, Kept
<1> QED
  BY <1>1, <1>2, PTL DEF Spec

\* Two daemons are never alive together, whatever is killed, stopped, restarted
\* or run in the foreground, unless a start looked at the PID file before another
\* daemon wrote it, or after it removed it.
THEOREM DaemonsKeptApart == Spec => []OneDaemon
<1>1. Lonely => Cardinality(Daemons \cap Alive) <= 1
  <2> SUFFICES ASSUME Lonely PROVE Cardinality(Daemons \cap Alive) <= 1
    OBVIOUS
  <2>1. \A p, q \in Daemons \cap Alive : p = q
    BY DEF Lonely, Alone, InProgress, Alive
  <2>2. CASE Daemons \cap Alive = {}
    BY <2>2, FS_EmptySet
  <2>3. CASE Daemons \cap Alive # {}
    <3>1. PICK p : p \in Daemons \cap Alive
      BY <2>3
    <3>2. Daemons \cap Alive = {p}
      BY <2>1, <3>1
    <3>3. Cardinality({p}) = 1
      BY FS_Singleton
    <3> QED
      BY <3>2, <3>3
  <2> QED
    BY <2>2, <2>3
<1>2. Kept => OneDaemon
  BY <1>1 DEF Kept, OneDaemon
<1> QED
  BY <1>2, AlwaysKept, PTL

\* Unless two starts raced so, the PID file names the daemon for as long as it is
\* up, and the socket is its own from the bind to the close: no other process,
\* dead, dying or refused, takes either away.
THEOREM DaemonsFindable == Spec => []Findable
<1>1. Kept => Findable
  BY DEF Kept, Findable, Lonely, PIDKept, SocketKept, Up
<1> QED
  BY <1>1, AlwaysKept, PTL
=============================================================================
