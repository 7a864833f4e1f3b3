-------------------------------- MODULE Worker --------------------------------
(***************************************************************************)
(* Worker processes (lib/worker.js): a Worker is a ReqSocket (DirectReq)   *)
(* and the child process it talks to.  startWorker, the child's `exit'     *)
(* event, kill, destroy, send, and the URL of the process.                 *)
(*                                                                         *)
(* Whatever destroys the socket, the end of the stream from a dead child   *)
(* too, calls Worker.destroy, which calls kill.                            *)
(***************************************************************************)
EXTENDS DirectReq

CONSTANTS
  Options,  \* what spawn() may be given: a subset of {"none", "keepalive", "join"}
  MaxPid    \* bound: processes that are started

ASSUME WorkerAssumption ==
  /\ Options \subseteq {"none", "keepalive", "join"}
  /\ MaxPid \in Nat \ {0}

VARIABLES
  option,    \* _options
  pid,       \* the pid, which counts the processes
  proc,      \* "running", "dead" (`exit' is due), "none"
  listening, \* the child's standard channel listens at its URL
  killsig,   \* _killsig is set
  restart,   \* nextTick(startWorker) is due
  exitdue,   \* nextTick(emit `exit') is due
  target,    \* the pid in the URL the socket connects to
  \* history
  exits,     \* `exit' events
  joined     \* process.exit was called: the process ends with its child's code

workerVars == <<option, pid, proc, listening, killsig, restart, exitdue,
                exits, joined>>
vars == <<reqVars, respVars, wires, target, workerVars>>

\* Every variable keeps its type; a `restart' is due only between processes.
TypeOK ==
  /\ DirectTypeOK
  /\ option \in Options /\ pid \in 1 .. MaxPid /\ target \in 0 .. MaxPid
  /\ proc \in {"running", "dead", "none"}
  /\ {listening, killsig, restart, exitdue, joined} \subseteq BOOLEAN
  /\ exits \in Nat
  /\ restart => proc = "none" /\ option = "keepalive"
  /\ listening => proc = "running"

\* spawn
Init ==
  /\ DirectInit
  /\ option \in Options
  /\ pid = 1 /\ proc = "running" /\ listening = FALSE
  /\ killsig = FALSE /\ restart = FALSE /\ exitdue = FALSE
  /\ target = 0 /\ exits = 0 /\ joined = FALSE

Up == ~down /\ ~joined

-----------------------------------------------------------------------------
\* Worker.destroy: kill, and ReqSocket.destroy.
Kills == killsig' = (killsig \/ (sock' = "destroyed" /\ sock # "destroyed"))

\* A step of the socket.
SocketStep(step) ==
  /\ Up /\ step /\ Kills
  /\ UNCHANGED <<target, option, pid, proc, listening, restart, exitdue, exits, joined>>

\* Worker.connect, to the URL of the current pid.  The socket may have been
\* destroyed before; it gets a new queue, and no new pool, and answers to what
\* came over the old connection have nowhere to go.
Connects ==
  /\ Up /\ sock \in {"closed", "destroyed"}
  /\ sock' = "connecting" /\ target' = pid
  /\ to' = <<>> /\ back' = <<>> /\ eof' = FALSE /\ held' = {}
  /\ UNCHANGED <<pool, ack, waitflush, soon, down, told, ignored, workerVars>>

Connect == Connects /\ sendq' = <<>> /\ UNCHANGED asked

\* send connects a socket that is not.
SendConnects(r) ==
  /\ r \notin asked
  /\ Connects /\ sendq' = <<r>> /\ asked' = asked \cup {r}

\* connect(2) of ConnectWorker.connect, once the process of the URL listens.
Reachable == proc = "running" /\ listening /\ target = pid
Dial ==
  /\ Up /\ sock = "connecting" /\ Reachable
  /\ sock' = "dialed"
  /\ UNCHANGED <<sendq, pool, ack, waitflush, soon, down, asked, told, respVars, wires,
                 target, workerVars>>

\* kill.  Whether the signal ends the process is not known.
Kill ==
  /\ Up /\ killsig' = TRUE
  /\ UNCHANGED <<reqVars, respVars, wires, target, option, pid, proc, listening,
                 restart, exitdue, exits, joined>>

-----------------------------------------------------------------------------
(***************************************************************************)
(* The process                                                             *)
(***************************************************************************)

\* openStdMsg in the child.
Listen ==
  /\ proc = "running" /\ ~listening
  /\ listening' = TRUE
  /\ UNCHANGED <<reqVars, respVars, wires, target, option, pid, proc,
                 killsig, restart, exitdue, exits, joined>>

\* The child ends, of itself, by a signal, or because one of its handlers threw
\* after it had answered.  The kernel closes its end of the connection.
Die ==
  /\ proc = "running"
  /\ proc' = "dead" /\ listening' = FALSE
  /\ eof' = (Joined \/ eof) /\ to' = <<>> /\ held' = {}
  /\ UNCHANGED <<reqVars, ignored, back, target, option, pid, killsig, restart,
                 exitdue, exits, joined>>

\* The child's `exit' event.
OnExit ==
  /\ Up /\ proc = "dead"
  /\ proc' = "none"
  /\ restart' = (option = "keepalive")
  /\ joined' = (option = "join")
  /\ exits' = IF option = "none" THEN exits + 1 ELSE exits
  /\ UNCHANGED <<reqVars, respVars, wires, target, option, pid, listening,
                 killsig, exitdue>>

\* Mutant of StartWorker: kill() is forgotten when the process is started.
StartWorkerAlways ==
  /\ Up /\ restart /\ restart' = FALSE
  /\ pid < MaxPid /\ pid' = pid + 1 /\ proc' = "running"
  /\ UNCHANGED <<reqVars, respVars, wires, target, option, listening,
                 killsig, exitdue, exits, joined>>

\* startWorker, from the nextTick of a keepalive.
StartWorker ==
  /\ Up /\ restart /\ restart' = FALSE
  /\ IF killsig
     THEN exitdue' = TRUE /\ UNCHANGED <<pid, proc>>
     ELSE /\ pid < MaxPid /\ pid' = pid + 1
          /\ proc' = "running"
          /\ UNCHANGED exitdue
  /\ UNCHANGED <<reqVars, respVars, wires, target, option, listening,
                 killsig, exits, joined>>

EmitExit ==
  /\ Up /\ exitdue /\ exitdue' = FALSE
  /\ exits' = exits + 1
  /\ UNCHANGED <<reqVars, respVars, wires, target, option, pid, proc, listening,
                 killsig, restart, joined>>

-----------------------------------------------------------------------------
Responding == (\E r \in Req : Recv(r) \/ Answer(r)) /\ proc = "running"

Establish == SocketStep(Connected)
Reading   == SocketStep(OnAnswer \/ OnEnd)
Loop      == OnExit \/ StartWorker \/ EmitExit

Next ==
  \/ \E r \in Req : SendConnects(r) \/ SocketStep(Send(r))
  \/ SocketStep(OnWritable)
  \/ Establish
  \/ Reading
  \/ SocketStep(DestroySoon \/ Destroy)
  \/ Responding /\ UNCHANGED <<target, workerVars>>
  \/ Connect \/ Dial \/ Kill \/ Listen \/ Die \/ Loop

Spec == Init /\ [][Next]_vars

\* The event loop runs what is due, learns of a connection, and reads what has
\* come.
Fairness ==
  /\ WF_vars(Establish) /\ WF_vars(Reading)
  /\ WF_vars(OnExit) /\ WF_vars(StartWorker) /\ WF_vars(EmitExit)

LiveSpec == Spec /\ Fairness

-----------------------------------------------------------------------------
\* A request that got an ack is in its slot until it is told, once, and then by
\* its own answer or by the socket's end; one that got none is in the send
\* queue as long as the socket lives (_writemsg, _processMessage, destroy).
SettledOnce == ~down => \A r \in asked :
  /\ ack[r] # 0 => (told[r] = <<>> <=> r \in Waiting)
  /\ ack[r] = 0 /\ pool # NoPool => r \in ToSet(sendq)
  /\ Len(told[r]) <= 1
  /\ \A i \in DOMAIN told[r] : told[r][i][2] \in {r, Nil}

\* No request waits for a process that died with the connection: the end of the
\* stream destroys the socket, which tells it, also when the process is gone
\* before _onConnect has run.
NoWaitForDead ==
  (Joined /\ eof) ~> (~Up \/ Waiting = {})

\* The process that runs at a kill(), if one does, is the last: once it has
\* ended, by that signal or not, no other is started and there was one `exit'
\* event, also when kill() comes between a keepalive's exit and its restart.
KilledForGood ==
  [](killsig /\ proc # "running" =>
       <>[](~Up \/ (proc = "none" /\ ~restart /\ ~exitdue /\ exits = 1)))
=============================================================================
