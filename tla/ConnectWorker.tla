----------------------------- MODULE ConnectWorker -----------------------------
(***************************************************************************)
(* How a Socket of lib/socket.js gets connected: the module-wide waiting   *)
(* slots, the timers that run handlerloop over them, the nextTick          *)
(* callbacks that dial, the name lookup of tcp sockets, and the retries    *)
(* after a failed attempt.                                                 *)
(*                                                                         *)
(* The handle of a repeated timer goes to an undeclared variable `handler' *)
(* and not to ConnectWorker.handler, so several loops may run at once: the *)
(* model has the timer ConnectWorker.handler names, and the others.        *)
(* ConnectWorker.count and _reconnectSlotNo, which nothing reads, and      *)
(* delays are left out: timers fire in any order.                          *)
(***************************************************************************)
EXTENDS Integers, SequencesExt

CONSTANTS
  Sock,
  Tcp,              \* sockets with a name to look up first; the others are unix or mem
  Slots,            \* the length of MAX_RECONNECT_SLOTS
  AttemptsPerSlot,  \* ATTEMPTS_PER_SLOT
  MaxAttempts       \* _reconnectMaxAttempts; -1 is for ever

ASSUME TcpAssumption == Tcp \subseteq Sock
ASSUME BoundsAssumption ==
  /\ Slots \in Nat \ {0} /\ AttemptsPerSlot \in Nat \ {0}
  /\ MaxAttempts \in Nat \cup {-1}

VARIABLES
  \* ConnectWorker
  slots,       \* ConnectWorker.slots: the sockets that wait, the next slot first
  handler,     \* ConnectWorker.handler is set (to a timer that is pending)
  stray,       \* the other pending timers of handlerloop
  due,         \* sockets the loop took out, whose nextTick callback is pending
  looking,     \* name lookups pending for each socket
  dialing,     \* each socket's `connectError' listeners: attempts under way
  \* Socket
  connecting,  \* _connecting
  attempt,     \* _reconnectAttempt
  fd,          \* the socket has a descriptor
  watching,    \* _writeWatcher is started
  used,        \* connect() was called
  dead,        \* destroy() was called
  down         \* an exception nobody caught ended the process

worker == <<slots, handler, stray>>
vars == <<worker, due, looking, dialing, connecting, attempt, fd, watching, used,
          dead, down>>

\* Every variable has its type, and there are as many slots as at the start.
TypeOK ==
  /\ slots \in Seq(Seq(Sock)) /\ Len(slots) = Slots
  /\ stray \in Nat
  /\ handler \in BOOLEAN /\ down \in BOOLEAN
  /\ due \in Seq(Sock)
  /\ looking \in [Sock -> Nat] /\ dialing \in [Sock -> Nat]
  /\ connecting \in [Sock -> BOOLEAN] /\ attempt \in [Sock -> Nat]
  /\ fd \in [Sock -> BOOLEAN] /\ watching \in [Sock -> BOOLEAN]
  /\ used \subseteq Sock /\ dead \subseteq Sock

None == [s \in Sock |-> FALSE]
Zero == [s \in Sock |-> 0]

Init ==
  /\ slots = [i \in 1 .. Slots |-> <<>>]
  /\ handler = FALSE /\ stray = 0 /\ due = <<>>
  /\ looking = Zero /\ dialing = Zero /\ attempt = Zero
  /\ connecting = None /\ fd = None /\ watching = None
  /\ used = {} /\ dead = {} /\ down = FALSE

-----------------------------------------------------------------------------
\* The slot of a socket after n failed attempts.
SlotNo(n) == IF n \div AttemptsPerSlot >= Slots THEN Slots ELSE n \div AttemptsPerSlot + 1

\* A loop is started unless ConnectWorker.handler is set.  A new socket restarts
\* that timer with no delay, which only makes it fire earlier.
StartLoop == handler' = TRUE /\ UNCHANGED stray

\* ConnectWorker(socket, host, port): socket s waits after n failed attempts.
Enqueue(s, n) ==
  /\ slots' = [slots EXCEPT ![SlotNo(n)] = Append(@, s)]
  /\ StartLoop

\* Socket.connect
Connect(s) ==
  /\ ~down /\ s \notin used
  /\ used' = used \cup {s}
  /\ connecting' = [connecting EXCEPT ![s] = TRUE]
  /\ fd' = [fd EXCEPT ![s] = s \notin Tcp]
  /\ Enqueue(s, 0)
  /\ UNCHANGED <<due, looking, dialing, attempt, watching, dead, down>>

\* Mutant of MoreJobs: looks at the slot that was taken out.
MoreJobsHead(rest) == Head(slots) # <<>>

MoreJobs(rest) == \E i \in DOMAIN rest : rest[i] # <<>>

\* Mutants of Rotate: the slot does not come back; it comes back as it was.
RotateShort == slots' = Tail(slots)
RotateKept == slots' = Append(Tail(slots), Head(slots))

\* The slot taken out comes back empty, as the last one.
Rotate == slots' = Append(Tail(slots), <<>>)

\* A timer fires: handlerloop.  ConnectWorker.handler is reset whether it was
\* this timer's (named) or not, and the repeated timer is never named.
HandlerLoop(named) ==
  LET kept == IF named THEN stray ELSE IF handler THEN stray ELSE stray - 1
      more == MoreJobs(Tail(slots))
  IN /\ ~down /\ (IF named THEN handler ELSE stray > 0)
     /\ due' = due \o Head(slots)
     /\ Rotate
     /\ handler' = FALSE
     /\ stray' = IF more THEN kept + 1 ELSE kept
     /\ UNCHANGED <<looking, dialing, connecting, attempt, fd, watching, used,
                    dead, down>>

\* Socket.destroy
Destroyed(s) ==
  /\ connecting' = [connecting EXCEPT ![s] = FALSE]
  /\ watching' = [watching EXCEPT ![s] = FALSE]
  /\ fd' = [fd EXCEPT ![s] = FALSE]
  /\ dead' = dead \cup {s}

\* Mutants of Refreshed: a retry keeps the descriptor; the counter is not kept.
RefreshedNot(s) == attempt' = [attempt EXCEPT ![s] = @ + 1] /\ UNCHANGED fd
RefreshedOnly(s) ==
  fd' = [fd EXCEPT ![s] = IF s \in Tcp THEN FALSE ELSE @] /\ UNCHANGED attempt

\* Before the next attempt: a tcp socket gives its descriptor back.
Refreshed(s) ==
  /\ fd' = [fd EXCEPT ![s] = IF s \in Tcp THEN FALSE ELSE @]
  /\ attempt' = [attempt EXCEPT ![s] = @ + 1]

LastAttempt(s) == attempt[s] = MaxAttempts

\* onconnecterror: nothing for a socket that was destroyed meanwhile; else give
\* up, or wait for another attempt.  A name lookup may just have given s a
\* descriptor (has).
ConnectError(s, has) ==
  \/ /\ ~connecting[s]
     /\ watching' = [watching EXCEPT ![s] = FALSE]
     /\ fd' = [fd EXCEPT ![s] = has]
     /\ UNCHANGED <<worker, connecting, attempt, dead>>
  \/ /\ connecting[s] /\ LastAttempt(s)
     /\ Destroyed(s)
     /\ UNCHANGED <<worker, attempt>>
  \/ /\ connecting[s] /\ ~LastAttempt(s)
     /\ watching' = [watching EXCEPT ![s] = FALSE]
     /\ Refreshed(s)
     /\ Enqueue(s, attempt[s] + 1)
     /\ UNCHANGED <<connecting, dead>>

\* The descriptor is connecting and the write watcher will tell.  A destroyed
\* socket has no watchers any more, and nobody catches the TypeError.
Watch(s) ==
  /\ fd' = [fd EXCEPT ![s] = TRUE]
  /\ \/ s \in dead /\ down' = TRUE /\ UNCHANGED <<watching, dialing>>
     \/ /\ s \notin dead
        /\ watching' = [watching EXCEPT ![s] = TRUE]
        /\ dialing' = [dialing EXCEPT ![s] = @ + 1]
        /\ UNCHANGED down
  /\ UNCHANGED <<worker, connecting, attempt, dead>>

-----------------------------------------------------------------------------
\* ConnectWorker.connect, called by the nextTick callback of handlerloop: the
\* name of a tcp socket is looked up.
DialTcp(s) ==
  /\ ~down /\ due # <<>> /\ s = Head(due) /\ s \in Tcp
  /\ due' = Tail(due)
  /\ looking' = [looking EXCEPT ![s] = @ + 1]
  /\ UNCHANGED <<worker, dialing, connecting, attempt, fd, watching, used, dead,
                 down>>

\* Another socket connects its descriptor.  That throws when nobody is there
\* (~ok), and always when the socket has no descriptor any more.
Dial(s, ok) ==
  /\ ~down /\ due # <<>> /\ s = Head(due) /\ s \notin Tcp
  /\ due' = Tail(due)
  /\ \/ ok /\ fd[s] /\ Watch(s)
     \/ ~ok /\ ConnectError(s, fd[s]) /\ UNCHANGED <<dialing, down>>
  /\ UNCHANGED <<looking, used>>

\* The name lookup answers: it failed, or the new descriptor is connected (ok),
\* or connecting it throws.
Lookup(s, found, ok) ==
  /\ ~down /\ looking[s] > 0
  /\ looking' = [looking EXCEPT ![s] = @ - 1]
  /\ \/ found /\ ok /\ Watch(s)
     \/ ~(found /\ ok) /\ ConnectError(s, found) /\ UNCHANGED <<dialing, down>>
  /\ UNCHANGED <<due, used>>

\* The write watcher of a connecting socket: _onConnect.  The connection is
\* there, and `connect' is emitted; a listener that throws destroys the socket.
Established(s, throws) ==
  /\ ~down /\ watching[s] /\ connecting[s]
  /\ dialing' = [dialing EXCEPT ![s] = @ - 1]
  /\ attempt' = [attempt EXCEPT ![s] = 0]
  /\ \/ throws /\ Destroyed(s)
     \/ /\ ~throws
        /\ connecting' = [connecting EXCEPT ![s] = FALSE]
        /\ UNCHANGED <<watching, fd, dead>>
  /\ UNCHANGED <<worker, due, looking, used, down>>

\* The attempt failed: `connectError'.
Refused(s) ==
  /\ ~down /\ watching[s] /\ connecting[s]
  /\ dialing' = [dialing EXCEPT ![s] = @ - 1]
  /\ ConnectError(s, fd[s])
  /\ UNCHANGED <<due, looking, used, down>>

\* The application destroys the socket, whatever its attempt is doing.
Destroy(s) ==
  /\ ~down /\ s \in used \ dead
  /\ Destroyed(s)
  /\ UNCHANGED <<worker, due, looking, dialing, attempt, used, down>>

-----------------------------------------------------------------------------
Attempt(s) ==
  \/ DialTcp(s)
  \/ \E ok \in BOOLEAN : Dial(s, ok)
  \/ \E found \in BOOLEAN, ok \in BOOLEAN : Lookup(s, found, ok)
  \/ \E throws \in BOOLEAN : Established(s, throws)
  \/ Refused(s)

Next ==
  \/ \E s \in Sock : Connect(s) \/ Attempt(s) \/ Destroy(s)
  \/ \E named \in BOOLEAN : HandlerLoop(named)

Spec == Init /\ [][Next]_vars

\* Timers and nextTick callbacks run; the resolver answers, and the kernel
\* reports what became of a connection (assumptions on the system).
Fairness ==
  /\ WF_vars(\E named \in BOOLEAN : HandlerLoop(named))
  /\ \A s \in Sock : WF_vars(Attempt(s))

LiveSpec == Spec /\ Fairness
-----------------------------------------------------------------------------
\* The places of the waiting slots, and of the callbacks due, that hold s.
Queued(s) == {u \in UNION {{i} \X DOMAIN slots[i] : i \in DOMAIN slots} :
                slots[u[1]][u[2]] = s}
Due(s) == {i \in DOMAIN due : due[i] = s}

\* A connecting socket has one attempt under way or waiting, never two and
\* never none: a second dial would overwrite the descriptor of the first, and
\* a socket nobody dials stays connecting for ever.
OneAttempt ==
  ~down => \A s \in Sock :
    LET places == Cardinality(Queued(s)) + Cardinality(Due(s)) + looking[s] + dialing[s]
    IN /\ connecting[s] => places = 1
       /\ places <= 1
       /\ connecting[s] /\ dialing[s] = 1 => watching[s]

\* As long as a socket waits in a slot, some timer will run handlerloop.
LoopForWaiting ==
  (\E s \in Sock : Queued(s) # {}) => handler \/ stray > 0

\* A connecting tcp socket has a descriptor just while that is being dialed:
\* every failed attempt closed its own, and none starts on an old one.
FreshDescriptor ==
  \A s \in Tcp : connecting[s] => (fd[s] <=> dialing[s] = 1)

\* Every socket gets connected or is destroyed in the end, however the loops
\* and the attempts of all sockets interleave.
EventuallyDecided == \A s \in Sock : connecting[s] ~> ~connecting[s] \/ down
=============================================================================
