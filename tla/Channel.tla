-------------------------------- MODULE Channel --------------------------------
(***************************************************************************)
(* The life of a channel (lib/channel.js): its list of sockets, the        *)
(* `connect' and `disconnect' events the four channel types are built on,  *)
(* its listeners, and close() with its count of what it waits for.         *)
(* Sockets are seen from the channel: connecting, open, destroyed.         *)
(***************************************************************************)
EXTENDS Integers, FiniteSets

CONSTANTS
  Sock,        \* the sockets that may be attached
  NoFd,        \* those that have no descriptor while they connect (tcp, before the lookup)
  MemSock,     \* those on a `mem' name
  Watched,     \* sockets on which somebody listens for `error'
  Listener,    \* the calls of listen
  Unix,        \* those on a `unix' path
  Mem,         \* those on a `mem' name; the others are tcp
  Heard        \* calls with a callback, or with a listener for the channel's `error'

ASSUME KindAssumption ==
  NoFd \subseteq Sock /\ MemSock \subseteq Sock /\ Watched \subseteq Sock
  /\ NoFd \cap MemSock = {}
  /\ Unix \subseteq Listener /\ Mem \subseteq Listener /\ Heard \subseteq Listener
  /\ Unix \cap Mem = {}

VARIABLES
  closing, closed,  \* _closing, _closed
  waits,            \* _closeWaitCount
  sockets,          \* _sockets
  life,             \* of each socket: see TypeOK
  failed,           \* sockets destroyed with an exception
  connects,         \* `connect' events of each socket (2: more than one)
  disconnects,      \* `disconnect' events of each socket (2: more than one)
  listeners,        \* stage of each listen
  closes,           \* `close' events of the channel
  counted,          \* the sockets close() counted
  late,             \* the sockets close() did not come to: attached after it, or in
                    \* the list behind one whose destroy() threw
  down              \* an exception nobody caught ended the process

sockVars == <<sockets, life, failed, connects, disconnects, late>>
vars == <<closing, closed, waits, sockVars, listeners, closes, counted, down>>

\* Every variable has its type, and the channel raises `close' twice at most:
\* once in close() and once when nothing is left to wait for.
TypeOK ==
  /\ closing \in BOOLEAN /\ closed \in BOOLEAN /\ down \in BOOLEAN
  /\ waits \in Int
  /\ sockets \subseteq Sock /\ failed \subseteq Sock
  /\ counted \subseteq Sock /\ late \subseteq Sock
  /\ life \in [Sock -> {"new", "connecting", "open",
                        "dying",    \* destroyed, its `close' event is due
                        "silent",   \* destroyed, and no event will come: there was no
                                    \* descriptor, or closing it threw
                        "dead"}]
  /\ connects \in [Sock -> 0 .. 2] /\ disconnects \in [Sock -> 0 .. 2]
  /\ listeners \in [Listener -> {"idle", "resolving", "bound", "active",
                                 "failed", "unlinking", "stopped",
                                 "threw"}]  \* out of a callback: the process ends
  /\ closes \in 0 .. 2

Init ==
  /\ closing = FALSE /\ closed = FALSE /\ waits = 0
  /\ sockets = {} /\ failed = {} /\ counted = {} /\ late = {}
  /\ life = [s \in Sock |-> "new"]
  /\ connects = [s \in Sock |-> 0] /\ disconnects = [s \in Sock |-> 0]
  /\ listeners = [l \in Listener |-> "idle"]
  /\ closes = 0 /\ down = FALSE

-----------------------------------------------------------------------------
\* One more event, counted as far as 2 ("more than one").
Twice(n) == IF n < 2 THEN n + 1 ELSE n

\* Mutant of CountDown: `close' for every one that goes, and still closing.
CountDownLoose ==
  /\ waits' = waits - 1
  /\ closed' = (closed \/ waits' <= 0)
  /\ closes' = IF waits' <= 0 THEN closes + 1 ELSE closes
  /\ UNCHANGED closing

\* One less to wait for; the last one closes the channel.
CountDown ==
  /\ waits' = waits - 1
  /\ closing' = (closing /\ waits' # 0)
  /\ closed' = (closed \/ waits' = 0)
  /\ closes' = IF waits' = 0 THEN closes + 1 ELSE closes

\* A socket is gone: it counts while the channel closes.
WaitOver == IF closing THEN CountDown ELSE UNCHANGED <<waits, closing, closed, closes>>

\* Socket.destroy: without a descriptor it raises no event.  memsock.close throws
\* at an end that was never accepted or whose peer closed first, and the process
\* ends unless the caller catches that.
Gone(s, caught) ==
  \/ \E g \in {"dying"} \cup (IF life[s] = "connecting" /\ s \in NoFd THEN {"silent"} ELSE {}) :
       /\ life' = [life EXCEPT ![s] = g]
       /\ UNCHANGED down
  \/ /\ s \in MemSock
     /\ life' = [life EXCEPT ![s] = "silent"]
     /\ down' \in {TRUE, ~caught}

\* Mutant of Enter: the socket is not put on the list.
EnterUnlisted(s) ==
  /\ UNCHANGED sockets
  /\ late' = IF closing \/ closed THEN late \cup {s} ELSE late

Enter(s) ==
  /\ sockets' = sockets \cup {s}
  /\ late' = IF closing \/ closed THEN late \cup {s} ELSE late

\* Channel.connect
Connect(s) ==
  /\ ~down /\ life[s] = "new"
  /\ life' = [life EXCEPT ![s] = "connecting"]
  /\ Enter(s)
  /\ UNCHANGED <<closing, closed, waits, failed, connects, disconnects,
                 listeners, closes, counted, down>>

\* _attachSocket of an open socket: `connect' is emitted at once.
AttachOpen(s) ==
  /\ life[s] = "new"
  /\ life' = [life EXCEPT ![s] = "open"]
  /\ Enter(s)
  /\ connects' = [connects EXCEPT ![s] = Twice(@)]
  /\ UNCHANGED <<closing, closed, waits, failed, disconnects, listeners,
                 closes, counted, down>>

\* Channel.attach
Attach(s) == ~down /\ AttachOpen(s)

\* A listener's watcher accepts a connection.
Accept(l, s) ==
  /\ ~down /\ listeners[l] = "active" /\ (l \in Mem <=> s \in MemSock)
  /\ AttachOpen(s)

\* accept fails for want of a descriptor.  rescueEMFILE gives up the spare one,
\* and calls a _rejectPending that is not there; without a spare one, nothing
\* happens.
AcceptFails(l) ==
  /\ ~down /\ listeners[l] = "active" /\ l \notin Mem
  /\ down' = TRUE
  /\ listeners' = [listeners EXCEPT ![l] = "threw"]
  /\ UNCHANGED <<closing, closed, waits, sockVars, closes, counted>>

\* The connection is established.  A closing channel calls end(), which a
\* Socket does not have: the exception destroys the socket.
OnConnect(s) ==
  /\ ~down /\ life[s] = "connecting"
  /\ \/ /\ ~closing
        /\ life' = [life EXCEPT ![s] = "open"]
        /\ connects' = [connects EXCEPT ![s] = Twice(@)]
        /\ UNCHANGED <<failed, down>>
     \/ /\ closing
        /\ Gone(s, FALSE)
        /\ failed' = failed \cup {s}
        /\ UNCHANGED connects
  /\ UNCHANGED <<closing, closed, waits, sockets, disconnects, late, listeners,
                 closes, counted>>

\* The last connection attempt failed, a read or write failed (err), or the
\* stream ended or destroy() was called, by an application that may catch what
\* it throws.
Drop(s, err) ==
  /\ ~down /\ life[s] \in {"connecting", "open"}
  /\ Gone(s, TRUE)
  /\ failed' = IF err THEN failed \cup {s} ELSE failed
  /\ UNCHANGED <<closing, closed, waits, sockets, connects, disconnects, late,
                 listeners, closes, counted>>

\* destroy() of a mem socket whose destroy() threw before: it throws again.
DropAgain(s) ==
  /\ ~down /\ life[s] = "silent" /\ s \in MemSock
  /\ down' = TRUE
  /\ UNCHANGED <<closing, closed, waits, sockVars, listeners, closes, counted>>

\* Mutant of Disconnected: whether `connect' was emitted is not looked at.
AlwaysDisconnected(s) == disconnects' = [disconnects EXCEPT ![s] = Twice(@)]

\* No `disconnect' without a `connect'.
Disconnected(s) ==
  disconnects' = IF connects[s] > 0
                 THEN [disconnects EXCEPT ![s] = Twice(@)] ELSE disconnects

\* The nextTick callback of destroy: `error', which throws when nobody listens,
\* then `close', whose handler throws when the socket is not in the list.
OnClose(s) ==
  /\ ~down /\ life[s] = "dying"
  /\ life' = [life EXCEPT ![s] = "dead"]
  /\ IF (s \in failed /\ s \notin Watched) \/ s \notin sockets
     THEN /\ down' = TRUE
          /\ UNCHANGED <<sockets, disconnects, waits, closing, closed, closes>>
     ELSE /\ sockets' = sockets \ {s}
          /\ Disconnected(s)
          /\ WaitOver
          /\ UNCHANGED down
  /\ UNCHANGED <<failed, connects, late, listeners, counted>>

-----------------------------------------------------------------------------
\* Channel.listen: the fields it checks do not exist, so it never refuses.
Listen(l) ==
  /\ ~down /\ listeners[l] = "idle"
  /\ listeners' = [listeners EXCEPT ![l] = IF l \in Mem THEN "bound" ELSE "resolving"]
  /\ UNCHANGED <<closing, closed, waits, sockVars, closes, counted, down>>

\* A step of a listen call.  When it fails and nobody hears of it, the channel's
\* `error' event throws out of the callback.
ListenStep(l, ok, next) ==
  /\ listeners' = [listeners EXCEPT ![l] =
                     IF ok THEN next ELSE IF l \in Heard THEN "failed" ELSE "threw"]
  /\ down' = (~ok /\ l \notin Heard)
  /\ UNCHANGED <<closing, closed, waits, sockVars, closes, counted>>

\* unlinksock has looked at the path of a unix listener, and removed it; the
\* address is bound.
PathFree(l, ok) ==
  /\ ~down /\ listeners[l] = "resolving" /\ l \in Unix
  /\ ListenStep(l, ok, "bound")

\* The name of a tcp listener was looked up, and the address bound.
Resolved(l, ok) ==
  /\ ~down /\ listeners[l] = "resolving" /\ l \notin Unix
  /\ ListenStep(l, ok, "bound")

\* _doListen's nextTick callback, where listen may fail; its check for a closed
\* channel never holds.
Listening(l, ok) ==
  /\ ~down /\ listeners[l] = "bound" /\ l \notin Mem
  /\ ListenStep(l, ok, "active")

\* memsock.bind fails if the name is taken.  Then memsock.close looks for the
\* name of a descriptor that has none.
Bind(l, free) ==
  /\ listeners' = [listeners EXCEPT ![l] = IF free THEN "active" ELSE "threw"]
  /\ down' = ~free

\* The nextTick callback of a mem listener.
MemListening(l, free) ==
  /\ ~down /\ listeners[l] = "bound" /\ l \in Mem
  /\ Bind(l, free)
  /\ UNCHANGED <<closing, closed, waits, sockVars, closes, counted>>

\* Mutant of Counted: the sockets that still connect are not waited for.
CountedOpen == {s \in sockets : life[s] # "connecting"}

\* Every socket of the list is waited for, whatever its state.
Counted == sockets

\* close() destroys the open ones among the sockets S.
Closed(S) == [s \in Sock |-> IF s \in S /\ life[s] = "open" THEN "dying" ELSE life[s]]

\* Channel.close
Close ==
  LET unlinks == {l \in Unix : listeners[l] = "active"}
      n == Cardinality(Counted) + Cardinality(unlinks)
  IN /\ ~down /\ ~closing /\ ~closed
     /\ \A s \in sockets \cap MemSock : life[s] # "silent"
     /\ closing' = TRUE
     /\ waits' = n
     /\ counted' = Counted
     /\ life' = Closed(sockets)
     /\ listeners' = [l \in Listener |->
          IF listeners[l] # "active" THEN listeners[l]
          ELSE IF l \in unlinks THEN "unlinking" ELSE "stopped"]
     /\ closed' = (n # 0)
     /\ closes' = IF n # 0 THEN closes + 1 ELSE closes
     /\ UNCHANGED <<sockets, failed, connects, disconnects, late, down>>

\* The destroy of a mem socket throws out of Channel.close, which has come to the
\* sockets S before it and comes to nothing after it.
CloseThrows(s, S) ==
  /\ ~down /\ ~closing /\ ~closed
  /\ s \in sockets \cap MemSock /\ life[s] \in {"open", "silent"}
  /\ S \subseteq sockets \ {s} /\ \A r \in S \cap MemSock : life[r] # "silent"
  /\ closing' = TRUE
  /\ waits' = Cardinality(S) + 1
  /\ counted' = S \cup {s}
  /\ life' = [Closed(S) EXCEPT ![s] = "silent"]
  /\ late' = sockets \ counted'
  /\ down' \in BOOLEAN
  /\ UNCHANGED <<closed, sockets, failed, connects, disconnects, listeners, closes>>

\* The path of a unix listener is unlinked: the count goes down even when the
\* channel has been closed.
Unlinked(l) ==
  /\ ~down /\ listeners[l] = "unlinking"
  /\ listeners' = [listeners EXCEPT ![l] = "stopped"]
  /\ CountDown
  /\ UNCHANGED <<sockVars, counted, down>>

-----------------------------------------------------------------------------
Next ==
  \/ \E s \in Sock :
       \/ Connect(s) \/ Attach(s) \/ OnConnect(s) \/ OnClose(s) \/ DropAgain(s)
       \/ \E err \in BOOLEAN : Drop(s, err)
       \/ \E l \in Listener : Accept(l, s)
  \/ \E l \in Listener :
       \/ Listen(l) \/ AcceptFails(l) \/ Unlinked(l)
       \/ \E ok \in BOOLEAN :
            PathFree(l, ok) \/ Resolved(l, ok) \/ Listening(l, ok) \/ MemListening(l, ok)
  \/ Close
  \/ \E s \in sockets, S \in SUBSET sockets : CloseThrows(s, S)

Spec == Init /\ [][Next]_vars

\* The event loop runs the callbacks that are due.  Connections may be retried
\* for ever, so nothing is assumed of them.
Fairness ==
  /\ \A s \in Sock : WF_vars(OnClose(s))
  /\ \A l \in Listener : WF_vars(Unlinked(l))
LiveSpec == Spec /\ Fairness
-----------------------------------------------------------------------------
\* Every socket gets `connect' at most once, `disconnect' only after it, and
\* exactly one of each or none at all by the time it is gone: the four channel
\* types keep their per-socket state between these two events.
EventsPaired ==
  ~down => \A s \in Sock :
    /\ connects[s] <= 1 /\ disconnects[s] <= connects[s]
    /\ disconnects[s] = (IF life[s] = "dead" THEN connects[s] ELSE 0)
    /\ life[s] = "open" => connects[s] = 1

\* _sockets holds the attached sockets that are not gone, so the assertion in
\* the close handler cannot fail: what ends the process is an `error' event
\* nobody listens to, of a socket or of a listen, a mem end that cannot be
\* closed, or a listener's own exception.
ListExact ==
  /\ ~down => sockets = {s \in Sock : life[s] \notin {"new", "dead"}}
  /\ down => \/ \E s \in failed \ Watched : life[s] = "dead"
             \/ \E s \in MemSock : life[s] = "silent"
             \/ \E l \in Listener : listeners[l] = "threw"

\* While the channel closes, and nothing is attached to it any more, the count
\* is what is still to go of what close() found.
WaitCountExact ==
  ~down /\ closing /\ late = {} =>
    waits = Cardinality(counted \cap sockets)
            + Cardinality({l \in Listener : listeners[l] = "unlinking"})

\* A channel that closes gets rid of what it waited for, and says so, once none
\* of it is connecting, unless a socket is gone without an event, or close() did
\* not come to all of them.
CloseCompletes ==
  (closing /\ waits > 0 /\ \A s \in counted : life[s] # "connecting") ~>
    \/ ~closing /\ closed /\ closes > 0 /\ counted \cap sockets = {}
    \/ down \/ late # {} \/ \E s \in Sock : life[s] = "silent"

\* "This event is emitted when the channel is completely closed."
CompletelyClosed ==
  closes > 0 => sockets = {} /\ \A l \in Listener : listeners[l] # "active"
=============================================================================
