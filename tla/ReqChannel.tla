------------------------------ MODULE ReqChannel ------------------------------
(***************************************************************************)
(* The `req' channel of lib/req.js: the queue of requests, the job that    *)
(* hands them to the ready sockets, the ack slots of each socket, partial  *)
(* writes and their flush, replies, rejects and the side queue, and the    *)
(* requeueing of what a closed socket still owed.                          *)
(*                                                                         *)
(* JavaScript runs a callback to completion.  A callback with no loop is   *)
(* one action.  The request queue job and the `disconnect' handler loop,   *)
(* so each pass of their loops is an action, and every other callback is   *)
(* guarded by Quiet: neither loop is in the middle of its run.             *)
(*                                                                         *)
(* A socket s of Sock stands for one connection, from connect to close.    *)
(* A request is Units write units long and its header is in the first.     *)
(***************************************************************************)
EXTENDS Integers, FiniteSets, SequencesExt

CONSTANTS
  Req,         \* the requests that may be sent
  Sock,        \* the connections the channel may get
  Nil,         \* no request, no socket (null in the code)
  MaxOut,      \* maxOutgoingRequests: ack slots per socket
  AckRange,    \* values of the one-byte ack field of the header (256)
  MaxRejects,  \* maxRejects: rejects after which the sender is told
  Units,       \* write units of a request
  Fd,          \* requests that carry a file descriptor
  Unix,        \* connections of type `unix', which can carry one
  Kinds,       \* how the peer answers: "reply", "reject"
  Faults       \* what may go wrong: "write" (write throws), "peer" (end of stream)

ASSUME NilAssumption == Nil \notin Req \cup Sock
ASSUME BoundsAssumption ==
  /\ MaxOut \in Nat \ {0} /\ AckRange \in Nat \ {0}
  /\ MaxRejects \in Nat \ {0} /\ Units \in Nat \ {0}
ASSUME KindAssumption ==
  Fd \subseteq Req /\ Unix \subseteq Sock /\ Kinds \subseteq {"reply", "reject"}

VARIABLES
  \* ReqChannel
  queue,       \* _requestQueue
  ready,       \* _readySockets
  job,         \* _requestQueueJobRunning, split: "scheduled" for nextTick, "running"
  hand,        \* the local `msg' of processRequestQueueJob, Nil between messages
  listening,   \* sockets with the job's `drain' listener (added when the job ends,
               \* and nothing can drain before)
  side,        \* _sidequeue
  sideTimer,   \* _sidequeue.running
  leaving,     \* the socket whose `disconnect' handler runs, Nil if none
  key,         \* that handler's loop index over the ack slots
  crashed,     \* the assertion on the ack of a new message failed
  \* ReqSocket
  conn,        \* "connecting", "open", "closing" (destroyed), "closed" (`close' emitted)
  pool,        \* _ackwaitpool
  outgoing,    \* _outgoingcount
  pending,     \* _sendqueue: the partly written request, Nil if empty
  watching,    \* _writeWatcher is started
  waitflush,   \* _waitingforflush
  \* request messages
  ack,         \* msg[ACK_OFFSET]
  off,         \* msg._off
  rejects,     \* rejectCount
  sent,        \* the requests given to send()
  dispatched,  \* times the sender's handler got a final answer; 2 is "more than once"
  blurred,     \* history: some first write left a request blurred, see Blurs
  \* the peer's end of each connection
  wire,        \* the frame being received, and whether the stream lost its framing
  inbox        \* whole frames not answered yet

chan  == <<queue, ready, job, hand, listening, side, sideTimer>>
loop  == <<leaving, key>>
socks == <<conn, pool, outgoing, pending, watching, waitflush>>
msgs  == <<ack, off, rejects, sent, dispatched, blurred>>
peer  == <<wire, inbox>>
vars  == <<chan, loop, crashed, socks, msgs, peer>>

Slots   == 1 .. MaxOut
AckByte(a) == a % AckRange
Frame   == [ack : 0 .. AckRange - 1, req : Req]
Stream  == [got : 0 .. Units - 1, ack : 0 .. AckRange - 1, torn : BOOLEAN]

ChanType ==
  /\ queue \in Seq(Req) /\ ready \in Seq(Sock) /\ side \in Seq(Req)
  /\ job \in {"idle", "scheduled", "running"}
  /\ hand \in Req \cup {Nil}
  /\ listening \subseteq Sock
  /\ sideTimer \in BOOLEAN
LoopType ==
  /\ leaving \in Sock \cup {Nil} /\ key \in 0 .. MaxOut
  /\ crashed \in BOOLEAN
SockType ==
  /\ conn \in [Sock -> {"connecting", "open", "closing", "closed"}]
  /\ pool \in [Sock -> [Slots -> Req \cup {Nil}]]
  /\ outgoing \in [Sock -> Int]
  /\ pending \in [Sock -> Req \cup {Nil}]
  /\ watching \in [Sock -> BOOLEAN] /\ waitflush \in [Sock -> BOOLEAN]
MsgType ==
  /\ ack \in [Req -> 0 .. AckRange - 1]
  /\ off \in [Req -> 0 .. Units - 1]
  /\ rejects \in [Req -> Nat]
  /\ sent \subseteq Req
  /\ dispatched \in [Req -> 0 .. 2]
  /\ blurred \in BOOLEAN
PeerType ==
  /\ wire \in [Sock -> Stream]
  /\ inbox \in [Sock -> SUBSET Frame]
\* Every variable keeps its type, the ack byte fits its field and no offset
\* reaches the end of its request.
TypeOK == ChanType /\ LoopType /\ SockType /\ MsgType /\ PeerType

Init ==
  /\ queue = <<>> /\ ready = <<>> /\ side = <<>>
  /\ job = "idle" /\ hand = Nil /\ listening = {}
  /\ sideTimer = FALSE /\ crashed = FALSE
  /\ leaving = Nil /\ key = 0
  /\ conn = [s \in Sock |-> "connecting"]
  /\ pool = [s \in Sock |-> [a \in Slots |-> Nil]]
  /\ outgoing = [s \in Sock |-> 0]
  /\ pending = [s \in Sock |-> Nil]
  /\ watching = [s \in Sock |-> FALSE] /\ waitflush = [s \in Sock |-> FALSE]
  /\ ack = [r \in Req |-> 0] /\ off = [r \in Req |-> 0]
  /\ rejects = [r \in Req |-> 0]
  /\ sent = {}
  /\ dispatched = [r \in Req |-> 0]
  /\ blurred = FALSE
  /\ wire = [s \in Sock |-> [got |-> 0, ack |-> 0, torn |-> FALSE]]
  /\ inbox = [s \in Sock |-> {}]

-----------------------------------------------------------------------------
Quiet == ~crashed /\ job # "running" /\ leaving = Nil

\* Mutant of StartJob: looks at the ready list from before the caller's push.
StartJobEarly(q, rd) ==
  IF job = "idle" /\ q # <<>> /\ ready # <<>> THEN "scheduled" ELSE job

\* _startRequestQueueJob: the job's next value for a queue q and ready sockets rd
StartJob(q, rd) ==
  IF job = "idle" /\ q # <<>> /\ rd # <<>> THEN "scheduled" ELSE job

\* Mutant of HasHandlers: off by one.
OneMoreHandler(count) == count <= MaxOut

HasHandlers(count) == count < MaxOut

\* Mutant of FreeSlot: the search does not look at the slot.
LastSlot(s, a) == a = MaxOut

\* The slot the search of _writemsg stops at: the highest free one.
FreeSlot(s, a) == pool[s][a] = Nil /\ \A b \in Slots : b > a => pool[s][b] # Nil
NoFreeSlot(s)  == \A a \in Slots : pool[s][a] # Nil

\* _writemsg asserts that a message whose ack byte is 0 gets a slot: the
\* process ends when every slot is taken.
NoAckLeft(s, b) == b = 0 /\ NoFreeSlot(s)
Crash == crashed' = TRUE /\ UNCHANGED <<chan, loop, socks, msgs, peer>>

Waiting(s, a) == IF a \in Slots THEN pool[s][a] ELSE Nil

\* Mutants of FreeAck: the count is not taken down; the slot is not cleared.
FreeAckOnly(s, a) == pool' = [pool EXCEPT ![s][a] = Nil] /\ UNCHANGED outgoing
CountDownOnly(s, a) == outgoing' = [outgoing EXCEPT ![s] = @ - 1] /\ UNCHANGED pool

\* _processMessage frees the slot of the answer's ack.
FreeAck(s, a) ==
  /\ pool' = [pool EXCEPT ![s][a] = Nil]
  /\ outgoing' = [outgoing EXCEPT ![s] = @ - 1]

\* Mutant of ReplyDrains: compares the count after the decrement.
ReplyDrainsLate(s) == outgoing[s] - 1 = MaxOut /\ ~waitflush[s]

\* _processMessage emits `drain' if it frees the first slot of a full socket.
ReplyDrains(s) == outgoing[s] = MaxOut /\ ~waitflush[s]

\* Socket.destroy; the connection's `close' event is OnClose.
Destroyed(s) ==
  /\ conn' = [conn EXCEPT ![s] = "closing"]
  /\ watching' = [watching EXCEPT ![s] = FALSE]

\* What the peer gets when n units of r, from off[r] on, are put on s.  A
\* frame is whole only when its units arrive from the first one on; other
\* bytes leave the stream without framing for good.
Received(s, r, n) ==
  LET w == wire[s]
      h == IF off[r] = 0 THEN ack'[r] ELSE w.ack
      inStep == ~w.torn /\ w.got = off[r]
  IN IF n = 0 \/ w.torn
     THEN UNCHANGED peer
     ELSE /\ wire' = [wire EXCEPT ![s] =
                [got  |-> IF inStep THEN (w.got + n) % Units ELSE w.got,
                 ack  |-> IF inStep THEN h ELSE w.ack,
                 torn |-> ~inStep]]
          /\ inbox' = IF inStep /\ w.got + n = Units
                      THEN [inbox EXCEPT ![s] = @ \cup {[ack |-> h, req |-> r]}]
                      ELSE inbox

\* ReqSocket._writemsg of r on s, whose ack byte is b on entry, when write(2)
\* takes n units.  It leaves the crash and the throwing write to their actions.
WriteMsg(s, r, b, n) ==
  /\ n \in 0 .. (Units - off[r])
  /\ \/ /\ b # 0
        /\ ack' = [ack EXCEPT ![r] = b]
        /\ UNCHANGED <<pool, outgoing>>
     \/ /\ b = 0
        /\ \E a \in Slots :
             /\ FreeSlot(s, a)
             /\ ack' = [ack EXCEPT ![r] = AckByte(a)]
             /\ pool' = [pool EXCEPT ![s][a] = r]
             /\ outgoing' = [outgoing EXCEPT ![s] = @ + 1]
  /\ off' = IF off[r] + n = Units THEN off ELSE [off EXCEPT ![r] = @ + n]
  /\ pending' = [pending EXCEPT ![s] = IF off[r] + n = Units THEN Nil ELSE r]
  /\ Received(s, r, n)

\* _writemsg when the write throws: the ack byte is already set, the slot is not.
WriteThrows(s, r, b) ==
  /\ "write" \in Faults
  /\ \/ b # 0 /\ ack' = [ack EXCEPT ![r] = b]
     \/ b = 0 /\ \E a \in Slots : FreeSlot(s, a) /\ ack' = [ack EXCEPT ![r] = AckByte(a)]
  /\ Destroyed(s)

\* Mutant of Drain: the listener stays.
DrainAgain(s, emitted) ==
  /\ UNCHANGED listening
  /\ ready' = IF emitted /\ s \in listening THEN Append(ready, s) ELSE ready

\* A `drain' event on s: the job's listener removes itself, the socket is ready.
Drain(s, emitted) ==
  IF emitted /\ s \in listening
  THEN /\ listening' = listening \ {s}
       /\ ready' = Append(ready, s)
  ELSE UNCHANGED <<listening, ready>>

-----------------------------------------------------------------------------
\* ReqChannel.send
Send(r) ==
  /\ Quiet /\ r \notin sent
  /\ sent' = sent \cup {r}
  /\ queue' = Append(queue, r)
  /\ job' = StartJob(queue', ready)
  /\ UNCHANGED <<ready, hand, listening, side, sideTimer, loop, crashed, socks,
                 ack, off, rejects, dispatched, blurred, peer>>

\* The connection is established: RequesterImpl_connect.  The write watcher
\* that reported it is still started.
Connect(s) ==
  /\ Quiet /\ conn[s] = "connecting"
  /\ conn' = [conn EXCEPT ![s] = "open"]
  /\ watching' = [watching EXCEPT ![s] = TRUE]
  /\ ready' = Append(ready, s)
  /\ job' = StartJob(queue, ready')
  /\ UNCHANGED <<queue, hand, listening, side, sideTimer, loop, crashed,
                 pool, outgoing, pending, waitflush, msgs, peer>>

\* The nextTick callback of _startRequestQueueJob begins.
JobStart ==
  /\ Quiet /\ job = "scheduled"
  /\ job' = "running"
  /\ UNCHANGED <<queue, ready, hand, listening, side, sideTimer, loop, crashed,
                 socks, msgs, peer>>

Working == job = "running" /\ ~crashed

\* The outer loop takes the next message.
JobTake ==
  /\ Working /\ hand = Nil /\ queue # <<>> /\ ready # <<>>
  /\ hand' = Head(queue) /\ queue' = Tail(queue)
  /\ UNCHANGED <<ready, job, listening, side, sideTimer, loop, crashed, socks,
                 msgs, peer>>

\* The outer loop ends.
JobEnd ==
  /\ Working /\ hand = Nil /\ (queue = <<>> \/ ready = <<>>)
  /\ job' = "idle"
  /\ UNCHANGED <<queue, ready, hand, listening, side, sideTimer, loop, crashed,
                 socks, msgs, peer>>

\* No socket took the message: it goes back to the front of the queue.
JobPutBack ==
  /\ Working /\ hand # Nil /\ ready = <<>>
  /\ queue' = <<hand>> \o queue /\ hand' = Nil
  /\ job' = "idle"
  /\ UNCHANGED <<ready, listening, side, sideTimer, loop, crashed, socks, msgs,
                 peer>>

\* The inner loop is at socket s.
At(s) == Working /\ hand # Nil /\ ready # <<>> /\ s = Head(ready)
NeedsUnix(s) == hand \in Fd /\ s \notin Unix
Usable(s) == conn[s] = "open" /\ ~NeedsUnix(s) /\ HasHandlers(outgoing[s])

\* Mutant of Dropped: the socket goes to the end of the list.
DroppedLast(s) == ready' = Append(Tail(ready), s)

Dropped(s) == ready' = Tail(ready)

\* A socket that is not writable, or has no slot, is dropped.
JobSkip(s) ==
  /\ At(s)
  /\ \/ conn[s] # "open"
     \/ ~NeedsUnix(s) /\ ~HasHandlers(outgoing[s])
  /\ Dropped(s)
  /\ UNCHANGED <<queue, job, hand, listening, side, sideTimer, loop, crashed,
                 socks, msgs, peer>>

\* A socket that cannot carry the descriptor goes to the end of the list.
JobPassOver(s) ==
  /\ At(s) /\ conn[s] = "open" /\ NeedsUnix(s)
  /\ ready' = Append(Tail(ready), s)
  /\ UNCHANGED <<queue, job, hand, listening, side, sideTimer, loop, crashed,
                 socks, msgs, peer>>

\* Mutant of Unflushed: the message always counts as handled.
UnflushedHandled(s) ==
  ready' = Tail(ready) /\ listening' = listening \cup {s} /\ hand' = Nil

\* Not flushed: the job will listen for `drain' on s, and takes the message as
\* handled if some of it was ever written.
Unflushed(s) ==
  /\ ready' = Tail(ready)
  /\ listening' = listening \cup {s}
  /\ hand' = IF off'[hand] = 0 THEN hand ELSE Nil

\* _sendmsg refuses the message: the socket still has one to flush.
JobRefused(s) ==
  /\ At(s) /\ Usable(s) /\ pending[s] # Nil
  /\ ack' = [ack EXCEPT ![hand] = 0]
  /\ UNCHANGED off
  /\ Unflushed(s)
  /\ UNCHANGED <<queue, job, side, sideTimer, loop, crashed, socks, rejects,
                 sent, dispatched, blurred, peer>>

\* A first write of 0 bytes, which a full kernel buffer may answer, leaves the
\* message with the socket and its write offset 0: the job offers it to the next
\* socket as well.  A slot number that does not fit the ack byte
\* (maxOutgoingRequests is not checked) makes the answers name another slot.
Blurs(s) ==
  \/ pending'[s] # Nil /\ off'[hand] = 0
  \/ \E a \in Slots : FreeSlot(s, a) /\ AckByte(a) # a

\* _sendmsg has the message written, whole or in part, or not at all.
JobPut(s, n) ==
  /\ WriteMsg(s, hand, 0, n)
  /\ watching' = [watching EXCEPT ![s] = @ \/ pending'[s] # Nil]
  /\ \/ /\ pending'[s] = Nil
        /\ hand' = Nil
        /\ \/ /\ HasHandlers(outgoing'[s])
              /\ ready' = Append(Tail(ready), s)
              /\ UNCHANGED listening
           \/ /\ ~HasHandlers(outgoing'[s])
              /\ ready' = Tail(ready)
              /\ listening' = listening \cup {s}
     \/ pending'[s] # Nil /\ Unflushed(s)
  /\ blurred' = (blurred \/ Blurs(s))
  /\ UNCHANGED <<queue, job, side, sideTimer, loop, crashed, conn, waitflush,
                 rejects, sent, dispatched>>

JobWrite(s, n) ==
  /\ At(s) /\ Usable(s) /\ pending[s] = Nil
  /\ IF NoAckLeft(s, 0) THEN Crash ELSE JobPut(s, n)

\* The write throws.
JobWriteThrows(s) ==
  /\ At(s) /\ Usable(s) /\ pending[s] = Nil
  /\ WriteThrows(s, hand, 0)
  /\ UNCHANGED off
  /\ Unflushed(s)
  /\ UNCHANGED <<queue, job, side, sideTimer, loop, crashed, pool, outgoing,
                 pending, waitflush, rejects, sent, dispatched, blurred, peer>>

-----------------------------------------------------------------------------
Writable(s) == Quiet /\ conn[s] = "open" /\ watching[s]

\* ReqSocket._onWritable with nothing left to flush.
OnWritableEmpty(s) ==
  /\ Writable(s) /\ pending[s] = Nil
  /\ watching' = [watching EXCEPT ![s] = FALSE]
  /\ waitflush' = [waitflush EXCEPT ![s] = FALSE]
  /\ Drain(s, HasHandlers(outgoing[s]))
  /\ job' = StartJob(queue, ready')
  /\ UNCHANGED <<queue, hand, side, sideTimer, loop, crashed, conn, pool,
                 outgoing, pending, msgs, peer>>

\* ReqSocket._onWritable has n more units of the pending request written.
FlushPut(s, n) ==
  /\ WriteMsg(s, pending[s], ack[pending[s]], n)
  /\ watching' = [watching EXCEPT ![s] = pending'[s] # Nil]
  /\ waitflush' = [waitflush EXCEPT ![s] = pending'[s] # Nil]
  /\ Drain(s, pending'[s] = Nil /\ HasHandlers(outgoing'[s]))
  /\ job' = StartJob(queue, ready')
  /\ UNCHANGED <<queue, hand, side, sideTimer, loop, crashed, conn, rejects,
                 sent, dispatched, blurred>>

OnWritable(s, n) ==
  /\ Writable(s) /\ pending[s] # Nil
  /\ IF NoAckLeft(s, ack[pending[s]]) THEN Crash ELSE FlushPut(s, n)

\* ReqSocket._onWritable, and the write throws.
OnWritableThrows(s) ==
  /\ Writable(s) /\ pending[s] # Nil
  /\ WriteThrows(s, pending[s], ack[pending[s]])
  /\ pending' = [pending EXCEPT ![s] = Nil]
  /\ waitflush' = [waitflush EXCEPT ![s] = TRUE]
  /\ UNCHANGED <<chan, loop, crashed, pool, outgoing, off, rejects, sent,
                 dispatched, blurred, peer>>

\* ReqSocket._processMessage, and the handler of ReqChannel.send, on the
\* peer's answer to frame m.  The peer answers a frame at most once, in any
\* order, and throws on ack 0 (lib/resp.js).  RejectBound bounds rejectCount.
RejectBound(r) == rejects[r] <= MaxRejects

\* Mutant of LastReject: compares the count before the increment.
LastRejectLate(r) == rejects[r] = MaxRejects

LastReject(r) == rejects[r] + 1 = MaxRejects

OnReply(s, m, kind) ==
  /\ Quiet /\ conn[s] = "open" /\ m.ack # 0
  /\ inbox' = [inbox EXCEPT ![s] = @ \ {m}]
  /\ LET r == Waiting(s, m.ack)
         final == kind = "reply" \/ LastReject(r)
     IN IF r = Nil
        THEN UNCHANGED <<chan, pool, outgoing, rejects, dispatched>>
        ELSE /\ kind = "reject" => RejectBound(r)
             /\ FreeAck(s, m.ack)
             /\ Drain(s, ReplyDrains(s))
             /\ rejects' = [rejects EXCEPT ![r] = IF kind = "reject" THEN @ + 1 ELSE @]
             /\ dispatched' = [dispatched EXCEPT ![r] = IF final /\ @ < 2 THEN @ + 1 ELSE @]
             /\ side' = IF final THEN side ELSE Append(side, r)
             /\ sideTimer' = (sideTimer \/ ~final)
             /\ job' = StartJob(queue, ready')
             /\ UNCHANGED <<queue, hand>>
  /\ UNCHANGED <<loop, crashed, conn, pending, watching, waitflush, ack, off,
                 sent, blurred, wire>>

\* The timer of _startSideQueueJob fires.
SideFlush ==
  /\ Quiet /\ sideTimer
  /\ queue' = queue \o side
  /\ side' = <<>> /\ sideTimer' = FALSE
  /\ job' = StartJob(queue', ready)
  /\ UNCHANGED <<ready, hand, listening, loop, crashed, socks, msgs, peer>>

\* End of stream, a read error, or a call of destroy.
Destroy(s) ==
  /\ Quiet /\ "peer" \in Faults /\ conn[s] = "open"
  /\ Destroyed(s)
  /\ UNCHANGED <<chan, loop, crashed, pool, outgoing, pending, waitflush, msgs,
                 peer>>

\* The nextTick callback of destroy emits `close', the channel `disconnect':
\* RequesterImpl_disconnect begins.
OnClose(s) ==
  /\ Quiet /\ conn[s] = "closing"
  /\ conn' = [conn EXCEPT ![s] = "closed"]
  /\ \/ \E i \in DOMAIN ready :
          /\ ready[i] = s /\ \A j \in 1 .. i - 1 : ready[j] # s
          /\ ready' = RemoveAt(ready, i)
     \/ s \notin ToSet(ready) /\ UNCHANGED ready
  /\ leaving' = s /\ key' = MaxOut
  /\ UNCHANGED <<queue, job, hand, listening, side, sideTimer, crashed, pool,
                 outgoing, pending, watching, waitflush, msgs, peer>>

\* Mutant of MoreKeys: the loop runs once more.
MoreKeysAndZero == key >= 0

MoreKeys == key > 0

\* Its loop requeues what waits in the socket's slots, the highest ack first.
Requeue ==
  /\ ~crashed /\ leaving # Nil /\ MoreKeys
  /\ key' = key - 1
  /\ queue' = IF Waiting(leaving, key) = Nil THEN queue
              ELSE Append(queue, Waiting(leaving, key))
  /\ UNCHANGED <<ready, job, hand, listening, side, sideTimer, leaving, crashed,
                 socks, msgs, peer>>

RequeueDone ==
  /\ ~crashed /\ leaving # Nil /\ ~MoreKeys
  /\ leaving' = Nil
  /\ job' = StartJob(queue, ready)
  /\ UNCHANGED <<queue, ready, hand, listening, side, sideTimer, key, crashed,
                 socks, msgs, peer>>

-----------------------------------------------------------------------------
JobStep ==
  \/ JobTake \/ JobEnd \/ JobPutBack
  \/ \E s \in Sock :
       \/ JobSkip(s) \/ JobPassOver(s) \/ JobRefused(s) \/ JobWriteThrows(s)
       \/ \E n \in 0 .. Units : JobWrite(s, n)

Flush(s) ==
  OnWritableEmpty(s) \/ OnWritableThrows(s) \/ \E n \in 0 .. Units : OnWritable(s, n)

Next ==
  \/ \E r \in Req : Send(r)
  \/ \E s \in Sock :
       \/ Connect(s) \/ Flush(s)
       \/ \E m \in inbox[s], kind \in Kinds : OnReply(s, m, kind)
       \/ Destroy(s) \/ OnClose(s)
  \/ JobStart \/ JobStep \/ SideFlush \/ Requeue \/ RequeueDone

Spec == Init /\ [][Next]_vars
-----------------------------------------------------------------------------
(***************************************************************************)
(* Safety.  Five of the properties say "while nothing is blurred": they    *)
(* hold until the first step for which Blurs is true, and the code does    *)
(* not keep them after it.                                                 *)
(***************************************************************************)

\* _outgoingcount is the number of taken slots of _ackwaitpool: the two are
\* kept by separate statements of _writemsg and _processMessage, and
\* hasAvailableHandlers trusts the count.
Taken(s) == {a \in Slots : pool[s][a] # Nil}
AckAccounting == \A s \in Sock : outgoing[s] = Cardinality(Taken(s))

\* "This should never happen": the assertion of _writemsg never meets a
\* socket with no free slot, while nothing is blurred.
NoAckExhaustion == crashed => blurred

\* An open socket is in the ready list once or has the job's drain listener,
\* never both and never neither: the job drops no usable socket for good,
\* and a ready socket always has a free slot, while nothing is blurred.
InReadyOnce(s) == \E i \in DOMAIN ready :
                    /\ ready[i] = s
                    /\ \A j \in DOMAIN ready : ready[j] = s => j = i
SocketNotForgotten ==
  ~blurred => \A s \in Sock : conn[s] = "open" =>
    \/ s \notin listening /\ InReadyOnce(s) /\ HasHandlers(outgoing[s])
    \/ s \in listening /\ s \notin ToSet(ready)

\* A drain listener is never installed for an event that cannot come: the
\* socket has a write to flush and its watcher is started, or all its slots
\* are taken and the next answer will emit `drain'.
WakeupGuaranteed ==
  ~crashed => \A s \in Sock : conn[s] = "open" =>
    /\ pending[s] # Nil => watching[s]
    /\ pending[s] = Nil => ~waitflush[s]
    /\ s \in listening => pending[s] # Nil \/ outgoing[s] = MaxOut

\* Requests do not wait while a socket is ready: whenever both lists have
\* something, the job is scheduled or running.
NoIdleBacklog ==
  Quiet /\ job = "idle" => queue = <<>> \/ ready = <<>>

\* The places where r waits: the queues, the job's hand, and the slots of the
\* sockets whose slots were not requeued yet.
InSlot(s, a) == conn[s] # "closed" \/ (s = leaving /\ a <= key)
Places(r) ==
  {<<"queue", i>> : i \in {j \in DOMAIN queue : queue[j] = r}}
  \cup {<<"side", i>> : i \in {j \in DOMAIN side : side[j] = r}}
  \cup {<<"hand">> : x \in {y \in {hand} : y = r}}
  \cup {<<"slot", t>> : t \in {u \in Sock \X Slots :
            InSlot(u[1], u[2]) /\ pool[u[1]][u[2]] = r}}

\* A request waits in one place at a time, and in none once its sender got the
\* final answer: it is never given to two endpoints at once, while nothing is
\* blurred.
HeldOnce ==
  ~blurred => \A r \in Req : Cardinality(Places(r)) <= (IF r \in sent /\ dispatched[r] = 0 THEN 1 ELSE 0)

\* A request without an answer waits somewhere, unless a second attempt to
\* send it began with the write offset of the first, while nothing is blurred.
NoRequestLost ==
  ~blurred => \A r \in sent : dispatched[r] = 0 =>
    \/ Places(r) # {}
    \/ /\ off[r] # 0
       /\ rejects[r] > 0 \/ \E s \in Sock : conn[s] \in {"closing", "closed"}

\* The slot an answer will be matched with holds the request the peer answers,
\* for as long as the peer can answer it and nothing is blurred.
ReplyCorrelation ==
  ~blurred => \A s \in Sock : conn[s] = "open" =>
    \A m \in inbox[s] : m.ack # 0 /\ Waiting(s, m.ack) = m.req

\* Frames reach the peer whole: no connection's byte stream loses its framing.
NoTornFrame == \A s \in Sock : ~wire[s].torn

-----------------------------------------------------------------------------
(***************************************************************************)
(* Refinement: the channel implements Requests.                            *)
(***************************************************************************)
HasIt(s, r) == conn[s] # "closed" /\ \E a \in Slots : pool[s][a] = r
Out(r) == \E s \in Sock : HasIt(s, r)

AbsState == [r \in Req |-> IF r \notin sent THEN "unsent"
                           ELSE IF Out(r) THEN "out"
                           ELSE IF dispatched[r] > 0 THEN "settled" ELSE "waiting"]
AbsHolder == [r \in Req |-> IF Out(r) THEN CHOOSE s \in Sock : HasIt(s, r) ELSE Nil]

Abstract == INSTANCE Requests WITH
  state <- AbsState, holder <- AbsHolder, refusals <- rejects

\* Whatever is written, rejected, flushed or disconnected in whatever order, a
\* request is with at most one endpoint, no endpoint has more than MaxOut, and
\* the sender's handler gets one final answer, from the endpoint that had it:
\* every step after which nothing is blurred is a step of Requests, or none.
ImplementsRequests ==
  Abstract!Init /\ [][~blurred' => Abstract!Next]_(Abstract!vars)

-----------------------------------------------------------------------------
(***************************************************************************)
(* Liveness                                                                *)
(***************************************************************************)
\* A flush that gets somewhere.
FlushOn(s) ==
  OnWritableEmpty(s) \/ OnWritableThrows(s) \/ \E n \in 1 .. Units : OnWritable(s, n)

\* The event loop runs every callback that stays due.  A socket the kernel keeps
\* reporting writable takes a unit at last, and a peer answers every whole
\* request it got (assumptions on the kernel and the peer, not on this code).
Fairness ==
  /\ WF_vars(JobStart) /\ WF_vars(JobStep) /\ WF_vars(SideFlush)
  /\ WF_vars(Requeue) /\ WF_vars(RequeueDone)
  /\ \A s \in Sock :
       /\ WF_vars(Connect(s)) /\ WF_vars(FlushOn(s)) /\ WF_vars(OnClose(s))
       /\ \A r \in Req : WF_vars(\E m \in inbox[s], kind \in Kinds :
                                    m.req = r /\ OnReply(s, m, kind))

LiveSpec == Spec /\ Fairness

\* The known damage: a request that was once written in part is, or was, sent
\* again from the middle, or something is blurred.
Stale ==
  \/ blurred
  \/ \E s \in Sock : wire[s].torn
  \/ \E r \in sent : off[r] # 0 /\ (r \in ToSet(queue) \cup ToSet(side) \cup {hand})
  \/ \E r \in sent : dispatched[r] = 0 /\ Places(r) = {}

\* A request with a descriptor while only connections that cannot carry one are
\* ready: the job's inner loop turns the list round for ever.
Stranded ==
  /\ hand \in Fd /\ ready # <<>>
  /\ \A s \in ToSet(ready) : conn[s] = "open" /\ s \notin Unix

AllGone == \A s \in Sock : conn[s] \in {"closing", "closed"}

\* Every request sent is answered, or rejected for good, as long as one
\* connection stays, no request is sent again from the middle and nothing is
\* blurred.
EventuallySettled ==
  \A r \in Req : r \in sent ~> dispatched[r] > 0 \/ AllGone \/ Stale \/ Stranded

\* A socket the job listens on comes back to the ready list or goes away.
SocketComesBack ==
  \A s \in Sock :
    s \in listening ~> s \notin listening \/ conn[s] # "open" \/ Stale \/ Stranded

\* The request queue job hands the event loop back, unless a descriptor has
\* only connections that cannot carry it or something is blurred.
JobTerminates == job = "running" ~> job # "running" \/ Stranded \/ blurred
=============================================================================
