-------------------------------- MODULE Stream --------------------------------
(***************************************************************************)
(* The stream socket of lib/socket.js, at both ends of one connection: its *)
(* send queue, _sendmsg, flush, _onWritable, _onReadable, pause, resume,   *)
(* destroySoon and destroy, over the kernel (unix, tcp) or over the        *)
(* in-process transport of lib/memsock.js.                                 *)
(*                                                                         *)
(* The end "a" connects, the end "b" is accepted.  Every action is one     *)
(* callback or call.  nextTick callbacks that are due run in any order.    *)
(***************************************************************************)
EXTENDS Framing

CONSTANTS
  From,   \* the end that sends each message, for each transport
  Types,  \* the transports: a subset of {"unix", "tcp", "mem"}
  Cap     \* bytes the kernel holds in each direction

End == {"a", "b"}
Peer(e) == IF e = "a" THEN "b" ELSE "a"

ASSUME StreamAssumption ==
  /\ Types \subseteq {"unix", "tcp", "mem"}
  /\ From \in [Types -> [Msg -> End]]
  /\ Cap \in Nat \ {0}

VARIABLES
  type,       \* type of both sockets
  life,       \* "none" before accept, "connecting", "open", "destroyed"
  sendq,      \* _sendqueue
  off,        \* msg._off
  wwatch,     \* _writeWatcher is started
  rwatch,     \* _readWatcher is started (the readwatcher of a mem descriptor)
  soon,       \* __destroyOnDrain
  buf,        \* the bytes in _currbuffer (and those of its length)
  cur,        \* the part being read, <<Nil, 0>> while its length is
  cache,      \* _multipartcache
  pendingfd,  \* _pendingfd
  wire,       \* bytes on their way to an end (incomming of a mem descriptor)
  eof,        \* the end of the stream is behind them
  due,        \* mem: the read watcher's notification is due (_notifying)
  shake,      \* how far the connection is: see TypeOK
  down,       \* an exception left a callback: the process ends
  \* history
  sent, delivered,
  doubled,    \* a fresh message of this end met a write that answered 0
  torn,       \* this end read bytes that are no frame; it is not followed further
  missed      \* a mem end did not listen when something came

socks  == <<life, sendq, off, wwatch, rwatch, soon>>
reader == <<buf, cur, cache, pendingfd, delivered, torn>>
mems   == <<due, shake, missed>>
vars   == <<type, socks, reader, wire, eof, mems, down, sent, doubled>>

Native == type # "mem"
NoPart == <<Nil, 0>>
Byte   == UNION {{<<m, k>> : k \in 0 .. BufferSize(m) - 1} : m \in Msg}

\* Every variable keeps its type; no offset reaches the end of its message,
\* the kernel holds no more than it can, and a reader never has more than the
\* frame it reads.
TypeOK ==
  /\ type \in Types
  /\ life \in [End -> {"none", "connecting", "open", "destroyed"}]
  /\ sendq \in [End -> Seq(Msg)]
  /\ off \in [Msg -> Nat] /\ \A m \in Msg : off[m] < BufferSize(m)
  /\ \A f \in {wwatch, rwatch, soon, eof, due, doubled, torn, missed} : f \in [End -> BOOLEAN]
  /\ cur \in [End -> (Msg \X Nat) \cup {NoPart}]
  /\ cache \in [End -> Seq(Msg \X Nat)]
  /\ pendingfd \in [End -> Msg \cup {Nil}]
  /\ wire \in [End -> Seq(Byte)] /\ buf \in [End -> Seq(Byte)]
  /\ \A e \in End :
       /\ Native => Len(wire[e]) <= Cap
       /\ Len(buf[e]) < IF cur[e] = NoPart THEN LengthSize ELSE PartSize(cur[e][1], cur[e][2])
  /\ shake \in {"new", "pending",      \* not dialed, not accepted
                "accepted", "notified", \* mem: the connecting end is told in two steps
                "done"}
  /\ down \in BOOLEAN
  /\ sent \in [End -> Seq(Msg)]
  /\ delivered \in [End -> Seq([msg : Msg, fd : Msg \cup {Nil}])]

\* Nothing is on its way between the descriptors of the two ends.
Descriptors ==
  /\ wire = [e \in End |-> <<>>] /\ eof = [e \in End |-> FALSE]
  /\ due = [e \in End |-> FALSE] /\ shake = "new"

Init ==
  /\ type \in Types /\ Descriptors
  /\ life = [e \in End |-> IF e = "a" THEN "connecting" ELSE "none"]
  /\ sendq = [e \in End |-> <<>>] /\ off = [m \in Msg |-> 0]
  /\ wwatch = [e \in End |-> FALSE] /\ rwatch = [e \in End |-> FALSE]
  /\ soon = [e \in End |-> FALSE]
  /\ buf = [e \in End |-> <<>>] /\ cur = [e \in End |-> NoPart]
  /\ cache = [e \in End |-> <<>>] /\ pendingfd = [e \in End |-> Nil]
  /\ down = FALSE
  /\ sent = [e \in End |-> <<>>] /\ delivered = [e \in End |-> <<>>]
  /\ doubled = [e \in End |-> FALSE] /\ torn = [e \in End |-> FALSE]
  /\ missed = [e \in End |-> FALSE]

-----------------------------------------------------------------------------
(***************************************************************************)
(* Sending                                                                 *)
(***************************************************************************)
Rest(m) == SubSeq(Buffer(m), off[m] + 1, BufferSize(m))

\* mem: the peer has a descriptor (remotefd), and somebody reads it.
Linked(e)   == life["b"] # "none" /\ life[Peer(e)] # "destroyed"
Listened(e) == Linked(e) /\ rwatch[Peer(e)]

\* The first j messages of q whole, and n bytes of the next.
Bytes(q, j, n) ==
  FlattenSeq([i \in 1 .. j |-> Rest(q[i])])
    \o (IF j < Len(q) THEN SubSeq(Rest(q[j + 1]), 1, n) ELSE <<>>)

\* How far the loop of flush, or one _writemsg, gets.  The kernel takes what it
\* has room for, which may be nothing, and nothing before it is connected;
\* memsock.write takes all, but answers 0 when nobody listens at the other end.
Room(e) == Cap - Len(wire[Peer(e)])
Reaches(e, q, j, n) ==
  /\ j \in 0 .. Len(q)
  /\ n \in IF j = Len(q) THEN {0} ELSE 0 .. Len(Rest(q[j + 1])) - 1
  /\ IF Native
     THEN LET put == Len(Bytes(q, j, n))
          IN /\ put <= Room(e)
             /\ j < Len(q) => put = Room(e) \/ (life[e] = "connecting" /\ put = 0)
     ELSE j = (IF Listened(e) THEN Len(q) ELSE 0) /\ n = 0

\* memsock.write keeps the bytes for which it answers 0.
Kept(e, q) == ~Native /\ q # <<>> /\ Linked(e) /\ ~Listened(e)

Transmit(e, q, j, n) ==
  /\ Reaches(e, q, j, n)
  /\ wire' = [wire EXCEPT ![Peer(e)] =
                IF Kept(e, q) THEN @ \o Rest(Head(q))
                ELSE IF eof[e] THEN @ ELSE @ \o Bytes(q, j, n)]
  /\ off' = IF j < Len(q) THEN [off EXCEPT ![q[j + 1]] = @ + n] ELSE off

\* The read watcher of e is notified when new bytes or the end arrive.
Notified(e, arrived) ==
  IF ~Native /\ arrived /\ rwatch[e] THEN [due EXCEPT ![e] = TRUE] ELSE due

\* Mutant of Gone: the other end is not told.
GoneSilent(e, d) ==
  /\ life' = [life EXCEPT ![e] = "destroyed"]
  /\ rwatch' = [rwatch EXCEPT ![e] = FALSE]
  /\ wwatch' = [wwatch EXCEPT ![e] = FALSE]
  /\ down' = (~Native /\ ~Linked(e))
  /\ due' = d
  /\ UNCHANGED eof

\* Socket.destroy, with memsock.close: the latter fails on an end that was
\* never accepted, and on the second of two, whose name the first has cleared.
Gone(e, d) ==
  /\ life' = [life EXCEPT ![e] = "destroyed"]
  /\ rwatch' = [rwatch EXCEPT ![e] = FALSE]
  /\ wwatch' = [wwatch EXCEPT ![e] = FALSE]
  /\ down' = (~Native /\ ~Linked(e))
  /\ due' = IF ~Native /\ Listened(e) THEN [d EXCEPT ![Peer(e)] = TRUE] ELSE d
  /\ eof' = [eof EXCEPT ![Peer(e)] = TRUE]

\* Mutant of Requeued: the rest of a partly written message is forgotten.
RequeuedNot(m) == IF off'[m] = 0 THEN <<m, m>> ELSE <<>>

\* _writemsg puts an unfinished message to the front of the queue, and _sendmsg
\* does so again if none of it was ever written.
Requeued(m) == IF off'[m] = 0 THEN <<m, m>> ELSE <<m>>

\* History: what a mem end that does not listen is not told of.
Remember ==
  missed' = [e \in End |->
    \/ missed[e]
    \/ ~Native /\ life'[e] # "destroyed" /\ ~rwatch'[e] /\ (wire'[e] # <<>> \/ eof'[e])]

Queueing(e) == life[e] # "open" \/ sendq[e] # <<>>

\* _sendmsg, where the message has to wait for others or for the connection.
\* A destroyed socket keeps its messages too.
SendQueued(e, m) ==
  /\ Queueing(e)
  /\ sendq' = [sendq EXCEPT ![e] = Append(@, m)]
  /\ UNCHANGED <<life, off, wwatch, rwatch, soon, wire, eof, due, down, doubled>>

\* _sendmsg writes.
SendWritten(e, m, j, n) ==
  /\ ~Queueing(e)
  /\ Transmit(e, <<m>>, j, n)
  /\ sendq' = [sendq EXCEPT ![e] = IF j = 1 THEN <<>> ELSE Requeued(m)]
  /\ wwatch' = [wwatch EXCEPT ![e] = @ \/ j = 0]
  /\ doubled' = [doubled EXCEPT ![e] = @ \/ (j = 0 /\ off'[m] = 0)]
  /\ due' = Notified(Peer(e), Listened(e))
  /\ UNCHANGED <<life, rwatch, soon, eof, down>>

\* The write throws: the other end is gone.
SendThrows(e, m) ==
  /\ ~Queueing(e) /\ Native /\ eof[e]
  /\ Gone(e, due)
  /\ sendq' = [sendq EXCEPT ![e] = <<m>>]
  /\ UNCHANGED <<off, soon, wire, doubled>>

Send(e, m) ==
  /\ ~down /\ life[e] # "none"
  /\ From[type][m] = e /\ m \notin ToSet(sent[e])
  /\ sent' = [sent EXCEPT ![e] = Append(@, m)]
  /\ \/ SendQueued(e, m) \/ SendThrows(e, m)
     \/ \E j \in 0 .. 1, n \in 0 .. Cap : SendWritten(e, m, j, n)
  /\ UNCHANGED <<type, reader, shake>>
  /\ Remember

\* Mutant of Rewatch: stopped after every flush.
RewatchNot(e, j) == wwatch' = [wwatch EXCEPT ![e] = FALSE]

\* flush leaves the write watcher started as long as there is more to write.
Rewatch(e, j) == wwatch' = [wwatch EXCEPT ![e] = j < Len(sendq[e])]

\* _onWritable: flush, and destroy after it if destroySoon asked for it.
Flush(e, j, n) ==
  /\ Transmit(e, sendq[e], j, n)
  /\ sendq' = [sendq EXCEPT ![e] = SubSeq(@, j + 1, Len(@))]
  /\ doubled' = [doubled EXCEPT ![e] = @ \/ Kept(e, sendq[e])]

Flushed(e, j) == j = Len(sendq[e])

OnWritable(e, j, n) ==
  /\ ~down /\ Native /\ life[e] = "open" /\ wwatch[e]
  /\ Flush(e, j, n)
  /\ IF Flushed(e, j) /\ soon[e]
     THEN Gone(e, due)
     ELSE Rewatch(e, j) /\ UNCHANGED <<life, rwatch, eof, due, down>>
  /\ UNCHANGED <<type, soon, reader, shake, missed, sent>>

\* The write of a flush throws, in _onWritable or in destroySoon.
FlushThrows(e) ==
  /\ ~down /\ Native /\ life[e] = "open" /\ (wwatch[e] \/ ~soon[e])
  /\ sendq[e] # <<>> /\ eof[e]
  /\ Gone(e, due)
  /\ sendq' = [sendq EXCEPT ![e] = Tail(@)]
  /\ UNCHANGED <<type, off, soon, reader, wire, shake, missed, sent, doubled>>

\* destroySoon, called once for a socket.
DestroySoon(e, j, n) ==
  /\ ~down /\ life[e] \in {"connecting", "open"} /\ ~soon[e]
  /\ Flush(e, j, n)
  /\ LET d == Notified(Peer(e), sendq[e] # <<>> /\ Listened(e))
     IN IF Flushed(e, j)
        THEN Gone(e, d) /\ UNCHANGED soon
        ELSE /\ soon' = [soon EXCEPT ![e] = TRUE]
             /\ wwatch' = [wwatch EXCEPT ![e] = TRUE]
             /\ due' = d
             /\ UNCHANGED <<life, rwatch, eof, down>>
  /\ UNCHANGED <<type, reader, shake, sent>>
  /\ Remember

\* A call of destroy, or a read that throws.
Destroy(e) ==
  /\ ~down /\ life[e] \in {"connecting", "open"}
  /\ Gone(e, due)
  /\ UNCHANGED <<type, sendq, off, soon, reader, wire, shake, sent, doubled>>
  /\ Remember

-----------------------------------------------------------------------------
(***************************************************************************)
(* Connecting                                                              *)
(***************************************************************************)

\* The connect worker calls connect, which finds the listener.  The watcher of a
\* mem end is not told before that, and the kernel's not before it is open.
Dial ==
  /\ ~down /\ shake = "new" /\ life["a"] = "connecting"
  /\ shake' = "pending"
  /\ wwatch' = [wwatch EXCEPT !["a"] = TRUE]
  /\ UNCHANGED <<type, life, sendq, off, rwatch, soon, reader, wire, eof, due, missed,
                 down, sent, doubled>>

\* The read watcher of e is started, and stopped.
Started(e) == rwatch' = [rwatch EXCEPT ![e] = TRUE]
Stopped(e) == rwatch' = [rwatch EXCEPT ![e] = FALSE]

\* The listener's callback: accept, open and resume.
Accept ==
  /\ ~down /\ life["b"] = "none" /\ shake = "pending"
  /\ life' = [life EXCEPT !["b"] = "open"]
  /\ Started("b")
  /\ shake' = IF Native THEN "done" ELSE "accepted"
  /\ UNCHANGED <<type, sendq, off, wwatch, soon, reader, wire, eof, due, missed,
                 down, sent, doubled>>

\* memsock.accept's nextTick callback notifies the connecting end's watcher, if
\* it is still there.
Wake ==
  /\ ~down /\ shake = "accepted"
  /\ shake' = IF life["a"] = "connecting" THEN "notified" ELSE "done"
  /\ UNCHANGED <<type, socks, reader, wire, eof, due, missed, down, sent, doubled>>

\* _onConnect: resume, and flush what was sent meanwhile.
Connected(j, n) ==
  /\ ~down /\ life["a"] = "connecting"
  /\ shake \in IF Native THEN {"pending", "done"} ELSE {"notified"}
  /\ shake' = IF Native THEN shake ELSE "done"
  /\ Flush("a", j, n)
  /\ IF sendq["a"] # <<>> /\ Flushed("a", j) /\ soon["a"]
     THEN Gone("a", Notified("b", Listened("a")))
     ELSE /\ life' = [life EXCEPT !["a"] = "open"]
          /\ Started("a")
          /\ wwatch' = [wwatch EXCEPT !["a"] = sendq["a"] = <<>> \/ ~Flushed("a", j)]
          /\ due' = Notified("b", sendq["a"] # <<>> /\ Listened("a"))
          /\ UNCHANGED <<eof, down>>
  /\ UNCHANGED <<type, soon, reader, sent>>
  /\ Remember

-----------------------------------------------------------------------------
(***************************************************************************)
(* Reading                                                                 *)
(***************************************************************************)
Readable(e) ==
  /\ ~down /\ ~torn[e] /\ life[e] = "open"
  /\ IF Native THEN rwatch[e] ELSE due[e]

Wanted(e) == (IF cur[e] = NoPart THEN LengthSize
              ELSE LengthField(PartSize(cur[e][1], cur[e][2]))) - Len(buf[e])

\* A read gives what has arrived, up to what was asked for.
Amount(e) == Min({Wanted(e), Len(wire[e])})

\* recvMsg gives the descriptor with the first of its message's bytes.
Received(e, bytes) ==
  IF type = "unix" /\ \E i \in DOMAIN bytes : bytes[i][1] \in Carrying /\ bytes[i][2] = 0
  THEN bytes[CHOOSE i \in DOMAIN bytes : bytes[i][1] \in Carrying /\ bytes[i][2] = 0][1]
  ELSE pendingfd[e]

\* parseMessage and _processMessage, on the bytes of part p of m.
Parse(e, m, p, bytes) ==
  /\ cache' = [cache EXCEPT ![e] = Cached(@, m, p)]
  /\ delivered' = IF Completes(m, p)
                  THEN [delivered EXCEPT ![e] = Append(@, Delivery(m, pendingfd'[e]))]
                  ELSE delivered
  /\ torn' = [torn EXCEPT ![e] =
                bytes # Part(m, p) \/ (Completes(m, p) /\ ~Joined(cache[e], m, p))]

\* Mutant of NextFrame: the part that was read stays the current buffer.
NextFrameNot(e, bytes) == cur' = cur /\ buf' = [buf EXCEPT ![e] = bytes]

\* Back to the size buffer.
NextFrame(e, bytes) ==
  /\ cur' = [cur EXCEPT ![e] = NoPart]
  /\ buf' = [buf EXCEPT ![e] = <<>>]

\* memsock.read notifies again as long as there is more.
Reread(e, k) ==
  IF Native THEN due
  ELSE [due EXCEPT ![e] = rwatch[e] /\ (k < Len(wire[e]) \/ eof[e])]

OnReadable(e) ==
  /\ Readable(e) /\ wire[e] # <<>>
  /\ LET k   == Amount(e)
         got == SubSeq(wire[e], 1, k)
         all == buf[e] \o got
     IN /\ wire' = [wire EXCEPT ![e] = SubSeq(@, k + 1, Len(@))]
        /\ pendingfd' = [pendingfd EXCEPT ![e] = Received(e, got)]
        /\ \/ /\ cur[e] = NoPart /\ Len(all) = LengthSize
              /\ cur' = [cur EXCEPT ![e] = Headed(all)]
              /\ torn' = [torn EXCEPT ![e] = Headed(all) = NoPart]
              /\ buf' = [buf EXCEPT ![e] = IF Headed(all) = NoPart THEN <<>> ELSE all]
              /\ UNCHANGED <<cache, delivered>>
           \/ /\ cur[e] # NoPart /\ k = Wanted(e)
              /\ NextFrame(e, all)
              /\ Parse(e, cur[e][1], cur[e][2], all)
           \/ /\ k < Wanted(e)
              /\ buf' = [buf EXCEPT ![e] = all]
              /\ UNCHANGED <<cur, cache, delivered, torn>>
        /\ due' = Reread(e, k)
  /\ UNCHANGED <<type, socks, eof, shake, down, sent, doubled>>
  /\ Remember

\* _processMessage: the handler of a message throws, which destroys the socket.
RecvThrows(e) ==
  /\ Readable(e) /\ cur[e] # NoPart
  /\ Amount(e) = Wanted(e) /\ Completes(cur[e][1], cur[e][2])
  /\ LET k   == Amount(e)
         got == SubSeq(wire[e], 1, k)
     IN /\ wire' = [wire EXCEPT ![e] = SubSeq(@, k + 1, Len(@))]
        /\ pendingfd' = [pendingfd EXCEPT ![e] = Received(e, got)]
        /\ NextFrame(e, buf[e] \o got)
        /\ Parse(e, cur[e][1], cur[e][2], buf[e] \o got)
        /\ Gone(e, Reread(e, k))
  /\ UNCHANGED <<type, sendq, off, soon, shake, sent, doubled>>
  /\ Remember

\* _onReadable at the end of the stream: _shutdown destroys the socket, which
\* is not readable any more.
OnEnd(e) ==
  /\ Readable(e) /\ wire[e] = <<>> /\ eof[e]
  /\ Gone(e, [due EXCEPT ![e] = FALSE])
  /\ UNCHANGED <<type, sendq, off, soon, reader, wire, shake, sent, doubled>>
  /\ Remember

\* mem: a notification that is due when its watcher is freed finds no socket.
StaleNotification(e) ==
  /\ ~down /\ life[e] = "destroyed"
  /\ due[e] \/ (e = "a" /\ shake = "notified")
  /\ down' = TRUE
  /\ UNCHANGED <<type, socks, reader, wire, eof, mems, sent, doubled>>

\* pause and resume; memsock's watcher forgets its descriptor, and starting it
\* again tells it of nothing that came meanwhile.
Pause(e) ==
  /\ ~down /\ life[e] = "open" /\ rwatch[e]
  /\ Stopped(e)
  /\ UNCHANGED <<type, life, sendq, off, wwatch, soon, reader, wire, eof, due,
                 shake, down, sent, doubled>>
  /\ Remember
Resume(e) ==
  /\ ~down /\ life[e] = "open" /\ ~rwatch[e]
  /\ Started(e)
  /\ UNCHANGED <<type, life, sendq, off, wwatch, soon, reader, wire, eof, mems,
                 down, sent, doubled>>

-----------------------------------------------------------------------------
Writing(e) == \E j \in 0 .. Len(sendq[e]), n \in 0 .. Cap : OnWritable(e, j, n)
Connecting == \E j \in 0 .. Len(sendq["a"]), n \in 0 .. Cap : Connected(j, n)

Callback(e) ==
  OnReadable(e) \/ RecvThrows(e) \/ OnEnd(e) \/ FlushThrows(e) \/ StaleNotification(e)

Next ==
  \/ \E m \in Msg : Send(From[type][m], m)
  \/ Dial \/ Accept \/ Wake \/ Connecting
  \/ \E e \in End :
       \/ Writing(e) \/ Callback(e) \/ Pause(e) \/ Resume(e) \/ Destroy(e)
       \/ \E j \in 0 .. Len(sendq[e]), n \in 0 .. Cap : DestroySoon(e, j, n)

Spec == Init /\ [][Next]_vars

\* The kernel and the event loop run the callbacks that are due; nothing makes
\* the program send, pause, resume or destroy.
Fairness ==
  /\ WF_vars(Dial) /\ WF_vars(Accept) /\ WF_vars(Wake) /\ WF_vars(Connecting)
  /\ \A e \in End : WF_vars(Writing(e)) /\ WF_vars(Callback(e))

LiveSpec == Spec /\ Fairness

-----------------------------------------------------------------------------
(***************************************************************************)
(* Properties                                                              *)
(***************************************************************************)

\* What e is owed: all its peer sent, a descriptor with each message that
\* carries one where the transport does.
Owed(e) ==
  [i \in DOMAIN sent[Peer(e)] |->
     [msg |-> sent[Peer(e)][i],
      fd  |-> IF type = "unix" /\ sent[Peer(e)][i] \in Carrying
              THEN sent[Peer(e)][i] ELSE Nil]]

\* Each end gets whole messages, each once, in the order they were sent, with
\* their own descriptors, however the bytes are cut on their way
\* (_onReadable, parseMessage, _sendmsg, flush).  The exception is a first
\* write that takes nothing: _sendmsg puts the message to the queue twice.
InOrder == \A e \in End :
  ~doubled[Peer(e)] => ~torn[e] /\ IsPrefix(delivered[e], Owed(e))

\* An end that is open is never left without the watcher it waits for.  Over unix
\* and tcp, messages in the queue have a write watcher; a mem socket has none (its
\* watcher's start does nothing), and keeps messages only after a first write
\* nobody listened to, or when its peer is gone.  Bytes that came over a mem
\* socket have a notification due, and a destroySoon that waits has something to
\* wait for.
NoStall == ~down => \A e \in End : life[e] = "open" =>
  /\ sendq[e] # <<>> => IF Native THEN wwatch[e] ELSE doubled[e] \/ eof[e]
  /\ soon[e] => sendq[e] # <<>>
  /\ ~Native /\ rwatch[e] /\ ~missed[e] =>
       (due[e] <=> wire[e] # <<>> \/ eof[e])

Got(e, m) == \E i \in DOMAIN delivered[e] : delivered[e][i].msg = m
Ended == down \/ \E e \in End : life[e] = "destroyed"

\* A message is delivered to a peer that goes on reading, unless the connection
\* ends or the first write took nothing (the queue, _writeWatcher, resume).
EventuallyDelivered == \A e \in End, m \in Msg :
  [](m \in ToSet(sent[Peer(e)]) /\ [](rwatch[e] \/ life[e] # "open")
     => <>(Got(e, m) \/ Ended \/ doubled[Peer(e)] \/ missed[e]))

\* When one end is destroyed, or will be once it has sent what it holds, the
\* other end, if it goes on reading, is destroyed too (_shutdown, memsock.close).
\* A socket that was never dialed has no other end.
EndsTogether == \A e \in End :
  [](life[e] = "destroyed" \/ soon[e]
     => <>(\/ down \/ shake = "new" \/ \A f \in End : life[f] = "destroyed"
           \/ \E f \in End : torn[f] \/ doubled[f] \/ missed[f] \/ (~rwatch[f] /\ life[f] = "open")))
=============================================================================
