------------------------------- MODULE PubQueue -------------------------------
(***************************************************************************)
(* The send queue of a `pub' channel (lib/pub.js): _sendmsg, the queue job *)
(* that writes each message to every socket the filter picks, and the      *)
(* DrainWaitHandle it waits with when a write is not complete.             *)
(*                                                                         *)
(* The job writes behind the back of the sockets' own send queues, and one *)
(* message object, with one _off, goes to all of them.                     *)
(***************************************************************************)
EXTENDS Integers, SequencesExt

CONSTANTS
  MaxMsg,   \* bound: the messages that are sent, 1 .. MaxMsg
  Sock,     \* the sockets that may connect, each once
  Size,     \* the bytes of every message
  MaxHits   \* the most patterns of each socket that match every message

ASSUME PubQueueAssumption ==
  /\ MaxMsg \in Nat /\ Size \in Nat \ {0}
  /\ IsFiniteSet(Sock) /\ MaxHits \in [Sock -> Nat]

Msg == 1 .. MaxMsg

VARIABLES
  \* PubChannel
  conns,     \* _sockets
  queue,     \* _sendqueue
  running,   \* _sendqueue.running
  ticks,     \* nextTick(run) callbacks that are due
  count,     \* _count of the DrainWaitHandle
  \* PubSocket
  life,      \* "new", "open", "closing" (destroyed, `close' is due), "closed"
  hits,      \* how often rawPatternFilter puts the socket in its result
  sendq,     \* _sendqueue
  ondrain,   \* the socket's ondrain is a `free' of the handle
  onclose,   \* how many `free's listen to the socket's `close'
  off,       \* msg._off
  \* history
  accepted,  \* what _sendmsg took, in order
  stream,    \* what was written to each socket
  cut        \* messages for several sockets of which one did not take all

channel == <<conns, queue, running, ticks, count>>
handle  == <<ondrain, onclose>>
vars == <<channel, life, hits, sendq, handle, off, accepted, stream, cut>>

Boundary == <<0, 0>>

\* Every variable keeps its type, and the queue is run by one job at most.
TypeOK ==
  /\ conns \in Seq(Sock) /\ IsInjective(conns)
  /\ queue \in Seq(Msg) /\ running \in BOOLEAN /\ count \in Nat
  /\ ticks = (IF running /\ count = 0 THEN 1 ELSE 0)
  /\ life \in [Sock -> {"new", "open", "closing", "closed"}]
  /\ \A s \in Sock : hits[s] \in 0 .. MaxHits[s]
  /\ sendq \in [Sock -> Seq(Msg)]
  /\ ondrain \in [Sock -> BOOLEAN] /\ onclose \in [Sock -> Nat]
  /\ off \in [Msg -> 0 .. Size - 1]
  /\ accepted \in Seq(Msg) /\ cut \subseteq Msg
  /\ stream \in [Sock -> [at : {Boundary} \cup (Msg \X (1 .. Size - 1)),
                          got : Seq(Msg), torn : Msg \cup {0}]]

Init ==
  /\ conns = <<>> /\ queue = <<>> /\ running = FALSE /\ ticks = 0 /\ count = 0
  /\ life = [s \in Sock |-> "new"] /\ hits = [s \in Sock |-> 0]
  /\ sendq = [s \in Sock |-> <<>>]
  /\ ondrain = [s \in Sock |-> FALSE] /\ onclose = [s \in Sock |-> 0]
  /\ off = [m \in Msg |-> 0]
  /\ accepted = <<>> /\ cut = {}
  /\ stream = [s \in Sock |-> [at |-> Boundary, got |-> <<>>, torn |-> 0]]

-----------------------------------------------------------------------------
\* n bytes of m from byte o on are added to what was written to a socket; torn
\* is the first message that does not continue it.
Put(st, m, o, n) ==
  LET fits == st.at = <<m, o>> \/ (st.at = Boundary /\ o = 0)
  IN IF n = 0 \/ st.torn # 0 THEN st
     ELSE IF ~fits THEN [st EXCEPT !.torn = m]
     ELSE IF o + n = Size THEN [st EXCEPT !.at = Boundary, !.got = Append(@, m)]
     ELSE [st EXCEPT !.at = <<m, o + n>>]

\* _writemsg leaves _off where it was when the message is complete.
Moved(o, n) == IF o + n = Size THEN o ELSE o + n

\* A socket connects: the channel lists it.
Attach(s) ==
  /\ life[s] = "new"
  /\ life' = [life EXCEPT ![s] = "open"]
  /\ conns' = Append(conns, s)
  /\ \E h \in 0 .. MaxHits[s] : hits' = [hits EXCEPT ![s] = h]
  /\ UNCHANGED <<queue, running, ticks, count, sendq, handle, off, accepted, stream, cut>>

\* Mutant of StartSendQueueJob: the running job is not looked at.
StartSendQueueJobAgain == running' = TRUE /\ ticks' = ticks + 1

\* _startSendQueueJob
StartSendQueueJob ==
  /\ running' = TRUE
  /\ ticks' = IF running THEN ticks ELSE ticks + 1

\* _sendmsg: with no sockets the message is discarded.
SendMsg(m) ==
  /\ m = Len(accepted) + 1
  /\ conns # <<>>
  /\ queue' = Append(queue, m)
  /\ accepted' = Append(accepted, m)
  /\ StartSendQueueJob
  /\ UNCHANGED <<conns, count, life, hits, sendq, handle, off, stream, cut>>

-----------------------------------------------------------------------------
(***************************************************************************)
(* The queue job                                                           *)
(***************************************************************************)

\* The sockets a message is written to, in order: rawPatternFilter, walked
\* from its end.  It leaves out destroyed sockets.
Targets ==
  FlattenSeq([i \in DOMAIN conns |->
    IF life[conns[i]] = "open" THEN [k \in 1 .. hits[conns[i]] |-> conns[i]] ELSE <<>>])

\* What the write to each target takes, -1 when it throws.  OffAt is the _off
\* that the i-th finds.
Throws == -1
Failed(w) == {Targets[i] : i \in {k \in DOMAIN w : w[k] = Throws}}
OffAt(w, i) ==
  LET o[k \in 0 .. Len(w)] ==
        IF k = 0 THEN 0 ELSE IF w[k] = Throws THEN o[k - 1] ELSE Moved(o[k - 1], w[k])
  IN o[i - 1]
Written(w, i) == w[i] # Throws /\ OffAt(w, i) + w[i] = Size
Takes(w) == \A i \in DOMAIN w : OffAt(w, i) + w[i] <= Size
Writes ==
  {w \in [DOMAIN Targets -> Throws .. Size] :
     /\ Takes(w)
     /\ \A i, k \in DOMAIN w :
          i < k /\ w[i] = Throws /\ Targets[i] = Targets[k] => w[k] = Throws}

\* The targets of w that were not written whole, and those of them that keep
\* the message.
Waiting(w, s) == Cardinality({i \in DOMAIN w : Targets[i] = s /\ ~Written(w, i)})
Keeping(w, s) == Cardinality({i \in DOMAIN w : Targets[i] = s /\ ~Written(w, i) /\ w[i] # Throws})

\* The messages before the k-th are written whole to all targets.
Whole(k) ==
  [s \in Sock |->
     [stream[s] EXCEPT !.got = @ \o FlattenSeq([j \in 1 .. k - 1 |->
        [i \in 1 .. Cardinality({t \in DOMAIN Targets : Targets[t] = s}) |-> queue[j]]])]]

\* The writes w of message m.
Streams(st, m, w) ==
  LET acc[k \in 0 .. Len(w)] ==
        IF k = 0 THEN st ELSE IF w[k] = Throws THEN acc[k - 1]
        ELSE [acc[k - 1] EXCEPT ![Targets[k]] = Put(@, m, OffAt(w, k), w[k])]
  IN acc[Len(w)]

\* DrainWaitHandle.push, for each write that was not complete; a second push
\* of a socket replaces its ondrain.
Pushed(w) ==
  /\ onclose' = [s \in Sock |-> onclose[s] + Waiting(w, s)]
  /\ ondrain' = [s \in Sock |-> ondrain[s] \/ Waiting(w, s) > 0]
  /\ count' = count + Cardinality({i \in DOMAIN w : ~Written(w, i)})

\* run and processSendQueueJob, when message k is not written whole.
RunUntilCut(k, w) ==
  /\ ticks > 0
  /\ k \in DOMAIN queue /\ w \in Writes
  /\ \E i \in DOMAIN w : ~Written(w, i)
  /\ ticks' = ticks - 1
  /\ queue' = SubSeq(queue, k + 1, Len(queue))
  /\ Pushed(w)
  /\ life' = [s \in Sock |-> IF s \in Failed(w) THEN "closing" ELSE life[s]]
  /\ sendq' = [s \in Sock |-> [i \in 1 .. Keeping(w, s) |-> queue[k]] \o sendq[s]]
  /\ off' = [off EXCEPT ![queue[k]] = OffAt(w, Len(w) + 1)]
  /\ stream' = Streams(Whole(k), queue[k], w)
  /\ cut' = IF Len(Targets) > 1 THEN cut \cup {queue[k]} ELSE cut
  /\ UNCHANGED <<conns, running, hits, accepted>>

\* The same, when every message is.
RunToEnd ==
  /\ ticks > 0
  /\ ticks' = ticks - 1
  /\ queue' = <<>> /\ running' = FALSE
  /\ stream' = Whole(Len(queue) + 1)
  /\ UNCHANGED <<conns, count, life, hits, sendq, handle, off, accepted, cut>>

\* Mutant of Free: the job runs again when the first socket is free.
FreeFirst(n) == count' = count - n /\ ticks' = IF n > 0 THEN 1 ELSE ticks

\* n calls of `free': the last one makes the job run again.
Free(n) ==
  /\ count' = count - n
  /\ ticks' = IF n > 0 /\ count = n THEN ticks + 1 ELSE ticks

-----------------------------------------------------------------------------
(***************************************************************************)
(* The sockets                                                             *)
(***************************************************************************)

\* What was written to s when flush has written the first j of its messages.
Flushed(s, j) ==
  LET st[k \in 0 .. j] ==
        IF k = 0 THEN stream[s]
        ELSE Put(st[k - 1], sendq[s][k], off[sendq[s][k]], Size - off[sendq[s][k]])
  IN st[j]

\* _onWritable: flush writes j messages whole and n bytes of the next.  When
\* all are written, ondrain.
OnWritable(s, j, n) ==
  /\ life[s] = "open" /\ sendq[s] # <<>>
  /\ j \in 1 .. Len(sendq[s])
  /\ n \in IF j = Len(sendq[s]) THEN {0} ELSE 0 .. Size - off[sendq[s][j + 1]] - 1
  /\ sendq' = [sendq EXCEPT ![s] = SubSeq(@, j + 1, Len(@))]
  /\ IF j = Len(sendq[s])
     THEN /\ stream' = [stream EXCEPT ![s] = Flushed(s, j)]
          /\ ondrain' = [ondrain EXCEPT ![s] = FALSE]
          /\ onclose' = [onclose EXCEPT ![s] = IF ondrain[s] THEN @ - 1 ELSE @]
          /\ Free(IF ondrain[s] THEN 1 ELSE 0)
          /\ UNCHANGED off
     ELSE LET m == sendq[s][j + 1]
          IN /\ stream' = [stream EXCEPT ![s] = Put(Flushed(s, j), m, off[m], n)]
             /\ off' = [off EXCEPT ![m] = @ + n]
             /\ UNCHANGED <<handle, count, ticks>>
  /\ UNCHANGED <<conns, queue, running, life, hits, accepted, cut>>

\* A flush that writes some of the first message only.
OnWritablePart(s, n) ==
  /\ life[s] = "open" /\ sendq[s] # <<>>
  /\ n \in 1 .. Size - off[Head(sendq[s])] - 1
  /\ off' = [off EXCEPT ![Head(sendq[s])] = @ + n]
  /\ stream' = [stream EXCEPT ![s] = Put(@, Head(sendq[s]), off[Head(sendq[s])], n)]
  /\ UNCHANGED <<channel, life, hits, sendq, handle, accepted, cut>>

\* destroy: the peer is gone, an error, or the application.
Destroy(s) ==
  /\ life[s] = "open"
  /\ life' = [life EXCEPT ![s] = "closing"]
  /\ UNCHANGED <<channel, hits, sendq, handle, off, accepted, stream, cut>>

\* Mutant of CloseFrees: nobody listens to `close'.
CloseFreesNot(s) == Free(0) /\ UNCHANGED handle

\* Each `free' that listens to `close' is called.
CloseFrees(s) ==
  /\ Free(onclose[s])
  /\ onclose' = [onclose EXCEPT ![s] = 0]
  /\ ondrain' = [ondrain EXCEPT ![s] = @ /\ onclose[s] = 0]

\* `close'
OnClose(s) ==
  /\ life[s] = "closing"
  /\ life' = [life EXCEPT ![s] = "closed"]
  /\ \E i \in DOMAIN conns : conns[i] = s /\ conns' = RemoveAt(conns, i)
  /\ CloseFrees(s)
  /\ UNCHANGED <<queue, running, hits, sendq, off, accepted, stream, cut>>

-----------------------------------------------------------------------------
Run == RunToEnd \/ \E k \in DOMAIN queue : \E w \in Writes : RunUntilCut(k, w)
Drain(s) == \E j \in 1 .. Len(sendq[s]), n \in 0 .. Size : OnWritable(s, j, n)

Next ==
  \/ \E m \in Msg : SendMsg(m)
  \/ Run
  \/ \E s \in Sock :
       \/ Attach(s) \/ Drain(s) \/ Destroy(s) \/ OnClose(s)
       \/ \E n \in 1 .. Size : OnWritablePart(s, n)

Spec == Init /\ [][Next]_vars

\* nextTick callbacks run, and a peer reads: what a socket holds is written
\* some time.
Fairness ==
  /\ WF_vars(Run)
  /\ \A s \in Sock : WF_vars(Drain(s)) /\ WF_vars(OnClose(s))

LiveSpec == Spec /\ Fairness

-----------------------------------------------------------------------------
\* A socket gets a run of the channel's messages, whole, each once and in
\* order, over all waits and however its writes are cut (the job writes past
\* the socket's own queue).  The exception is a message for several sockets
\* that one of them did not take at once: the others go on from its _off.
InOrder ==
  \A s \in Sock : hits[s] <= 1 =>
    /\ stream[s].torn \in {0} \cup cut
    /\ stream[s].torn = 0 => \E i \in 0 .. Len(accepted) :
         stream[s].got = SubSeq(accepted, i + 1, i + Len(stream[s].got))

\* A `free' that only a close can call: a second push replaced the listener
\* that would have called it.
Lost(s) == onclose[s] > 0 /\ ~ondrain[s]

\* The job comes to every message, whatever sockets drain, close or fail while
\* it waits for them, unless it waits for a socket that it counted twice.
EventuallyProcessed ==
  queue # <<>> ~> (queue = <<>> \/ \E s \in Sock : Lost(s))

\* The channel sends "the message to all connected sockets": each socket that
\* listens to it when it is sent gets it whole, or goes away, with no exception.
SentToAll ==
  \A m \in Msg, s \in Sock :
    (m \in ToSet(queue) /\ life[s] = "open" /\ hits[s] > 0)
      ~> (m \in ToSet(stream[s].got) \/ life[s] # "open")
=============================================================================
