------------------------------- MODULE DirectReq -------------------------------
(***************************************************************************)
(* A ReqSocket without a channel (lib/req.js) connected to a RespSocket    *)
(* (lib/resp.js): the request, its ack, the responder's handler and what   *)
(* it may do with the message, the dispatch of the answer (lib/util.js),   *)
(* and what destroying the socket tells the requests that wait.            *)
(*                                                                         *)
(* A first write takes at least one byte here (Stream has the others), the *)
(* application listens for the socket's `error' events, and an exception   *)
(* of destroySoon ends its process.                                        *)
(***************************************************************************)
EXTENDS Integers, SequencesExt

CONSTANTS
  Req,       \* the requests that may be sent, each once
  Nil,       \* no request (null in the code)
  MaxOut,    \* _outgoingmax
  Setup,     \* for each request, what the application does with its `recv':
             \* <<operation, <<name of a function, its number of parameters>>>>
  Answers    \* the <<name, number of arguments>> a responder answers with

ASSUME DirectReqAssumption ==
  /\ Nil \notin Req
  /\ MaxOut \in Nat \ {0}
  /\ DOMAIN Setup = Req

VARIABLES
  \* ReqSocket
  sock,       \* "closed", "connecting", "dialed" (connect(2) was answered, and
              \* _connecting is still set), "open", "destroyed"
  sendq,      \* _sendqueue
  pool,       \* _ackwaitpool; <<>> is null
  ack,        \* msg[ACK_OFFSET]
  waitflush,  \* _waitingforflush
  soon,       \* __destroyOnDrain
  down,       \* an exception left a callback: the process ends
  \* the connection
  to,         \* requests on their way to the responder
  back,       \* answers on their way back
  eof,        \* the responder's end is gone
  \* RespSocket
  held,       \* messages its handlers keep and have not answered
  ignored,    \* history: messages answered with no arguments
  \* history
  asked,      \* requests send() has accepted
  told        \* the calls of each request's handlers

reqVars  == <<sock, sendq, pool, ack, waitflush, soon, down, asked, told>>
respVars == <<held, ignored>>
wires    == <<to, back, eof>>

Slots   == 1 .. MaxOut
NoPool  == <<>>   \* null
Waiting == {pool[i] : i \in DOMAIN pool} \ {Nil}

Outcomes == Answers \cup {<<"REJECT", 0>>}
Calls    == {"ERROR", "none"} \cup {a[1] : a \in Outcomes}   \* "none": no handler

DirectTypeOK ==
  /\ sock \in {"closed", "connecting", "dialed", "open", "destroyed"}
  /\ sendq \in Seq(Req) /\ asked \subseteq Req
  /\ pool \in [Slots -> Req \cup {Nil}] \cup {NoPool}
  /\ ack \in [Req -> 0 .. MaxOut]
  /\ {waitflush, soon, down, eof} \subseteq BOOLEAN
  /\ to \in Seq(Req)
  /\ back \in Seq([ack : Slots, of : Req, with : Outcomes])
  /\ held \subseteq Req /\ ignored \subseteq Req
  /\ told \in [Req -> Seq(Calls \X (Req \cup {Nil}))]

DirectInit ==
  /\ sock = "closed" /\ sendq = <<>> /\ pool = [i \in Slots |-> Nil]
  /\ ack = [r \in Req |-> 0]
  /\ waitflush = FALSE /\ soon = FALSE /\ down = FALSE
  /\ to = <<>> /\ back = <<>> /\ eof = FALSE
  /\ held = {} /\ ignored = {}
  /\ asked = {} /\ told = [r \in Req |-> <<>>]

-----------------------------------------------------------------------------
\* The handlers after one operation: recv = f, which throws if there is such a
\* handler, recv = null, __removeHandler__(f).
Edit(handlers, c) ==
  CASE c[1] = "add"    -> handlers \cup {c[2]}
    [] c[1] = "remove" -> handlers \ {c[2]}
    [] c[1] = "clear"  -> {}
Handlers == [r \in Req |-> FoldLeft(Edit, {}, Setup[r])]

\* dispatcher: the handler with the name and number of arguments, or the name
\* and none, or no name and that number, or neither.
Lookup(handlers, name, n) ==
  SelectSeq(<< <<name, n>>, <<name, 0>>, <<"", n>>, <<"", 0>> >>,
            LAMBDA h : h \in handlers)
Routed(r, name, n) == Lookup(Handlers[r], name, n) # <<>>

\* Mutant of TellWaiting: nobody is told.
TellWaitingNot(p, t) == told' = t /\ pool' = p /\ down' = FALSE

\* ReqSocket.destroy without a channel: every request of pool p gets an ERROR.
\* One that has no handler for it throws, which calls destroy again, without
\* end.  t is what the requests were told before.
TellWaiting(p, t) ==
  LET all == {p[i] : i \in DOMAIN p} \ {Nil}
  IN /\ told' = [r \in Req |-> IF r \in all THEN Append(t[r], <<"ERROR", Nil>>) ELSE t[r]]
     /\ pool' = NoPool
     /\ down' = \E r \in all : ~Routed(r, "ERROR", 2)

Destroyed(p, t) ==
  /\ sock' = "destroyed"
  /\ TellWaiting(p, t)

\* A destroyed connection carries nothing more: what the responder has not read
\* it may still read.
HungUp == back' = <<>> /\ UNCHANGED <<to, eof>>

-----------------------------------------------------------------------------
(***************************************************************************)
(* Sending                                                                 *)
(***************************************************************************)
\* The ack _writemsg finds: the highest that is free.
FreeSlots(p) == {i \in DOMAIN p : p[i] = Nil}

\* Mutant of NewAck: an ack that may be in use.
NewAckAny(p) == MaxOut

\* Mutant of NewAck: the search ends where it begins.
NewAckFirst(p) == MaxOut + 1

NewAck(p) == CHOOSE i \in FreeSlots(p) : \A k \in FreeSlots(p) : k <= i

\* _writemsg gives a message an ack and a slot, if it has none yet.
Given(acc, r) ==
  IF acc.ack[r] # 0 THEN acc
  ELSE [ack  |-> [acc.ack EXCEPT ![r] = NewAck(acc.pool)],
        pool |-> [acc.pool EXCEPT ![NewAck(acc.pool)] = r]]

\* The messages of q, in order, are given theirs.
Begin(q) ==
  LET after[i \in 0 .. Len(q)] ==
        IF i = 0 THEN [ack |-> ack, pool |-> pool] ELSE Given(after[i - 1], q[i])
  IN after[Len(q)]
New(q) == Cardinality({i \in DOMAIN q : ack[q[i]] = 0})
Fits(q) == pool # NoPool /\ New(q) <= Cardinality(FreeSlots(pool))

\* send on a socket that has to wait.
SendQueued(r) ==
  /\ sendq' = Append(sendq, r)
  /\ UNCHANGED <<sock, pool, ack, waitflush, soon, down, told, wires>>

\* send writes all of r, or some.  With all slots taken, or after destroy, it
\* throws to its caller and keeps nothing.
SendWritten(r, whole) ==
  /\ Fits(<<r>>)
  /\ ack' = Begin(<<r>>).ack /\ pool' = Begin(<<r>>).pool
  /\ to' = IF whole /\ ~eof THEN Append(to, r) ELSE to
  /\ sendq' = IF whole THEN <<>> ELSE <<r>>
  /\ UNCHANGED <<sock, waitflush, soon, down, told, back, eof>>

\* The write throws: the socket is destroyed, and keeps r in its queue.
SendThrows(r) ==
  /\ Fits(<<r>>) /\ eof
  /\ Destroyed(pool, told)
  /\ sendq' = <<r>>
  /\ HungUp
  /\ UNCHANGED <<ack, waitflush, soon>>

Send(r) ==
  /\ ~down /\ r \notin asked
  /\ asked' = asked \cup {r}
  /\ IF sock \in {"connecting", "dialed"} \/ sendq # <<>> THEN SendQueued(r)
     ELSE sock = "open" /\ (SendThrows(r) \/ \E whole \in BOOLEAN : SendWritten(r, whole))
  /\ UNCHANGED respVars

\* flush writes j messages whole, and begins the next.
Begun(j) == SubSeq(sendq, 1, IF j < Len(sendq) THEN j + 1 ELSE j)
Flush(j) ==
  /\ Fits(Begun(j))
  /\ ack' = Begin(Begun(j)).ack
  /\ sendq' = SubSeq(sendq, j + 1, Len(sendq))
  /\ to' = IF eof THEN to ELSE to \o SubSeq(sendq, 1, j)

\* The write of the message after those j throws, because the peer is gone or
\* nothing was dialed: the socket is destroyed, and the message is nowhere.
FlushThrows(j) ==
  /\ eof \/ (sock = "connecting" /\ j = 0)
  /\ j < Len(sendq) /\ Fits(SubSeq(sendq, 1, j + 1))
  /\ ack' = Begin(SubSeq(sendq, 1, j)).ack
  /\ sendq' = SubSeq(sendq, j + 2, Len(sendq))
  /\ Destroyed(Begin(SubSeq(sendq, 1, j)).pool, told)
  /\ HungUp

\* A message finds no free ack, or no pool: an assertion or a TypeError.
FlushFails ==
  /\ ~Fits(sendq)
  /\ down' = TRUE
  /\ UNCHANGED <<sock, sendq, pool, ack, waitflush, soon, told>>

\* _onWritable, when the flush comes to message j.
OnFlushed(j) ==
  LET p == Begin(Begun(j)).pool
  IN /\ Flush(j)
     /\ waitflush' = (j < Len(sendq))
     /\ IF j = Len(sendq) /\ soon /\ FreeSlots(p) # {}
        THEN Destroyed(p, told) /\ back' = <<>>
        ELSE /\ sock' = "open" /\ pool' = p
             /\ UNCHANGED <<down, told, back>>
     /\ UNCHANGED <<soon, eof>>

\* flush, in _onWritable.
Flushing ==
  \/ \E j \in 0 .. Len(sendq) :
       OnFlushed(j) \/ (FlushThrows(j) /\ waitflush' = TRUE /\ UNCHANGED soon)
  \/ FlushFails /\ UNCHANGED wires

OnWritable ==
  /\ ~down /\ sock = "open" /\ sendq # <<>>
  /\ Flushing
  /\ UNCHANGED <<respVars, asked>>

\* _onConnect
Connected ==
  /\ ~down /\ sock = "dialed"
  /\ IF sendq = <<>>
     THEN sock' = "open" /\ UNCHANGED <<sendq, pool, ack, waitflush, soon, down, told, wires>>
     ELSE Flushing
  /\ UNCHANGED <<respVars, asked>>

\* destroySoon, where flush comes to message j: it destroys the socket when all
\* is written.
Soon(j) ==
  LET p == Begin(Begun(j)).pool
  IN /\ sock = "connecting" => sendq = <<>>
     /\ Flush(j)
     /\ IF j = Len(sendq)
        THEN Destroyed(p, told) /\ back' = <<>> /\ UNCHANGED soon
        ELSE /\ soon' = TRUE /\ pool' = p
             /\ UNCHANGED <<sock, down, told, back>>
     /\ UNCHANGED <<waitflush, eof>>

\* destroySoon of a socket that has, or will have, a connection.  It really
\* writes, also before _onConnect.
DestroySoon ==
  /\ ~down /\ sock \in {"connecting", "dialed", "open"}
  /\ \/ \E j \in 0 .. Len(sendq) :
          Soon(j) \/ (FlushThrows(j) /\ soon' = TRUE /\ UNCHANGED waitflush)
     \/ /\ sock = "connecting" => pool = NoPool
        /\ FlushFails /\ UNCHANGED wires
  /\ UNCHANGED <<respVars, asked>>

\* destroy, called by the application or because the stream ended.
Destroy ==
  /\ ~down /\ sock # "destroyed"
  /\ Destroyed(pool, told)
  /\ HungUp
  /\ UNCHANGED <<sendq, ack, waitflush, soon, asked, respVars>>

OnEnd == sock = "open" /\ back = <<>> /\ eof /\ Destroy

-----------------------------------------------------------------------------
(***************************************************************************)
(* Answers                                                                 *)
(***************************************************************************)
\* There is a connection.
Joined == sock \in {"dialed", "open"}

Reply(r, a) == [ack |-> ack[r], of |-> r, with |-> a]

\* RespSocket._processMessage: the handler may keep the message, answer it
\* (also by throwing, or by not being there), or answer it with nothing.
\* An answer to a socket that is gone is lost.
Recv(r) ==
  /\ to # <<>> /\ Head(to) = r
  /\ to' = Tail(to)
  /\ \/ held' = held \cup {r} /\ UNCHANGED <<back, ignored>>
     \/ /\ \E a \in Outcomes :
             back' = IF Joined THEN Append(back, Reply(r, a)) ELSE back
        /\ UNCHANGED <<held, ignored>>
     \/ ignored' = ignored \cup {r} /\ UNCHANGED <<back, held>>
  /\ UNCHANGED <<reqVars, eof>>

\* send, error, ok or reject of a message that was kept.  A second answer
\* throws to its caller.
Answer(r) ==
  /\ r \in held /\ held' = held \ {r}
  /\ \/ /\ \E a \in Outcomes :
             back' = IF Joined THEN Append(back, Reply(r, a)) ELSE back
        /\ UNCHANGED ignored
     \/ ignored' = ignored \cup {r} /\ UNCHANGED back
  /\ UNCHANGED <<reqVars, to, eof>>

\* ReqSocket._processMessage: the slot is freed, which may be what destroySoon
\* waits for, then the request's handler is called.  If it has none for the
\* answer, or throws, the socket is destroyed.
OnAnswer ==
  LET a == Head(back)
      r == pool[a.ack]
      p == [pool EXCEPT ![a.ack] = Nil]
      t == [told EXCEPT ![r] = Append(@, <<a.with[1], a.of>>)]
  IN /\ ~down /\ sock = "open" /\ back # <<>>
     /\ IF r = Nil
        THEN back' = Tail(back) /\ UNCHANGED <<sock, pool, down, told>>
        ELSE IF ~Routed(r, a.with[1], a.with[2])
        THEN Destroyed(p, [told EXCEPT ![r] = Append(@, <<"none", a.of>>)]) /\ back' = <<>>
        ELSE IF FreeSlots(pool) = {} /\ ~waitflush /\ soon
        THEN Destroyed(p, t) /\ back' = <<>>
        ELSE /\ told' = t /\ pool' = p /\ back' = Tail(back)
             /\ UNCHANGED <<sock, down>>
     /\ UNCHANGED <<sendq, ack, waitflush, soon, asked, to, eof, respVars>>
=============================================================================
