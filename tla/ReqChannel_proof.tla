--------------------------- MODULE ReqChannel_proof ---------------------------
(***************************************************************************)
(* The types, the accounting of ack slots and the wakeups of ReqChannel,   *)
(* for every value of its constants: also when write(2) takes no bytes at  *)
(* all.                                                                    *)
(***************************************************************************)
EXTENDS ReqChannel, SequenceLemmas

LEMMA EmptySeq ==
  ASSUME NEW S
  PROVE  <<>> \in Seq(S)
OBVIOUS

LEMMA SeqTypes ==
  ASSUME NEW S, NEW q \in Seq(S), NEW p \in Seq(S)
  PROVE  /\ q \o p \in Seq(S)
         /\ \A x \in S : Append(q, x) \in Seq(S)
         /\ q # <<>> => Head(q) \in S /\ Tail(q) \in Seq(S)
OBVIOUS

LEMMA ByteRange ==
  ASSUME NEW a \in Nat
  PROVE  AckByte(a) \in 0 .. AckRange - 1
BY BoundsAssumption DEF AckByte

LEMMA GotRange ==
  ASSUME NEW a \in Nat
  PROVE  a % Units \in 0 .. Units - 1
BY BoundsAssumption

LEMMA RemoveAtType ==
  ASSUME NEW S, NEW q \in Seq(S), NEW i \in DOMAIN q
  PROVE  RemoveAt(q, i) \in Seq(S)
BY DEF RemoveAt

LEMMA InitType == Init => TypeOK
<1> SUFFICES ASSUME Init PROVE TypeOK
  OBVIOUS
<1> USE BoundsAssumption
<1>1. ChanType
  <2>1. /\ queue = <<>> /\ ready = <<>> /\ side = <<>> /\ job = "idle" /\ hand = Nil
        /\ listening = {} /\ sideTimer = FALSE
    BY DEF Init
  <2> QED
    BY <2>1, EmptySeq DEF ChanType
<1>4. LoopType
  <2>1. crashed = FALSE /\ leaving = Nil /\ key = 0
    BY DEF Init
  <2>2. 0 \in 0 .. MaxOut
    OBVIOUS
  <2> QED
    BY <2>1, <2>2, Zenon DEF LoopType
<1>2. SockType
  BY DEF Init, SockType
<1>5. MsgType
  <2>1. /\ ack \in [Req -> 0 .. AckRange - 1] /\ off \in [Req -> 0 .. Units - 1]
        /\ rejects \in [Req -> Nat] /\ sent \subseteq Req /\ dispatched \in [Req -> 0 .. 2]
    BY DEF Init
  <2>2. blurred \in BOOLEAN
    BY DEF Init
  <2> QED
    BY <2>1, <2>2, Zenon DEF MsgType
<1>3. PeerType
  <2>1. [got |-> 0, ack |-> 0, torn |-> FALSE] \in Stream
    BY DEF Stream
  <2> QED
    BY <2>1 DEF Init, PeerType
<1> QED
  BY <1>1, <1>2, <1>3, <1>4, <1>5 DEF TypeOK

(* The parts of TypeOK do not notice a step that leaves their variables alone. *)
LEMMA TypeFrame ==
  /\ ChanType /\ UNCHANGED chan => ChanType'
  /\ LoopType /\ UNCHANGED <<loop, crashed>> => LoopType'
  /\ SockType /\ UNCHANGED socks => SockType'
  /\ MsgType /\ UNCHANGED msgs => MsgType'
  /\ PeerType /\ UNCHANGED peer => PeerType'
<1>1. ChanType /\ UNCHANGED chan => ChanType'
  BY DEF ChanType, chan
<1>2. LoopType /\ UNCHANGED <<loop, crashed>> => LoopType'
  BY DEF LoopType, loop
<1>3. SockType /\ UNCHANGED socks => SockType'
  BY DEF SockType, socks
<1>4. MsgType /\ UNCHANGED msgs => MsgType'
  BY DEF MsgType, msgs
<1>5. PeerType /\ UNCHANGED peer => PeerType'
  BY DEF PeerType, peer
<1> QED
  BY <1>1, <1>2, <1>3, <1>4, <1>5

LEMMA StartJobType ==
  ASSUME ChanType, NEW q, NEW rd
  PROVE  StartJob(q, rd) \in {"idle", "scheduled", "running"}
BY DEF StartJob, ChanType

LEMMA DrainType ==
  ASSUME ChanType, NEW s \in Sock, NEW e, Drain(s, e)
  PROVE  ready' \in Seq(Sock) /\ listening' \subseteq Sock
<1>1. CASE UNCHANGED <<listening, ready>>
  BY <1>1 DEF ChanType
<1>2. CASE listening' = listening \ {s} /\ ready' = Append(ready, s)
  BY <1>2, SeqTypes DEF ChanType
<1> QED
  BY <1>1, <1>2 DEF Drain

LEMMA ReceivedType ==
  ASSUME PeerType, NEW s \in Sock, NEW r \in Req, NEW n \in Nat, Received(s, r, n),
         off[r] \in 0 .. Units - 1, ack'[r] \in 0 .. AckRange - 1
  PROVE  PeerType'
<1>1. CASE n = 0 \/ wire[s].torn
  BY <1>1, TypeFrame DEF Received
<1>2. CASE ~(n = 0 \/ wire[s].torn)
  <2> DEFINE h == IF off[r] = 0 THEN ack'[r] ELSE wire[s].ack
             inStep == ~wire[s].torn /\ wire[s].got = off[r]
             w == [got  |-> IF inStep THEN (wire[s].got + n) % Units ELSE wire[s].got,
                   ack  |-> IF inStep THEN h ELSE wire[s].ack,
                   torn |-> ~inStep]
  <2>1. wire[s] \in Stream
    BY DEF PeerType
  <2>2. wire[s].got \in 0 .. Units - 1 /\ wire[s].ack \in 0 .. AckRange - 1
    BY <2>1 DEF Stream
  <2>3. (wire[s].got + n) % Units \in 0 .. Units - 1
    <3>1. wire[s].got + n \in Nat
      BY <2>2, BoundsAssumption
    <3> QED
      BY <3>1, GotRange
  <2>4. h \in 0 .. AckRange - 1
    BY <2>2
  <2>5. w \in Stream
    BY <2>2, <2>3, <2>4 DEF Stream
  <2>6. [ack |-> h, req |-> r] \in Frame
    BY <2>4 DEF Frame
  <2>7. /\ wire' = [wire EXCEPT ![s] = w]
        /\ \/ inbox' = [inbox EXCEPT ![s] = @ \cup {[ack |-> h, req |-> r]}]
           \/ inbox' = inbox
    BY <1>2 DEF Received
  <2> HIDE DEF h, inStep, w
  <2> QED
    BY <2>5, <2>6, <2>7 DEF PeerType
<1> QED
  BY <1>1, <1>2

LEMMA WriteType ==
  ASSUME SockType, MsgType, PeerType,
         NEW s \in Sock, NEW r \in Req, NEW b \in 0 .. AckRange - 1, NEW n,
         WriteMsg(s, r, b, n)
  PROVE  /\ n \in Nat
         /\ ack' \in [Req -> 0 .. AckRange - 1]
         /\ pool' \in [Sock -> [Slots -> Req \cup {Nil}]]
         /\ outgoing' \in [Sock -> Int]
         /\ off' \in [Req -> 0 .. Units - 1]
         /\ pending' \in [Sock -> Req \cup {Nil}]
         /\ PeerType'
<1> USE BoundsAssumption, NilAssumption
<1>1. n \in Nat /\ off[r] \in 0 .. Units - 1 /\ n <= Units - off[r]
  BY DEF WriteMsg, MsgType
<1>2. ack' \in [Req -> 0 .. AckRange - 1]
  <2>1. \A a \in Slots : AckByte(a) \in 0 .. AckRange - 1
    BY ByteRange DEF Slots
  <2> QED
    BY <2>1 DEF WriteMsg, MsgType
<1>3. pool' \in [Sock -> [Slots -> Req \cup {Nil}]] /\ outgoing' \in [Sock -> Int]
  <2>1. CASE pool' = pool /\ outgoing' = outgoing
    BY <2>1 DEF SockType
  <2>2. ASSUME NEW a \in Slots, pool' = [pool EXCEPT ![s][a] = r],
               outgoing' = [outgoing EXCEPT ![s] = @ + 1]
        PROVE  pool' \in [Sock -> [Slots -> Req \cup {Nil}]] /\ outgoing' \in [Sock -> Int]
    <3>1. pool[s] \in [Slots -> Req \cup {Nil}]
      BY DEF SockType
    <3>2. [pool[s] EXCEPT ![a] = r] \in [Slots -> Req \cup {Nil}]
      BY <3>1
    <3> QED
      BY <2>2, <3>2 DEF SockType
  <2> QED
    BY <2>1, <2>2 DEF WriteMsg
<1>4. off' \in [Req -> 0 .. Units - 1]
  BY <1>1 DEF WriteMsg, MsgType
<1>5. pending' \in [Sock -> Req \cup {Nil}]
  BY DEF WriteMsg, SockType
<1>6. PeerType'
  BY <1>1, <1>2, ReceivedType DEF WriteMsg
<1> QED
  BY <1>1, <1>2, <1>3, <1>4, <1>5, <1>6

LEMMA WriteThrowsType ==
  ASSUME SockType, MsgType, NEW s \in Sock, NEW r \in Req, NEW b \in 0 .. AckRange - 1,
         WriteThrows(s, r, b)
  PROVE  /\ ack' \in [Req -> 0 .. AckRange - 1]
         /\ conn' \in [Sock -> {"connecting", "open", "closing", "closed"}]
         /\ watching' \in [Sock -> BOOLEAN]
<1>1. \A a \in Slots : AckByte(a) \in 0 .. AckRange - 1
  BY ByteRange, BoundsAssumption DEF Slots
<1>2. ack' \in [Req -> 0 .. AckRange - 1]
  BY <1>1 DEF WriteThrows, MsgType
<1> QED
  BY <1>2 DEF WriteThrows, Destroyed, SockType

LEMMA TypeStep == TypeOK /\ [Next]_vars => TypeOK'
<1> SUFFICES ASSUME TypeOK, [Next]_vars PROVE TypeOK'
  OBVIOUS
<1> USE BoundsAssumption, NilAssumption, TypeFrame
<1>0. ChanType /\ LoopType /\ SockType /\ MsgType /\ PeerType
  BY DEF TypeOK
<1>1. ASSUME NEW r \in Req, Send(r) PROVE TypeOK'
  <2>1. ChanType'
    BY <1>0, <1>1 DEF Send, StartJob, ChanType
  <2>2. MsgType'
    BY <1>0, <1>1 DEF Send, MsgType
  <2> QED
    BY <1>0, <1>1, <2>1, <2>2 DEF Send, TypeOK
<1>2. ASSUME NEW s \in Sock, Connect(s) PROVE TypeOK'
  <2>1. ChanType'
    BY <1>0, <1>2 DEF Connect, StartJob, ChanType
  <2>2. SockType'
    BY <1>0, <1>2 DEF Connect, SockType
  <2> QED
    BY <1>0, <1>2, <2>1, <2>2 DEF Connect, TypeOK
<1>3. CASE JobStart
  <2>1. ChanType'
    BY <1>0, <1>3 DEF JobStart, ChanType
  <2> QED
    BY <1>0, <1>3, <2>1 DEF JobStart, TypeOK
<1>4. CASE JobTake
  <2>1. ChanType'
    BY <1>0, <1>4 DEF JobTake, ChanType
  <2> QED
    BY <1>0, <1>4, <2>1 DEF JobTake, TypeOK
<1>5. CASE JobEnd
  <2>1. ChanType'
    BY <1>0, <1>5 DEF JobEnd, ChanType
  <2> QED
    BY <1>0, <1>5, <2>1 DEF JobEnd, TypeOK
<1>6. CASE JobPutBack
  <2>1. ChanType'
    BY <1>0, <1>6 DEF JobPutBack, ChanType
  <2> QED
    BY <1>0, <1>6, <2>1 DEF JobPutBack, TypeOK
<1>7. ASSUME NEW s \in Sock, JobSkip(s) PROVE TypeOK'
  <2>1. ChanType'
    BY <1>0, <1>7 DEF JobSkip, Dropped, At, ChanType
  <2> QED
    BY <1>0, <1>7, <2>1 DEF JobSkip, TypeOK
<1>8. ASSUME NEW s \in Sock, JobPassOver(s) PROVE TypeOK'
  <2>1. ChanType'
    BY <1>0, <1>8 DEF JobPassOver, At, ChanType
  <2> QED
    BY <1>0, <1>8, <2>1 DEF JobPassOver, TypeOK
<1>9. ASSUME NEW s \in Sock, JobRefused(s) PROVE TypeOK'
  <2>1. ChanType'
    BY <1>0, <1>9 DEF JobRefused, At, Unflushed, ChanType
  <2>2. MsgType'
    <3>1. hand \in Req /\ 0 \in 0 .. AckRange - 1
      BY <1>0, <1>9 DEF JobRefused, At, ChanType
    <3> QED
      BY <1>0, <1>9, <3>1 DEF JobRefused, MsgType
  <2> QED
    BY <1>0, <1>9, <2>1, <2>2 DEF JobRefused, TypeOK
<1>10. ASSUME NEW s \in Sock, NEW n, At(s), pending[s] = Nil, JobPut(s, n) PROVE TypeOK'
  <2>1. hand \in Req /\ WriteMsg(s, hand, 0, n)
    BY <1>0, <1>10 DEF JobPut, At, ChanType
  <2>2. ChanType'
    <3>1. ready' \in Seq(Sock)
      <4>1. ready \in Seq(Sock) /\ ready # <<>>
        BY <1>0, <1>10 DEF JobPut, At, ChanType
      <4>2. ready' = Tail(ready) \/ ready' = Append(Tail(ready), s)
        BY <1>10 DEF JobPut, Unflushed
      <4>3. Tail(ready) \in Seq(Sock)
        BY <4>1, SeqTypes
      <4>4. Append(Tail(ready), s) \in Seq(Sock)
        BY <4>3, SeqTypes
      <4> QED
        BY <4>2, <4>3, <4>4
    <3>2. listening' \subseteq Sock /\ hand' \in Req \cup {Nil}
      BY <1>0, <1>10 DEF JobPut, Unflushed, ChanType
    <3> QED
      BY <1>0, <1>10, <3>1, <3>2 DEF JobPut, ChanType
  <2>3. SockType'
    BY <1>0, <1>10, <2>1, WriteType DEF JobPut, SockType
  <2>4. MsgType' /\ PeerType'
    BY <1>0, <1>10, <2>1, WriteType, SMTT(30) DEF JobPut, MsgType
  <2> QED
    BY <1>0, <1>10, <2>2, <2>3, <2>4 DEF JobPut, TypeOK
<1>11. ASSUME NEW s \in Sock, JobWriteThrows(s) PROVE TypeOK'
  <2>1. hand \in Req /\ WriteThrows(s, hand, 0)
    BY <1>0, <1>11 DEF JobWriteThrows, At, ChanType
  <2>2. ChanType'
    BY <1>0, <1>11 DEF JobWriteThrows, At, Unflushed, ChanType
  <2>3. SockType'
    BY <1>0, <1>11, <2>1, WriteThrowsType DEF JobWriteThrows, SockType
  <2>4. MsgType'
    BY <1>0, <1>11, <2>1, WriteThrowsType DEF JobWriteThrows, MsgType
  <2> QED
    BY <1>0, <1>11, <2>2, <2>3, <2>4 DEF JobWriteThrows, TypeOK
<1>12. ASSUME Crash PROVE TypeOK'
  <2>1. LoopType'
    BY <1>0, <1>12 DEF Crash, LoopType, loop
  <2> QED
    BY <1>0, <1>12, <2>1 DEF Crash, TypeOK
<1>13. ASSUME NEW s \in Sock, OnWritableEmpty(s) PROVE TypeOK'
  <2>1. ChanType'
    BY <1>0, <1>13, StartJobType, DrainType DEF OnWritableEmpty, ChanType
  <2>2. SockType'
    BY <1>0, <1>13 DEF OnWritableEmpty, SockType
  <2> QED
    BY <1>0, <1>13, <2>1, <2>2 DEF OnWritableEmpty, TypeOK
<1>14. ASSUME NEW s \in Sock, NEW n, Writable(s), pending[s] # Nil, FlushPut(s, n) PROVE TypeOK'
  <2>1. pending[s] \in Req /\ WriteMsg(s, pending[s], ack[pending[s]], n)
    BY <1>0, <1>14 DEF FlushPut, SockType
  <2>2. ack[pending[s]] \in 0 .. AckRange - 1
    BY <1>0, <2>1 DEF MsgType
  <2>3. ChanType'
    BY <1>0, <1>14, StartJobType, DrainType DEF FlushPut, ChanType
  <2>4. SockType'
    BY <1>0, <1>14, <2>1, <2>2, WriteType DEF FlushPut, SockType
  <2>5. MsgType' /\ PeerType'
    BY <1>0, <1>14, <2>1, <2>2, WriteType DEF FlushPut, MsgType
  <2> QED
    BY <1>0, <1>14, <2>3, <2>4, <2>5 DEF FlushPut, TypeOK
<1>15. ASSUME NEW s \in Sock, OnWritableThrows(s) PROVE TypeOK'
  <2>1. pending[s] \in Req /\ WriteThrows(s, pending[s], ack[pending[s]])
    BY <1>0, <1>15 DEF OnWritableThrows, Writable, SockType
  <2>2. ack[pending[s]] \in 0 .. AckRange - 1
    BY <1>0, <2>1 DEF MsgType
  <2>3. SockType'
    BY <1>0, <1>15, <2>1, <2>2, WriteThrowsType DEF OnWritableThrows, SockType
  <2>4. MsgType'
    BY <1>0, <1>15, <2>1, <2>2, WriteThrowsType DEF OnWritableThrows, MsgType
  <2> QED
    BY <1>0, <1>15, <2>3, <2>4 DEF OnWritableThrows, TypeOK
<1>16. ASSUME NEW s \in Sock, NEW m \in inbox[s], NEW kind \in Kinds, OnReply(s, m, kind)
       PROVE  TypeOK'
  <2>1. PeerType'
    BY <1>0, <1>16 DEF OnReply, PeerType
  <2>2. CASE Waiting(s, m.ack) = Nil
    BY <1>0, <1>16, <2>1, <2>2 DEF OnReply, TypeOK, socks, msgs
  <2>3. CASE Waiting(s, m.ack) # Nil
    <3> DEFINE r == Waiting(s, m.ack)
               final == kind = "reply" \/ LastReject(r)
    <3>1. /\ pool' = [pool EXCEPT ![s][m.ack] = Nil]
          /\ outgoing' = [outgoing EXCEPT ![s] = @ - 1]
          /\ Drain(s, ReplyDrains(s))
          /\ rejects' = [rejects EXCEPT ![r] = IF kind = "reject" THEN @ + 1 ELSE @]
          /\ dispatched' = [dispatched EXCEPT ![r] = IF final /\ @ < 2 THEN @ + 1 ELSE @]
          /\ side' = IF final THEN side ELSE Append(side, r)
          /\ sideTimer' = (sideTimer \/ ~final)
          /\ job' = StartJob(queue, ready')
          /\ UNCHANGED <<queue, hand>>
      BY <1>16, <2>3 DEF OnReply, FreeAck
    <3>2. SockType'
      <4>1. pool' \in [Sock -> [Slots -> Req \cup {Nil}]]
        BY <1>0, <3>1 DEF SockType
      <4>2. outgoing' \in [Sock -> Int]
        BY <1>0, <3>1 DEF SockType
      <4> QED
        BY <1>0, <1>16, <4>1, <4>2 DEF OnReply, SockType
    <3>3. r \in Req
      BY <1>0, <2>3 DEF SockType, Waiting
    <3>4. MsgType'
      <4>1. rejects' \in [Req -> Nat]
        BY <1>0, <3>1, <3>3 DEF MsgType
      <4>2. dispatched' \in [Req -> 0 .. 2]
        BY <1>0, <3>1, <3>3 DEF MsgType
      <4> QED
        BY <1>0, <1>16, <4>1, <4>2 DEF OnReply, MsgType
    <3>6. ChanType'
      <4>1. side' \in Seq(Req) /\ sideTimer' \in BOOLEAN
        BY <1>0, <3>1, <3>3 DEF ChanType
      <4> QED
        BY <1>0, <3>1, <4>1, StartJobType, DrainType DEF ChanType
    <3> QED
      BY <1>0, <1>16, <2>1, <3>2, <3>4, <3>6 DEF OnReply, TypeOK
  <2> QED BY <2>2, <2>3
<1>17. CASE SideFlush
  <2>1. ChanType'
    <3>1. queue' \in Seq(Req) /\ side' \in Seq(Req)
      BY <1>0, <1>17, SeqTypes, EmptySeq DEF SideFlush, ChanType
    <3> QED
      BY <1>0, <1>17, <3>1, StartJobType DEF SideFlush, ChanType
  <2> QED
    BY <1>0, <1>17, <2>1 DEF SideFlush, TypeOK
<1>18. ASSUME NEW s \in Sock, Destroy(s) PROVE TypeOK'
  <2>1. SockType'
    BY <1>0, <1>18 DEF Destroy, Destroyed, SockType
  <2> QED
    BY <1>0, <1>18, <2>1 DEF Destroy, TypeOK
<1>19. ASSUME NEW s \in Sock, OnClose(s) PROVE TypeOK'
  <2>1. ready' \in Seq(Sock)
    BY <1>0, <1>19, RemoveAtType DEF OnClose, ChanType
  <2>2. ChanType'
    BY <1>0, <1>19, <2>1 DEF OnClose, ChanType
  <2>3. SockType' /\ LoopType'
    BY <1>0, <1>19 DEF OnClose, SockType, LoopType
  <2> QED
    BY <1>0, <1>19, <2>2, <2>3 DEF OnClose, TypeOK
<1>20. CASE Requeue
  <2>1. leaving \in Sock /\ key \in Slots
    BY <1>0, <1>20 DEF Requeue, MoreKeys, LoopType, Slots
  <2>2. ChanType'
    BY <1>0, <1>20, <2>1 DEF Requeue, Waiting, ChanType, SockType
  <2>3. LoopType'
    BY <1>0, <1>20 DEF Requeue, MoreKeys, LoopType
  <2> QED
    BY <1>0, <1>20, <2>2, <2>3 DEF Requeue, TypeOK
<1>21. CASE RequeueDone
  <2>1. ChanType'
    BY <1>0, <1>21 DEF RequeueDone, StartJob, ChanType
  <2>2. LoopType'
    BY <1>0, <1>21 DEF RequeueDone, LoopType
  <2> QED
    BY <1>0, <1>21, <2>1, <2>2 DEF RequeueDone, TypeOK
<1>22. CASE UNCHANGED vars
  BY <1>0, <1>22 DEF vars, TypeOK
<1>23. CASE JobStep
  BY <1>4, <1>5, <1>6, <1>7, <1>8, <1>9, <1>10, <1>11, <1>12, <1>23
  DEF JobStep, JobWrite
<1>24. ASSUME NEW s \in Sock, Flush(s) PROVE TypeOK'
  BY <1>12, <1>13, <1>14, <1>15, <1>24 DEF Flush, OnWritable
<1> QED
  BY <1>1, <1>2, <1>3, <1>16, <1>17, <1>18, <1>19, <1>20, <1>21, <1>22, <1>23, <1>24
  DEF Next

\* Every variable keeps its type: the queues hold requests, the ack byte fits
\* its field, and the offset never reaches the length of the request.
THEOREM TypeCorrect == Spec => []TypeOK
BY InitType, TypeStep, PTL DEF Spec

-----------------------------------------------------------------------------
(* The count and the pool                                                  *)

LEMMA TakenFinite ==
  ASSUME NEW T \in SUBSET Slots
  PROVE  IsFiniteSet(T) /\ Cardinality(T) \in Nat /\ Cardinality(T) <= MaxOut
<1>1. MaxOut \in Nat \ {0}
  BY BoundsAssumption
<1>2. IsFiniteSet(Slots) /\ Cardinality(Slots) = MaxOut
  BY <1>1, FS_Interval DEF Slots
<1>3. IsFiniteSet(T) /\ Cardinality(T) <= MaxOut
  BY <1>2, FS_Subset
<1> QED
  BY <1>3, FS_CardinalityType

LEMMA TakenSlots ==
  ASSUME NEW s
  PROVE  Taken(s) \in SUBSET Slots /\ Taken(s)' \in SUBSET Slots
BY DEF Taken, Slots

LEMMA SlotFilled ==
  ASSUME SockType, AckAccounting, NEW s \in Sock, NEW a \in Slots, NEW r \in Req,
         pool[s][a] = Nil,
         pool' = [pool EXCEPT ![s][a] = r],
         outgoing' = [outgoing EXCEPT ![s] = @ + 1]
  PROVE  AckAccounting'
<1> SUFFICES ASSUME NEW t \in Sock
             PROVE  outgoing'[t] = Cardinality(Taken(t)')
  BY DEF AckAccounting
<1>1. pool'[t] = IF t = s THEN [pool[s] EXCEPT ![a] = r] ELSE pool[t]
  BY DEF SockType
<1>2. outgoing'[t] = IF t = s THEN outgoing[s] + 1 ELSE outgoing[t]
  BY DEF SockType
<1>3. CASE t # s
  <2>1. Taken(t)' = Taken(t)
    BY <1>1, <1>3 DEF Taken
  <2> QED
    BY <1>2, <1>3, <2>1 DEF AckAccounting
<1>4. CASE t = s
  <2>1. Taken(t)' = Taken(s) \cup {a}
    BY <1>1, <1>4, NilAssumption DEF Taken, SockType
  <2>2. a \notin Taken(s)
    BY DEF Taken
  <2>3. Cardinality(Taken(t)') = Cardinality(Taken(s)) + 1
    BY <2>1, <2>2, TakenSlots, TakenFinite, FS_AddElement
  <2> QED
    BY <1>2, <1>4, <2>3 DEF AckAccounting
<1> QED
  BY <1>3, <1>4

LEMMA SlotFreed ==
  ASSUME SockType, AckAccounting, NEW s \in Sock, NEW a \in Slots,
         pool[s][a] # Nil, FreeAck(s, a)
  PROVE  AckAccounting'
<1> SUFFICES ASSUME NEW t \in Sock
             PROVE  outgoing'[t] = Cardinality(Taken(t)')
  BY DEF AckAccounting
<1>1. pool'[t] = IF t = s THEN [pool[s] EXCEPT ![a] = Nil] ELSE pool[t]
  BY DEF SockType, FreeAck
<1>2. outgoing'[t] = IF t = s THEN outgoing[s] - 1 ELSE outgoing[t]
  BY DEF SockType, FreeAck
<1>3. CASE t # s
  <2>1. Taken(t)' = Taken(t)
    BY <1>1, <1>3 DEF Taken
  <2> QED
    BY <1>2, <1>3, <2>1 DEF AckAccounting
<1>4. CASE t = s
  <2>1. Taken(t)' = Taken(s) \ {a}
    BY <1>1, <1>4 DEF Taken, SockType
  <2>2. a \in Taken(s)
    BY DEF Taken
  <2>3. Cardinality(Taken(t)') = Cardinality(Taken(s)) - 1
    BY <2>1, <2>2, TakenSlots, TakenFinite, FS_RemoveElement
  <2> QED
    BY <1>2, <1>4, <2>3 DEF AckAccounting
<1> QED
  BY <1>3, <1>4

LEMMA WriteAccounted ==
  ASSUME SockType, AckAccounting, NEW s \in Sock, NEW r \in Req, NEW b, NEW n,
         WriteMsg(s, r, b, n)
  PROVE  AckAccounting'
<1>1. CASE UNCHANGED <<pool, outgoing>>
  BY <1>1 DEF AckAccounting, Taken
<1>2. CASE \E a \in Slots : /\ FreeSlot(s, a)
                            /\ pool' = [pool EXCEPT ![s][a] = r]
                            /\ outgoing' = [outgoing EXCEPT ![s] = @ + 1]
  BY <1>2, SlotFilled DEF FreeSlot
<1> QED
  BY <1>1, <1>2 DEF WriteMsg

LEMMA AckStep == TypeOK /\ AckAccounting /\ [Next]_vars => AckAccounting'
<1> SUFFICES ASSUME TypeOK, AckAccounting, [Next]_vars PROVE AckAccounting'
  OBVIOUS
<1>0. SockType /\ ChanType
  BY DEF TypeOK
<1>1. CASE UNCHANGED <<pool, outgoing>>
  BY <1>1 DEF AckAccounting, Taken
<1>2. ASSUME NEW s \in Sock, NEW n, At(s), JobPut(s, n) PROVE AckAccounting'
  <2>1. hand \in Req /\ WriteMsg(s, hand, 0, n)
    BY <1>0, <1>2 DEF JobPut, At, ChanType
  <2> QED
    BY <1>0, <2>1, WriteAccounted
<1>3. ASSUME NEW s \in Sock, NEW n, pending[s] # Nil, FlushPut(s, n) PROVE AckAccounting'
  <2>1. pending[s] \in Req /\ WriteMsg(s, pending[s], ack[pending[s]], n)
    BY <1>0, <1>3 DEF FlushPut, SockType
  <2> QED
    BY <1>0, <2>1, WriteAccounted
<1>4. ASSUME NEW s \in Sock, NEW m \in inbox[s], NEW kind, OnReply(s, m, kind)
      PROVE  AckAccounting'
  <2>1. CASE Waiting(s, m.ack) = Nil
    BY <1>1, <1>4, <2>1 DEF OnReply
  <2>2. CASE Waiting(s, m.ack) # Nil
    <3>1. m.ack \in Slots /\ pool[s][m.ack] # Nil
      BY <2>2 DEF Waiting
    <3>2. FreeAck(s, m.ack)
      BY <1>4, <2>2 DEF OnReply
    <3> QED
      BY <1>0, <3>1, <3>2, SlotFreed
  <2> QED
    BY <2>1, <2>2
<1> QED
  <2>1. CASE UNCHANGED vars
    BY <1>1, <2>1 DEF vars, socks
  <2>2. CASE JobStep
    BY <1>1, <1>2, <2>2 DEF JobStep, JobTake, JobEnd, JobPutBack, JobSkip, JobPassOver,
      JobRefused, JobWrite, Crash, JobWriteThrows, socks
  <2>3. ASSUME NEW s \in Sock, Flush(s) PROVE AckAccounting'
    BY <1>1, <1>3, <2>3 DEF Flush, OnWritableEmpty, OnWritable, Crash, OnWritableThrows, socks
  <2>4. ASSUME NEW s \in Sock, Connect(s) \/ Destroy(s) \/ OnClose(s)
        PROVE  AckAccounting'
    BY <1>1, <2>4 DEF Connect, Destroy, OnClose, socks
  <2>5. CASE \/ \E r \in Req : Send(r)
             \/ JobStart \/ SideFlush \/ Requeue \/ RequeueDone
    BY <1>1, <2>5 DEF Send, JobStart, SideFlush, Requeue, RequeueDone, socks
  <2> QED
    BY <1>4, <2>1, <2>2, <2>3, <2>4, <2>5 DEF Next

LEMMA AckInit == Init => AckAccounting
<1> SUFFICES ASSUME Init, NEW s \in Sock PROVE outgoing[s] = Cardinality(Taken(s))
  BY DEF AckAccounting
<1>1. Taken(s) = {} /\ outgoing[s] = 0
  BY DEF Init, Taken
<1> QED
  BY <1>1, FS_EmptySet

\* The count that hasAvailableHandlers trusts is the number of taken slots,
\* whatever is written, answered, requeued or lost.
THEOREM AckCorrect == Spec => []AckAccounting
<1>1. TypeOK /\ AckAccounting /\ [Next]_vars => AckAccounting'
  BY AckStep
<1> QED
  BY <1>1, AckInit, TypeCorrect, PTL DEF Spec

-----------------------------------------------------------------------------
(* The job and its two lists                                               *)

LEMMA BacklogStep == NoIdleBacklog /\ [Next]_vars => NoIdleBacklog'
<1> SUFFICES ASSUME NoIdleBacklog, [Next]_vars, Quiet', job' = "idle"
             PROVE  queue' = <<>> \/ ready' = <<>>
  BY DEF NoIdleBacklog
<1>1. ASSUME NEW q, NEW rd, job' = StartJob(q, rd)
      PROVE  job = "idle" /\ (q = <<>> \/ rd = <<>>)
  BY <1>1 DEF StartJob
<1>2. CASE Quiet /\ UNCHANGED chan
  BY <1>2 DEF NoIdleBacklog, chan
<1>3. CASE Quiet /\ job' = StartJob(queue', ready')
  BY <1>1, <1>3
<1>4. ASSUME NEW s \in Sock, Flush(s) PROVE queue' = <<>> \/ ready' = <<>>
  <2>1. CASE OnWritableEmpty(s) \/ \E n \in 0 .. Units : OnWritable(s, n)
    <3>1. CASE Crash
      BY <3>1 DEF Crash, Quiet
    <3>2. CASE ~Crash
      BY <1>3, <2>1, <3>2 DEF OnWritableEmpty, OnWritable, FlushPut, Writable
    <3> QED
      BY <3>1, <3>2
  <2>2. CASE OnWritableThrows(s)
    BY <1>2, <2>2 DEF OnWritableThrows, Writable
  <2> QED
    BY <1>4, <2>1, <2>2 DEF Flush
<1>5. ASSUME NEW s \in Sock, NEW m \in inbox[s], NEW kind, OnReply(s, m, kind)
      PROVE  queue' = <<>> \/ ready' = <<>>
  <2>1. Quiet /\ (UNCHANGED chan \/ (queue' = queue /\ job' = StartJob(queue, ready')))
    BY <1>5 DEF OnReply
  <2> QED
    BY <1>2, <1>3, <2>1
<1>6. ASSUME NEW s \in Sock, Connect(s) \/ Destroy(s) \/ OnClose(s)
      PROVE  queue' = <<>> \/ ready' = <<>>
  <2>1. CASE Connect(s)
    BY <1>3, <2>1 DEF Connect
  <2>2. CASE Destroy(s)
    BY <1>2, <2>2 DEF Destroy
  <2>3. ~OnClose(s)
    BY NilAssumption DEF OnClose, Quiet
  <2> QED
    BY <1>6, <2>1, <2>2, <2>3
<1>7. CASE JobStep
  <2>1. CASE JobEnd \/ JobPutBack
    BY <2>1 DEF JobEnd, JobPutBack
  <2>2. CASE JobTake \/ \E s \in Sock :
                \/ JobSkip(s) \/ JobPassOver(s) \/ JobRefused(s) \/ JobWriteThrows(s)
                \/ \E n \in 0 .. Units : JobWrite(s, n)
    <3>1. job = "running" /\ job' = job
      BY <2>2 DEF JobTake, JobSkip, JobPassOver, JobRefused, JobWriteThrows, JobWrite,
        JobPut, Crash, chan, At, Working
    <3> QED
      BY <3>1 DEF Quiet
  <2> QED
    BY <1>7, <2>1, <2>2 DEF JobStep
<1>8. CASE \E r \in Req : Send(r)
  BY <1>3, <1>8 DEF Send
<1>9. ~JobStart
  BY DEF JobStart, Quiet
<1>10. CASE SideFlush
  BY <1>3, <1>10 DEF SideFlush
<1>11. ~Requeue
  BY DEF Requeue, Quiet
<1>12. CASE RequeueDone
  BY <1>1, <1>12 DEF RequeueDone
<1>13. CASE UNCHANGED vars
  BY <1>13 DEF vars, chan, loop, NoIdleBacklog, Quiet
<1> QED
  BY <1>4, <1>5, <1>6, <1>7, <1>8, <1>9, <1>10, <1>11, <1>12, <1>13 DEF Next

\* Whenever requests wait and a socket is ready, the job is scheduled or
\* running: no event that fills one of the two lists forgets to start it.
THEOREM BacklogCorrect == Spec => []NoIdleBacklog
<1>1. Init => NoIdleBacklog
  BY DEF Init, NoIdleBacklog
<1> QED
  BY <1>1, BacklogStep, PTL DEF Spec

-----------------------------------------------------------------------------
(* Wakeups                                                                 *)

\* A socket that connects has nothing to write and nobody listens on it.
Asleep(s) == pending[s] = Nil /\ ~waitflush[s] /\ s \notin listening
Awake(s) ==
  /\ pending[s] # Nil => watching[s]
  /\ pending[s] = Nil => ~waitflush[s]
  /\ s \in listening => pending[s] # Nil \/ outgoing[s] = MaxOut
WakeOf(s) ==
  /\ conn[s] = "connecting" => Asleep(s)
  /\ conn[s] = "open" => Awake(s)
WakeInv == \A s \in Sock : WakeOf(s)

LEMMA WakeFrame ==
  ASSUME NEW t, WakeOf(t),
         conn'[t] = conn[t], pending'[t] = pending[t], watching'[t] = watching[t],
         waitflush'[t] = waitflush[t], outgoing'[t] = outgoing[t],
         t \in listening' => t \in listening
  PROVE  WakeOf(t)'
BY DEF WakeOf, Asleep, Awake

LEMMA WakeGone ==
  ASSUME NEW t, conn'[t] \in {"closing", "closed"}
  PROVE  WakeOf(t)'
BY DEF WakeOf

\* An event of the queue, the side queue or the disconnect handler.
LEMMA WakeStill ==
  ASSUME WakeInv, UNCHANGED <<conn, pending, watching, waitflush, outgoing, listening>>
  PROVE  WakeInv'
BY WakeFrame DEF WakeInv

\* Any step of one socket leaves the others as they are.
LEMMA WakeAll ==
  ASSUME WakeInv, NEW s \in Sock, WakeOf(s)',
         \A t \in Sock \ {s} :
           /\ conn'[t] = conn[t] /\ pending'[t] = pending[t]
           /\ watching'[t] = watching[t] /\ waitflush'[t] = waitflush[t]
           /\ outgoing'[t] = outgoing[t] /\ (t \in listening' => t \in listening)
  PROVE  WakeInv'
<1> SUFFICES ASSUME NEW t \in Sock, t # s PROVE WakeOf(t)'
  BY DEF WakeInv
<1>1. WakeOf(t)
  BY DEF WakeInv
<1> QED
  BY <1>1, WakeFrame

LEMMA WriteEffect ==
  ASSUME SockType, NEW s \in Sock, NEW r, NEW b, NEW n, WriteMsg(s, r, b, n)
  PROVE  /\ pending' = [pending EXCEPT ![s] = IF off[r] + n = Units THEN Nil ELSE r]
         /\ \A t \in Sock \ {s} : outgoing'[t] = outgoing[t]
         /\ b = 0 => outgoing'[s] = outgoing[s] + 1
BY DEF WriteMsg, SockType

LEMMA Listening ==
  ASSUME NEW s \in Sock, NEW e, Drain(s, e)
  PROVE  /\ \A t : t \in listening' => t \in listening
         /\ s \in listening' => ~e
BY DEF Drain

LEMMA WakeJobWrite ==
  ASSUME SockType, WakeInv, AckAccounting', NEW s \in Sock, NEW n,
         Usable(s), pending[s] = Nil, JobPut(s, n)
  PROVE  WakeInv'
<1>1. /\ conn[s] = "open" /\ pending[s] = Nil /\ conn' = conn /\ waitflush' = waitflush
      /\ outgoing[s] < MaxOut
      /\ watching' = [watching EXCEPT ![s] = @ \/ pending'[s] # Nil]
  BY DEF JobPut, Usable, HasHandlers
<1>2. /\ \A t \in Sock \ {s} : pending'[t] = pending[t] /\ outgoing'[t] = outgoing[t]
      /\ outgoing'[s] = outgoing[s] + 1
  <2>1. WriteMsg(s, hand, 0, n)
    BY DEF JobPut
  <2> QED
    BY <2>1, WriteEffect DEF SockType
<1>3. \A t \in Sock \ {s} : t \in listening' => t \in listening
  BY DEF JobPut, Unflushed
<1>4. ~waitflush[s]
  BY <1>1 DEF WakeInv, WakeOf, Awake
<1>5. pending'[s] # Nil => watching'[s]
  BY <1>1 DEF SockType
<1>6. s \in listening' => pending'[s] # Nil \/ outgoing'[s] = MaxOut
  <2>1. CASE pending'[s] # Nil
    BY <2>1
  <2>2. CASE pending'[s] = Nil /\ HasHandlers(outgoing'[s])
    <3>1. listening' = listening
      BY <2>2 DEF JobPut
    <3>2. s \in listening => outgoing[s] = MaxOut
      BY <1>1 DEF WakeInv, WakeOf, Awake
    <3> QED
      BY <1>1, <3>1, <3>2, BoundsAssumption
  <2>3. CASE ~HasHandlers(outgoing'[s])
    <3>1. outgoing[s] \in Int
      BY DEF SockType
    <3> QED
      BY <1>1, <1>2, <2>3, <3>1, BoundsAssumption DEF HasHandlers
  <2> QED
    BY <2>1, <2>2, <2>3
<1>7. WakeOf(s)'
  BY <1>1, <1>4, <1>5, <1>6 DEF WakeOf, Awake
<1>8. \A t \in Sock \ {s} : watching'[t] = watching[t]
  BY <1>1 DEF SockType
<1> QED
  BY <1>1, <1>2, <1>3, <1>7, <1>8, WakeAll

LEMMA WakeOnWritable ==
  ASSUME SockType, WakeInv, AckAccounting', NEW s \in Sock, NEW n,
         Writable(s), pending[s] # Nil, FlushPut(s, n)
  PROVE  WakeInv'
<1>1. /\ conn[s] = "open" /\ pending[s] # Nil /\ conn' = conn
      /\ watching' = [watching EXCEPT ![s] = pending'[s] # Nil]
      /\ waitflush' = [waitflush EXCEPT ![s] = pending'[s] # Nil]
      /\ Drain(s, pending'[s] = Nil /\ HasHandlers(outgoing'[s]))
  BY DEF FlushPut, Writable
<1>2. \A t \in Sock \ {s} : pending'[t] = pending[t] /\ outgoing'[t] = outgoing[t]
  <2>1. WriteMsg(s, pending[s], ack[pending[s]], n)
    BY DEF FlushPut
  <2> QED
    BY <2>1, WriteEffect DEF SockType
<1>3. /\ \A t : t \in listening' => t \in listening
      /\ s \in listening' => pending'[s] # Nil \/ ~HasHandlers(outgoing'[s])
  BY <1>1, Listening
<1>4. outgoing'[s] \in Nat /\ outgoing'[s] <= MaxOut
  <2>1. IsFiniteSet(Taken(s)') /\ Cardinality(Taken(s)') \in Nat
        /\ Cardinality(Taken(s)') <= MaxOut
    BY TakenSlots, TakenFinite
  <2> QED
    BY <2>1 DEF AckAccounting
<1>5. s \in listening' => pending'[s] # Nil \/ outgoing'[s] = MaxOut
  BY <1>3, <1>4, BoundsAssumption DEF HasHandlers
<1>6. /\ watching'[s] = (pending'[s] # Nil) /\ waitflush'[s] = (pending'[s] # Nil)
      /\ \A t \in Sock \ {s} : watching'[t] = watching[t] /\ waitflush'[t] = waitflush[t]
  BY <1>1 DEF SockType
<1>7. WakeOf(s)'
  BY <1>1, <1>5, <1>6 DEF WakeOf, Awake
<1> QED
  BY <1>1, <1>2, <1>3, <1>6, <1>7, WakeAll

LEMMA WakeOnWritableEmpty ==
  ASSUME SockType, WakeInv, NEW s \in Sock, OnWritableEmpty(s)
  PROVE  WakeInv'
<1>1. /\ conn[s] = "open" /\ pending[s] = Nil
      /\ UNCHANGED <<conn, pending, outgoing>>
      /\ Drain(s, HasHandlers(outgoing[s]))
  BY DEF OnWritableEmpty, Writable
<1>2. ~waitflush'[s]
      /\ \A t \in Sock \ {s} : watching'[t] = watching[t] /\ waitflush'[t] = waitflush[t]
  BY DEF OnWritableEmpty, SockType
<1>3. \A t : t \in listening' => t \in listening
  BY <1>1, Listening
<1>4. s \in listening => outgoing[s] = MaxOut
  BY <1>1 DEF WakeInv, WakeOf, Awake
<1>5. WakeOf(s)'
  BY <1>1, <1>2, <1>3, <1>4 DEF WakeOf, Awake
<1> QED
  BY <1>1, <1>2, <1>3, <1>5, WakeAll

LEMMA WakeOnReply ==
  ASSUME SockType, WakeInv, NEW s \in Sock, NEW m, NEW kind, OnReply(s, m, kind)
  PROVE  WakeInv'
<1>1. conn[s] = "open" /\ UNCHANGED <<conn, pending, watching, waitflush>>
  BY DEF OnReply
<1>2. CASE Waiting(s, m.ack) = Nil
  BY <1>1, <1>2, WakeStill DEF OnReply, chan
<1>3. CASE Waiting(s, m.ack) # Nil
  <2>1. Drain(s, ReplyDrains(s)) /\ outgoing' = [outgoing EXCEPT ![s] = @ - 1]
    BY <1>3 DEF OnReply, FreeAck
  <2>2. /\ \A t : t \in listening' => t \in listening
        /\ s \in listening' => ~(outgoing[s] = MaxOut /\ ~waitflush[s])
    BY <2>1, Listening DEF ReplyDrains
  <2>3. WakeOf(s)
    BY DEF WakeInv
  <2>4. WakeOf(s)'
    BY <1>1, <2>2, <2>3 DEF WakeOf, Awake
  <2>5. \A t \in Sock \ {s} : outgoing'[t] = outgoing[t]
    BY <2>1 DEF SockType
  <2> QED
    BY <1>1, <2>2, <2>4, <2>5, WakeAll
<1> QED
  BY <1>2, <1>3

\* Connecting, being destroyed or closed, and a write that throws.
LEMMA WakeLife ==
  ASSUME SockType, WakeInv, NEW s \in Sock,
         \/ Connect(s) \/ Destroy(s) \/ OnClose(s)
         \/ JobWriteThrows(s) \/ OnWritableThrows(s)
  PROVE  WakeInv'
<1>1. CASE Connect(s)
  <2>1. /\ conn[s] = "connecting" /\ UNCHANGED <<pending, outgoing, waitflush, listening>>
    BY <1>1 DEF Connect
  <2>2. \A t \in Sock \ {s} : conn'[t] = conn[t] /\ watching'[t] = watching[t]
    BY <1>1 DEF Connect, SockType
  <2>3. Asleep(s) /\ conn'[s] = "open"
    BY <1>1, <2>1 DEF Connect, WakeInv, WakeOf, SockType
  <2>4. WakeOf(s)'
    BY <2>1, <2>3 DEF WakeOf, Asleep, Awake
  <2> QED
    BY <2>1, <2>2, <2>4, WakeAll
<1>2. CASE Destroy(s) \/ OnClose(s)
  <2>1. /\ UNCHANGED <<pending, outgoing, waitflush, listening>>
        /\ conn'[s] \in {"closing", "closed"}
        /\ \A t \in Sock \ {s} : conn'[t] = conn[t] /\ watching'[t] = watching[t]
    BY <1>2 DEF Destroy, Destroyed, OnClose, SockType, chan
  <2> QED
    BY <2>1, WakeGone, WakeAll
<1>3. CASE JobWriteThrows(s) \/ OnWritableThrows(s)
  <2>1. Destroyed(s)
    BY <1>3 DEF JobWriteThrows, OnWritableThrows, WriteThrows
  <2>2. /\ conn'[s] \in {"closing", "closed"}
        /\ \A t \in Sock \ {s} : conn'[t] = conn[t] /\ watching'[t] = watching[t]
    BY <2>1 DEF Destroyed, SockType
  <2>3. /\ outgoing' = outgoing
        /\ \A t \in Sock \ {s} : /\ pending'[t] = pending[t] /\ waitflush'[t] = waitflush[t]
                                 /\ t \in listening' => t \in listening
    BY <1>3 DEF JobWriteThrows, OnWritableThrows, Unflushed, SockType, chan
  <2> QED
    BY <2>2, <2>3, WakeGone, WakeAll
<1> QED
  BY <1>1, <1>2, <1>3

LEMMA WakeRefused ==
  ASSUME SockType, WakeInv, NEW s \in Sock, JobRefused(s)
  PROVE  WakeInv'
<1>1. pending[s] # Nil /\ UNCHANGED socks /\ listening' = listening \cup {s}
  BY DEF JobRefused, Unflushed
<1>2. conn[s] = "open" /\ WakeOf(s)
  BY DEF JobRefused, Usable, WakeInv
<1>3. WakeOf(s)'
  BY <1>1, <1>2 DEF WakeOf, Awake, socks
<1> QED
  BY <1>1, <1>3, WakeAll DEF socks

LEMMA WakeStep == TypeOK /\ AckAccounting /\ WakeInv /\ [Next]_vars => WakeInv'
<1> SUFFICES ASSUME TypeOK, AckAccounting, WakeInv, [Next]_vars PROVE WakeInv'
  OBVIOUS
<1>0. SockType /\ AckAccounting'
  BY AckStep DEF TypeOK
<1>1. CASE UNCHANGED vars
  BY <1>1, WakeStill DEF vars, socks, chan
<1>4. CASE Crash
  BY <1>4, WakeStill DEF Crash, socks, chan
<1>2. CASE JobStep
  <2>1. CASE JobTake \/ JobEnd \/ JobPutBack \/ \E s \in Sock : JobSkip(s) \/ JobPassOver(s)
    BY <2>1, WakeStill DEF JobTake, JobEnd, JobPutBack, JobSkip, JobPassOver, socks
  <2> QED
    BY <1>0, <1>2, <1>4, <2>1, WakeRefused, WakeLife, WakeJobWrite DEF JobStep, JobWrite
<1>3. ASSUME NEW s \in Sock, Flush(s) PROVE WakeInv'
  BY <1>0, <1>3, <1>4, WakeOnWritable, WakeOnWritableEmpty, WakeLife DEF Flush, OnWritable
<1>5. CASE \/ \E r \in Req : Send(r)
           \/ JobStart \/ SideFlush \/ Requeue \/ RequeueDone
  BY <1>5, WakeStill DEF Send, JobStart, SideFlush, Requeue, RequeueDone, socks
<1> QED
  BY <1>0, <1>1, <1>2, <1>3, <1>4, <1>5, WakeLife, WakeOnReply DEF Next

\* A drain listener never waits for an event that cannot come: the write
\* watcher is started, or every slot is taken and the next answer drains.
THEOREM WakeupCorrect == Spec => []WakeupGuaranteed
<1>1. Init => WakeInv
  BY DEF Init, WakeInv, WakeOf, Asleep
<1>2. WakeInv => WakeupGuaranteed
  BY DEF WakeInv, WakeOf, Awake, WakeupGuaranteed
<1> QED
  BY <1>1, <1>2, WakeStep, TypeCorrect, AckCorrect, PTL DEF Spec

-----------------------------------------------------------------------------
(***************************************************************************)
(* Where the requests of ReqChannel are, and that it implements Requests,  *)
(* for every value of its constants when a write takes at least one unit   *)
(* and the ack byte can number every slot.                                 *)
(***************************************************************************)

-----------------------------------------------------------------------------
(* One place for each request                                              *)

Live(r) == r \in sent /\ dispatched[r] = 0
Holds(s, a, r) == InSlot(s, a) /\ pool[s][a] = r
Slotted(r) == \E s \in Sock, a \in Slots : Holds(s, a, r)

\* The four places are pairwise apart, none has a request twice, and what they
\* have was sent and has no answer.
Apart(r) ==
  /\ r \in ToSet(queue) => r \notin ToSet(side) /\ r # hand /\ ~Slotted(r)
  /\ r \in ToSet(side) => r # hand /\ ~Slotted(r)
  /\ r = hand => ~Slotted(r)
SlotOnce(r) ==
  \A s, t \in Sock, a, b \in Slots : Holds(s, a, r) /\ Holds(t, b, r) => s = t /\ a = b
Unanswered(r) ==
  r \in ToSet(queue) \/ r \in ToSet(side) \/ r = hand \/ Slotted(r) => Live(r)
SentFirst(r) == dispatched[r] # 0 => r \in sent
PlaceOf(r) == Apart(r) /\ SlotOnce(r) /\ Unanswered(r) /\ SentFirst(r)
PlaceInv == IsInjective(queue) /\ IsInjective(side) /\ \A r \in Req : PlaceOf(r)

\* A request that a step leaves where it was, or takes away.
LEMMA PlaceShrinks ==
  ASSUME NEW x, PlaceOf(x),
         x \in ToSet(queue') => x \in ToSet(queue),
         x \in ToSet(side') => x \in ToSet(side),
         x = hand' => x = hand,
         \A s \in Sock, a \in Slots : Holds(s, a, x)' => Holds(s, a, x),
         Live(x) /\ (x \in ToSet(queue') \/ x \in ToSet(side') \/ x = hand' \/ Slotted(x)')
           => Live(x)',
         SentFirst(x) => SentFirst(x)'
  PROVE  PlaceOf(x)'
<1>1. Slotted(x)' => Slotted(x)
  BY DEF Slotted
<1>2. Apart(x)' /\ Unanswered(x)'
  BY <1>1 DEF PlaceOf, Apart, Unanswered
<1>3. SlotOnce(x)'
  BY DEF PlaceOf, SlotOnce
<1> QED
  BY <1>2, <1>3 DEF PlaceOf

\* A step that neither moves a request nor settles one.
LEMMA PlaceFrame ==
  ASSUME PlaceInv, UNCHANGED <<queue, side, pool, sent, dispatched>>,
         hand' \in {hand, Nil},
         \A s \in Sock, a \in Slots : InSlot(s, a)' => InSlot(s, a)
  PROVE  PlaceInv'
<1> SUFFICES ASSUME NEW x \in Req PROVE PlaceOf(x)'
  BY DEF PlaceInv, IsInjective
<1>1. PlaceOf(x)
  BY DEF PlaceInv
<1>2. x = hand' => x = hand
  BY NilAssumption
<1>3. \A s \in Sock, a \in Slots : Holds(s, a, x)' => Holds(s, a, x)
  BY DEF Holds
<1> QED
  BY <1>1, <1>2, <1>3, PlaceShrinks DEF Live, SentFirst, ToSet

LEMMA SameSlots ==
  ASSUME UNCHANGED <<leaving, key>>,
         \A s \in Sock : conn'[s] = conn[s] \/ (conn[s] # "closed" /\ conn'[s] # "closed")
  PROVE  \A s \in Sock : \A a : InSlot(s, a)' <=> InSlot(s, a)
BY DEF InSlot

\* The disconnect handler runs for a connection that is closed.
Gone == leaving # Nil => conn[leaving] = "closed"

LEMMA PlaceSend ==
  ASSUME TypeOK, PlaceInv, NEW r \in Req, Send(r)
  PROVE  PlaceInv'
<1>0. ChanType /\ r \notin sent /\ queue \in Seq(Req)
  BY DEF TypeOK, ChanType, Send
<1>1. /\ queue' = Append(queue, r) /\ sent' = sent \cup {r}
      /\ UNCHANGED <<side, hand, dispatched, pool, conn, leaving, key>>
  BY DEF Send, loop, socks
<1>2. /\ PlaceOf(r) /\ dispatched[r] = 0
      /\ r \notin ToSet(queue) /\ r \notin ToSet(side) /\ r # hand /\ ~Slotted(r)
  BY <1>0 DEF PlaceInv, PlaceOf, Unanswered, SentFirst, Live
<1>3. /\ ToSet(queue') = ToSet(queue) \cup {r}
      /\ IsInjective(queue') /\ IsInjective(side')
  BY <1>0, <1>1, <1>2, AppendOnce DEF PlaceInv
<1>4. \A s \in Sock, a \in Slots, x \in Req : Holds(s, a, x)' <=> Holds(s, a, x)
  BY <1>1 DEF Holds, InSlot
<1>5. PlaceOf(r)'
  <2>1. ~Slotted(r)'
    BY <1>2, <1>4 DEF Slotted
  <2>2. Apart(r)'
    BY <1>1, <1>2, <2>1 DEF Apart, ToSet
  <2>3. SlotOnce(r)'
    BY <2>1 DEF Slotted, SlotOnce
  <2>4. Unanswered(r)' /\ SentFirst(r)'
    BY <1>1, <1>2 DEF Unanswered, SentFirst, Live
  <2> QED
    BY <2>2, <2>3, <2>4 DEF PlaceOf
<1>6. ASSUME NEW x \in Req, x # r PROVE PlaceOf(x)'
  <2>1. PlaceOf(x)
    BY DEF PlaceInv
  <2>2. x \in ToSet(queue') => x \in ToSet(queue)
    BY <1>3, <1>6
  <2> QED
    BY <1>1, <1>4, <2>1, <2>2, PlaceShrinks DEF Live, SentFirst, ToSet
<1> QED
  BY <1>3, <1>5, <1>6 DEF PlaceInv

LEMMA PlaceTake ==
  ASSUME TypeOK, PlaceInv, JobTake
  PROVE  PlaceInv'
<1>0. queue \in Seq(Req) /\ queue # <<>> /\ hand = Nil
  BY DEF TypeOK, ChanType, JobTake
<1>1. /\ hand' = Head(queue) /\ queue' = Tail(queue)
      /\ UNCHANGED <<side, sent, dispatched, pool, conn, leaving, key>>
  BY DEF JobTake, loop, socks, msgs
<1> DEFINE r == Head(queue)
<1>2. /\ ToSet(queue) = ToSet(queue') \cup {r}
      /\ IsInjective(queue') /\ r \notin ToSet(queue') /\ IsInjective(side')
  BY <1>0, <1>1, TailOnce DEF PlaceInv
<1>3. \A s \in Sock, a \in Slots : \A x : Holds(s, a, x)' <=> Holds(s, a, x)
  BY <1>1 DEF Holds, InSlot
<1> SUFFICES ASSUME NEW x \in Req PROVE PlaceOf(x)'
  BY <1>2 DEF PlaceInv
<1>4. PlaceOf(x)
  BY DEF PlaceInv
<1>5. CASE x # r
  BY <1>1, <1>2, <1>3, <1>4, <1>5, PlaceShrinks DEF Live, SentFirst, ToSet
<1>6. CASE x = r
  <2>1. x \in ToSet(queue)
    BY <1>2, <1>6
  <2>2. ~Slotted(x)' /\ x \notin ToSet(side') /\ x \notin ToSet(queue') /\ x = hand'
    BY <1>1, <1>2, <1>3, <1>4, <1>6, <2>1 DEF PlaceOf, Apart, Slotted, ToSet
  <2>3. Apart(x)' /\ SlotOnce(x)'
    BY <2>2 DEF Apart, SlotOnce, Slotted
  <2>4. Unanswered(x)' /\ SentFirst(x)'
    BY <1>1, <1>4, <2>1 DEF PlaceOf, Unanswered, SentFirst, Live
  <2> QED
    BY <2>3, <2>4 DEF PlaceOf
<1> QED
  BY <1>5, <1>6

LEMMA PlacePutBack ==
  ASSUME TypeOK, PlaceInv, JobPutBack
  PROVE  PlaceInv'
<1>0. queue \in Seq(Req) /\ hand \in Req /\ <<hand>> \in Seq(Req)
  BY DEF TypeOK, ChanType, JobPutBack
<1>1. /\ queue' = <<hand>> \o queue /\ hand' = Nil
      /\ UNCHANGED <<side, sent, dispatched, pool, conn, leaving, key>>
  BY DEF JobPutBack, loop, socks, msgs
<1>2. PlaceOf(hand) /\ hand \notin ToSet(queue) /\ hand \notin ToSet(side) /\ ~Slotted(hand)
  BY <1>0 DEF PlaceInv, PlaceOf, Apart
<1>3. /\ ToSet(queue') = ToSet(queue) \cup {hand}
      /\ IsInjective(queue') /\ IsInjective(side')
  <2> DEFINE one == <<hand>>
  <2>1. one \in Seq(Req) /\ IsInjective(one) /\ ToSet(one) = {hand} /\ queue' = one \o queue
    BY <1>0, <1>1, SingleOnce
  <2> HIDE DEF one
  <2>2. ToSet(one) \cap ToSet(queue) = {}
    BY <1>2, <2>1
  <2>3. IsInjective(queue) /\ IsInjective(side) /\ side' = side
    BY <1>1 DEF PlaceInv
  <2>4. ToSet(queue') = {hand} \cup ToSet(queue) /\ IsInjective(queue')
    BY <1>0, <2>1, <2>2, <2>3, ConcatOnce
  <2> QED
    BY <2>3, <2>4
<1>4. \A s \in Sock, a \in Slots : \A x : Holds(s, a, x)' <=> Holds(s, a, x)
  BY <1>1 DEF Holds, InSlot
<1> SUFFICES ASSUME NEW x \in Req PROVE PlaceOf(x)'
  BY <1>3 DEF PlaceInv
<1>5. PlaceOf(x) /\ x # hand'
  BY <1>1, NilAssumption DEF PlaceInv
<1>6. CASE x # hand
  BY <1>1, <1>3, <1>4, <1>5, <1>6, PlaceShrinks DEF Live, SentFirst, ToSet
<1>7. CASE x = hand
  <2>1. ~Slotted(x)' /\ x \notin ToSet(side')
    BY <1>1, <1>2, <1>4, <1>7 DEF Slotted, ToSet
  <2>2. Apart(x)' /\ SlotOnce(x)'
    BY <1>5, <2>1 DEF Apart, SlotOnce, Slotted
  <2>3. Unanswered(x)' /\ SentFirst(x)'
    BY <1>1, <1>5, <1>7 DEF PlaceOf, Unanswered, SentFirst, Live
  <2> QED
    BY <2>2, <2>3 DEF PlaceOf
<1> QED
  BY <1>6, <1>7

LEMMA PlaceSideFlush ==
  ASSUME TypeOK, PlaceInv, SideFlush
  PROVE  PlaceInv'
<1>0. queue \in Seq(Req) /\ side \in Seq(Req)
  BY DEF TypeOK, ChanType
<1>1. /\ queue' = queue \o side /\ side' = <<>>
      /\ UNCHANGED <<hand, sent, dispatched, pool, conn, leaving, key>>
  BY DEF SideFlush, loop, socks, msgs
<1>2. ToSet(queue) \cap ToSet(side) = {}
  <2>1. ToSet(queue) \subseteq Req
    BY <1>0 DEF ToSet
  <2> QED
    BY <2>1 DEF PlaceInv, PlaceOf, Apart
<1>3. /\ ToSet(queue') = ToSet(queue) \cup ToSet(side) /\ ToSet(side') = {}
      /\ IsInjective(queue') /\ IsInjective(side')
  <2>1. ToSet(side') = {} /\ IsInjective(side')
    BY <1>1 DEF ToSet, IsInjective
  <2> QED
    BY <1>0, <1>1, <1>2, <2>1, ConcatOnce DEF PlaceInv
<1>4. \A s \in Sock, a \in Slots : \A x : Holds(s, a, x)' <=> Holds(s, a, x)
  BY <1>1 DEF Holds, InSlot
<1> SUFFICES ASSUME NEW x \in Req PROVE PlaceOf(x)'
  BY <1>3 DEF PlaceInv
<1>5. PlaceOf(x)
  BY DEF PlaceInv
<1>6. Slotted(x)' <=> Slotted(x)
  BY <1>4 DEF Slotted
<1>7. Apart(x)'
  BY <1>1, <1>3, <1>5, <1>6 DEF PlaceOf, Apart
<1>8. SlotOnce(x)'
  BY <1>4, <1>5 DEF PlaceOf, SlotOnce
<1>9. Unanswered(x)' /\ SentFirst(x)'
  BY <1>1, <1>3, <1>5, <1>6 DEF PlaceOf, Unanswered, SentFirst, Live
<1> QED
  BY <1>7, <1>8, <1>9 DEF PlaceOf

LEMMA PlaceRequeue ==
  ASSUME TypeOK, Gone, PlaceInv, Requeue
  PROVE  PlaceInv'
<1>0. /\ queue \in Seq(Req) /\ leaving \in Sock /\ key \in Slots
      /\ leaving # Nil /\ pool[leaving][key] \in Req \cup {Nil}
  BY BoundsAssumption DEF TypeOK, ChanType, LoopType, SockType, Requeue, MoreKeys, Slots
<1>1. /\ key' = key - 1
      /\ UNCHANGED <<side, hand, sent, dispatched, pool, conn, leaving>>
  BY DEF Requeue, socks, msgs
<1> PICK r : r = pool[leaving][key]
  OBVIOUS
<1>2. \A s \in Sock, a \in Slots : \A x :
        Holds(s, a, x)' => Holds(s, a, x) /\ (x = r => s # leaving \/ a # key)
  BY <1>0, <1>1 DEF Holds, InSlot, Slots, Gone
<1>3. CASE r = Nil
  <2>1. queue' = queue
    BY <1>0, <1>3 DEF Requeue, Waiting
  <2>2. \A s \in Sock, a \in Slots : InSlot(s, a)' => InSlot(s, a)
    BY <1>0, <1>1 DEF InSlot, Slots
  <2> QED
    BY <1>1, <2>1, <2>2, PlaceFrame
<1>4. CASE r # Nil
  <2>1. queue' = Append(queue, r) /\ r \in Req
    BY <1>0, <1>4 DEF Requeue, Waiting
  <2>2. Holds(leaving, key, r)
    BY <1>0, BoundsAssumption DEF Holds, InSlot, Slots
  <2>3. PlaceOf(r) /\ Slotted(r)
    BY <1>0, <2>1, <2>2 DEF PlaceInv, Slotted
  <2>4. r \notin ToSet(queue) /\ r \notin ToSet(side) /\ r # hand
    BY <2>3 DEF PlaceOf, Apart
  <2>5. ~Slotted(r)'
    BY <1>0, <1>1, <1>2, <2>2, <2>3 DEF PlaceOf, SlotOnce, Slotted
  <2>6. ToSet(queue') = ToSet(queue) \cup {r} /\ IsInjective(queue') /\ IsInjective(side')
    BY <1>0, <1>1, <2>1, <2>4, AppendOnce DEF PlaceInv
  <2> SUFFICES ASSUME NEW x \in Req PROVE PlaceOf(x)'
    BY <2>6 DEF PlaceInv
  <2>7. CASE x # r
    <3>1. PlaceOf(x)
      BY DEF PlaceInv
    <3> QED
      BY <1>1, <1>2, <2>6, <2>7, <3>1, PlaceShrinks DEF Live, SentFirst, ToSet
  <2>8. CASE x = r
    <3>1. Apart(x)' /\ SlotOnce(x)'
      BY <1>1, <2>4, <2>5, <2>8 DEF Apart, SlotOnce, Slotted, ToSet
    <3>2. Unanswered(x)' /\ SentFirst(x)'
      BY <1>1, <2>3, <2>8 DEF PlaceOf, Unanswered, SentFirst, Live
    <3> QED
      BY <3>1, <3>2 DEF PlaceOf
  <2> QED
    BY <2>7, <2>8
<1> QED
  BY <1>3, <1>4

\* The slot that _writemsg finds is in none of the places of another request.
LEMMA PlaceFill ==
  ASSUME TypeOK, PlaceInv, NEW s \in Sock, NEW a \in Slots, NEW r \in Req,
         conn[s] = "open", FreeSlot(s, a), hand = r, hand' = Nil,
         pool' = [pool EXCEPT ![s][a] = r],
         UNCHANGED <<queue, side, sent, dispatched, conn, leaving, key>>
  PROVE  PlaceInv'
<1>1. \A t \in Sock, b \in Slots : pool'[t][b] = IF t = s /\ b = a THEN r ELSE pool[t][b]
  BY DEF TypeOK, SockType
<1>2. PlaceOf(r) /\ ~Slotted(r) /\ r \notin ToSet(queue) /\ r \notin ToSet(side)
  BY DEF PlaceInv, PlaceOf, Apart
<1> SUFFICES ASSUME NEW x \in Req PROVE PlaceOf(x)'
  BY DEF PlaceInv, IsInjective
<1>3. PlaceOf(x) /\ x # hand'
  BY NilAssumption DEF PlaceInv
<1>4. CASE x # r
  <2>1. \A t \in Sock, b \in Slots : Holds(t, b, x)' => Holds(t, b, x)
    BY <1>1, <1>4 DEF Holds, InSlot
  <2> QED
    BY <1>3, <1>4, <2>1, PlaceShrinks DEF Live, SentFirst, ToSet
<1>5. CASE x = r
  <2>1. \A t \in Sock, b \in Slots : Holds(t, b, x)' => t = s /\ b = a
    BY <1>1, <1>2, <1>5 DEF Holds, InSlot, Slotted
  <2>2. Apart(x)' /\ SlotOnce(x)'
    BY <1>2, <1>3, <1>5, <2>1 DEF Apart, SlotOnce, ToSet
  <2>3. Unanswered(x)' /\ SentFirst(x)'
    BY <1>2, <1>5 DEF PlaceOf, Unanswered, SentFirst, Live
  <2> QED
    BY <2>2, <2>3 DEF PlaceOf
<1> QED
  BY <1>4, <1>5

LEMMA PlaceReply ==
  ASSUME TypeOK, PlaceInv, NEW s \in Sock, NEW m \in inbox[s], NEW kind, OnReply(s, m, kind)
  PROVE  PlaceInv'
<1>1. conn[s] = "open" /\ UNCHANGED <<queue, hand, sent, conn, leaving, key>>
  BY DEF OnReply, chan, loop
<1> PICK r : r = Waiting(s, m.ack)
  OBVIOUS
<1> DEFINE last == kind = "reply" \/ LastReject(r)
<1>2. CASE r = Nil
  <2>1. UNCHANGED <<side, pool, dispatched>>
    BY <1>2 DEF OnReply, chan
  <2>2. \A t \in Sock, a \in Slots : InSlot(t, a)' => InSlot(t, a)
    BY <1>1 DEF InSlot
  <2> QED
    BY <1>1, <2>1, <2>2, PlaceFrame
<1>3. CASE r # Nil
  <2>1. m.ack \in Slots /\ r = pool[s][m.ack] /\ r \in Req
    BY <1>3 DEF Waiting, TypeOK, SockType
  <2>2. /\ pool' = [pool EXCEPT ![s][m.ack] = Nil]
        /\ dispatched' = [dispatched EXCEPT ![r] = IF last /\ @ < 2 THEN @ + 1 ELSE @]
        /\ side' = IF last THEN side ELSE Append(side, r)
    BY <1>3 DEF OnReply, FreeAck
  <2> PICK final \in BOOLEAN : final = last
    OBVIOUS
  <2> HIDE DEF last
  <2>3. Holds(s, m.ack, r)
    BY <1>1, <2>1 DEF Holds, InSlot
  <2>4. PlaceOf(r) /\ Slotted(r)
    BY <2>1, <2>3 DEF PlaceInv, Slotted
  <2>5. \A t \in Sock, a \in Slots : pool'[t][a] = IF t = s /\ a = m.ack THEN Nil ELSE pool[t][a]
    BY <2>2 DEF TypeOK, SockType
  <2>6. \A t \in Sock, a \in Slots, x \in Req :
          Holds(t, a, x)' => Holds(t, a, x) /\ ~(t = s /\ a = m.ack)
    BY <1>1, <2>5, NilAssumption DEF Holds, InSlot
  <2>7. ~Slotted(r)'
    BY <2>1, <2>3, <2>4, <2>6 DEF PlaceOf, SlotOnce, Slotted
  <2>8. r \notin ToSet(queue) /\ r \notin ToSet(side) /\ r # hand /\ Live(r)
    BY <2>4 DEF PlaceOf, Apart, Unanswered
  <2>9. /\ ToSet(side') \subseteq ToSet(side) \cup {r}
        /\ final => r \notin ToSet(side')
        /\ IsInjective(queue') /\ IsInjective(side')
    BY <1>1, <2>1, <2>2, <2>8, AppendOnce DEF PlaceInv, TypeOK, ChanType
  <2> SUFFICES ASSUME NEW x \in Req PROVE PlaceOf(x)'
    BY <2>9 DEF PlaceInv
  <2>10. PlaceOf(x)
    BY DEF PlaceInv
  <2>11. dispatched' = [dispatched EXCEPT ![r] = dispatched'[r]] /\ dispatched \in [Req -> 0 .. 2]
    BY <2>1, <2>2 DEF TypeOK, MsgType
  <2>12. CASE x # r
    <3>1. dispatched'[x] = dispatched[x]
      BY <2>11, <2>12
    <3> QED
      BY <1>1, <2>6, <2>9, <2>10, <2>12, <3>1, PlaceShrinks DEF Live, SentFirst, ToSet
  <2>13. CASE x = r
    <3>1. Apart(x)' /\ SlotOnce(x)'
      BY <1>1, <2>7, <2>8, <2>13 DEF Apart, SlotOnce, Slotted, ToSet
    <3>2. final \/ Live(r)'
      BY <1>1, <2>1, <2>2, <2>8, <2>11 DEF Live
    <3>3. Unanswered(x)' /\ SentFirst(x)'
      BY <1>1, <2>7, <2>8, <2>9, <2>13, <3>2 DEF Unanswered, SentFirst, Live, ToSet
    <3> QED
      BY <3>1, <3>3 DEF PlaceOf
  <2> QED
    BY <2>12, <2>13
<1> QED
  BY <1>2, <1>3

-----------------------------------------------------------------------------
(* The two ends of a connection                                            *)

LEMMA ModSmall ==
  ASSUME NEW u \in Nat \ {0}, NEW x \in 0 .. u - 1
  PROVE  x % u = x
BY SMTT(30)

LEMMA ModFull ==
  ASSUME NEW u \in Nat \ {0}
  PROVE  u % u = 0
BY SMTT(30)

\* While a connection is open: a frame the peer may answer names the slot that
\* still has its request; the request to flush is in the slot its ack byte
\* names; and the peer has got as much of it as was written, or nothing.
FramesMeet(s) ==
  \A m \in inbox[s] : m.ack \in Slots /\ pool[s][m.ack] = m.req /\ m.req # pending[s]
FlushMeets(s) ==
  pending[s] # Nil => ack[pending[s]] \in Slots /\ pool[s][ack[pending[s]]] = pending[s]
BytesMeet(s) ==
  ~wire[s].torn => IF pending[s] = Nil THEN wire[s].got = 0
                   ELSE \/ wire[s].got = 0
                        \/ wire[s].got = off[pending[s]] /\ wire[s].ack = ack[pending[s]]
EndsMeet(s) == FramesMeet(s) /\ FlushMeets(s) /\ BytesMeet(s)
Fresh(s) == pending[s] = Nil /\ inbox[s] = {} /\ wire[s].got = 0
PeerOf(s) ==
  /\ conn[s] = "connecting" => Fresh(s)
  /\ conn[s] = "open" => EndsMeet(s)
PeerInv == \A s \in Sock : PeerOf(s)

LEMMA PeerFrame ==
  ASSUME NEW s \in Sock, PeerOf(s),
         conn'[s] = conn[s] \/ conn'[s] \in {"closing", "closed"},
         pool'[s] = pool[s], pending'[s] = pending[s],
         inbox'[s] = inbox[s], wire'[s] = wire[s],
         conn[s] = "open" /\ pending[s] # Nil =>
           ack'[pending[s]] = ack[pending[s]] /\ off'[pending[s]] = off[pending[s]]
  PROVE  PeerOf(s)'
BY DEF PeerOf, Fresh, EndsMeet, FramesMeet, FlushMeets, BytesMeet

LEMMA PeerGone ==
  ASSUME NEW s \in Sock, conn'[s] \in {"closing", "closed"}
  PROVE  PeerOf(s)'
BY DEF PeerOf

\* The request to flush on an open connection is in one of its slots.
LEMMA PendingSlotted ==
  ASSUME PeerInv, NEW s \in Sock, conn[s] = "open", pending[s] # Nil
  PROVE  /\ ack[pending[s]] \in Slots /\ Holds(s, ack[pending[s]], pending[s])
         /\ Slotted(pending[s])
BY DEF PeerInv, PeerOf, EndsMeet, FlushMeets, Holds, InSlot, Slotted

\* A step that writes the bytes of one request only, which no other open
\* connection has to flush.
LEMMA OthersMeet ==
  ASSUME TypeOK, PlaceInv, PeerInv, NEW s \in Sock, NEW r \in Req,
         \/ r = hand
         \/ conn[s] = "open" /\ pending[s] = r,
         NEW t \in Sock, t # s \/ r = hand,
         conn[t] = "open", pending[t] # Nil
  PROVE  pending[t] \in Req /\ pending[t] # r
<1>1. /\ pending[t] \in Req /\ ack[pending[t]] \in Slots
      /\ Holds(t, ack[pending[t]], pending[t]) /\ Slotted(pending[t])
  BY PendingSlotted DEF TypeOK, SockType
<1>2. CASE r = hand
  BY <1>1, <1>2 DEF PlaceInv, PlaceOf, Apart
<1>3. CASE conn[s] = "open" /\ pending[s] = r /\ t # s
  <2>1. ack[r] \in Slots /\ Holds(s, ack[r], r)
    BY <1>3, NilAssumption, PendingSlotted
  <2> QED
    BY <1>1, <1>3, <2>1 DEF PlaceInv, PlaceOf, SlotOnce
<1> QED
  BY <1>2, <1>3

\* A write of some units leaves the two ends of a connection agreeing.
LEMMA SomeMeets ==
  ASSUME TypeOK, NEW s \in Sock, NEW r \in Req, NEW a \in Slots,
         NEW n \in 1 .. Units - off[r],
         ack'[r] = a, pool'[s][a] = r, pool[s][a] \in {Nil, r},
         \A b \in Slots \ {a} : pool'[s][b] = pool[s][b],
         \A m \in inbox[s] : m.ack \in Slots /\ pool[s][m.ack] = m.req /\ m.req # r,
         ~wire[s].torn => wire[s].got = 0 \/ (wire[s].got = off[r] /\ wire[s].ack = a),
         off' = IF off[r] + n = Units THEN off ELSE [off EXCEPT ![r] = @ + n],
         pending'[s] = IF off[r] + n = Units THEN Nil ELSE r,
         Received(s, r, n)
  PROVE  EndsMeet(s)'
<1>0. /\ Units \in Nat \ {0} /\ off \in [Req -> 0 .. Units - 1] /\ off[r] \in 0 .. Units - 1
      /\ wire \in [Sock -> Stream] /\ wire[s].got \in 0 .. Units - 1
      /\ inbox \in [Sock -> SUBSET Frame] /\ r # Nil
  BY BoundsAssumption, NilAssumption DEF TypeOK, MsgType, PeerType, Stream
<1> DEFINE inStep == ~wire[s].torn /\ wire[s].got = off[r]
<1>1. /\ wire'[s].torn <=> ~inStep
      /\ inStep => wire'[s].got = (wire[s].got + n) % Units /\ wire'[s].ack = a
      /\ inbox'[s] = IF inStep /\ off[r] + n = Units
                     THEN inbox[s] \cup {[ack |-> a, req |-> r]} ELSE inbox[s]
  <2>1. CASE wire[s].torn
    <3>1. UNCHANGED <<wire, inbox>>
      BY <2>1 DEF Received, peer
    <3> QED
      BY <2>1, <3>1
  <2>2. CASE ~wire[s].torn
    <3>1. inStep => (IF off[r] = 0 THEN ack'[r] ELSE wire[s].ack) = a
      BY <2>2
    <3> DEFINE h == IF off[r] = 0 THEN ack'[r] ELSE wire[s].ack
               w == [got  |-> IF inStep THEN (wire[s].got + n) % Units ELSE wire[s].got,
                     ack  |-> IF inStep THEN h ELSE wire[s].ack,
                     torn |-> ~inStep]
    <3>2. /\ wire' = [wire EXCEPT ![s] = w]
          /\ inbox' = IF inStep /\ wire[s].got + n = Units
                      THEN [inbox EXCEPT ![s] = @ \cup {[ack |-> h, req |-> r]}] ELSE inbox
      <4>1. ~(n = 0 \/ wire[s].torn)
        BY <1>0, <2>2
      <4> QED
        BY <4>1, Zenon DEF Received
    <3>3. wire'[s] = w
      BY <1>0, <3>2
    <3>4. inStep => h = a /\ wire[s].got = off[r]
      BY <3>1
    <3> HIDE DEF h, inStep
    <3> QED
      BY <1>0, <3>2, <3>3, <3>4
  <2> QED
    BY <2>1, <2>2
<1>2. FramesMeet(s)'
  <2> SUFFICES ASSUME NEW m \in inbox'[s]
               PROVE  m.ack \in Slots /\ pool'[s][m.ack] = m.req /\ m.req # pending'[s]
    BY DEF FramesMeet, Slots
  <2>1. CASE m \in inbox[s]
    <3>1. m.req \in Req
      BY <1>0, <2>1 DEF Frame
    <3> QED
      BY <2>1, <3>1, NilAssumption
  <2>2. CASE m \notin inbox[s]
    <3>1. m = [ack |-> a, req |-> r] /\ pending'[s] = Nil
      BY <1>1, <2>2
    <3> QED
      BY <1>0, <3>1
  <2> QED
    BY <2>1, <2>2
<1>3. FlushMeets(s)'
  BY DEF FlushMeets, Slots
<1>4. BytesMeet(s)'
  <2> SUFFICES ASSUME inStep
               PROVE  IF pending'[s] = Nil THEN wire'[s].got = 0
                      ELSE wire'[s].got = off'[pending'[s]] /\ wire'[s].ack = ack'[pending'[s]]
    BY <1>1 DEF BytesMeet
  <2>1. CASE off[r] + n = Units
    BY <1>0, <1>1, <2>1, ModFull
  <2>2. CASE off[r] + n # Units
    <3>1. off[r] + n \in 0 .. Units - 1
      BY <1>0, <2>2
    <3>2. wire'[s].got = off[r] + n /\ off'[r] = off[r] + n /\ pending'[s] = r
      BY <1>0, <1>1, <2>2, <3>1, ModSmall
    <3> QED
      BY <1>0, <1>1, <3>2
  <2> QED
    BY <2>1, <2>2
<1> QED
  BY <1>2, <1>3, <1>4 DEF EndsMeet

\* So does a write of none.
LEMMA WriteMeets ==
  ASSUME TypeOK, NEW s \in Sock, NEW r \in Req, NEW a \in Slots,
         NEW n \in 0 .. Units - off[r],
         ack'[r] = a, pool'[s][a] = r, pool[s][a] \in {Nil, r},
         \A b \in Slots \ {a} : pool'[s][b] = pool[s][b],
         \A m \in inbox[s] : m.ack \in Slots /\ pool[s][m.ack] = m.req /\ m.req # r,
         ~wire[s].torn => wire[s].got = 0 \/ (wire[s].got = off[r] /\ wire[s].ack = a),
         off' = IF off[r] + n = Units THEN off ELSE [off EXCEPT ![r] = @ + n],
         pending'[s] = IF off[r] + n = Units THEN Nil ELSE r,
         Received(s, r, n)
  PROVE  EndsMeet(s)'
<1>1. CASE n \in 1 .. Units - off[r]
  BY <1>1, SomeMeets
<1>2. CASE n = 0
  <2>1. /\ off[r] \in 0 .. Units - 1 /\ Units \in Nat \ {0} /\ off' = off
        /\ pending'[s] = r /\ UNCHANGED <<wire, inbox>>
    <3>1. off \in [Req -> 0 .. Units - 1] /\ Units \in Nat \ {0}
      BY BoundsAssumption DEF TypeOK, MsgType
    <3>2. off[r] + n = off[r] /\ off[r] # Units
      BY <1>2, <3>1
    <3>3. off' = off /\ pending'[s] = r
      BY <3>1, <3>2
    <3> QED
      BY <1>2, <3>1, <3>3 DEF Received, peer
  <2>2. FramesMeet(s)'
    <3> SUFFICES ASSUME NEW m \in inbox[s]
                 PROVE  m.ack \in Slots /\ pool'[s][m.ack] = m.req /\ m.req # r
      BY <2>1 DEF FramesMeet, Slots
    <3>1. m.req \in Req
      BY DEF TypeOK, PeerType, Frame
    <3> QED
      BY <3>1, NilAssumption
  <2>3. FlushMeets(s)' /\ BytesMeet(s)'
    BY <2>1, NilAssumption DEF FlushMeets, BytesMeet, Slots
  <2> QED
    BY <2>2, <2>3 DEF EndsMeet
<1>3. n \in 1 .. Units - off[r] \/ n = 0
  BY BoundsAssumption DEF TypeOK, MsgType
<1> QED
  BY <1>1, <1>2, <1>3

-----------------------------------------------------------------------------
(* Writes                                                                  *)

HeldInv == Gone /\ PlaceInv /\ PeerInv
\* What the steps keep while nothing is blurred.
HeldClear == ~blurred => HeldInv

\* What is blurred stays blurred.
LEMMA ClearBefore ==
  ASSUME TypeOK, [Next]_vars, ~blurred'
  PROVE  ~blurred
<1>1. CASE UNCHANGED blurred
  BY <1>1
<1>2. ASSUME NEW s \in Sock, NEW n, JobPut(s, n) PROVE ~blurred
  BY <1>2 DEF JobPut
<1> QED
  BY <1>1, <1>2 DEF Next, JobStep, Flush, Send, Connect, OnReply, Destroy, OnClose, JobStart,
    SideFlush, Requeue, RequeueDone, JobTake, JobEnd, JobPutBack, JobSkip, JobPassOver,
    JobRefused, JobWrite, JobWriteThrows, OnWritable, FlushPut, OnWritableEmpty,
    OnWritableThrows, Crash, msgs, vars

\* A write by the job that blurs nothing: the ack byte names the slot taken, and
\* what is left to flush has a part of it written.
LEMMA PutEffect ==
  ASSUME TypeOK, NEW s \in Sock, NEW n, At(s), JobPut(s, n), ~blurred'
  PROVE  /\ hand \in Req /\ hand' = Nil /\ n \in 0 .. Units - off[hand]
         /\ Received(s, hand, n)
         /\ off' = IF off[hand] + n = Units THEN off ELSE [off EXCEPT ![hand] = @ + n]
         /\ pending' = [pending EXCEPT ![s] = IF off[hand] + n = Units THEN Nil ELSE hand]
         /\ \E a \in Slots : /\ FreeSlot(s, a)
                             /\ ack' = [ack EXCEPT ![hand] = a]
                             /\ pool' = [pool EXCEPT ![s][a] = hand]
<1>1. /\ hand \in Req /\ WriteMsg(s, hand, 0, n)
      /\ off \in [Req -> 0 .. Units - 1] /\ Units \in Nat \ {0}
      /\ pending \in [Sock -> Req \cup {Nil}]
  BY BoundsAssumption DEF TypeOK, ChanType, MsgType, SockType, At, JobPut
<1>2. /\ n \in 0 .. Units - off[hand] /\ Received(s, hand, n)
      /\ off' = IF off[hand] + n = Units THEN off ELSE [off EXCEPT ![hand] = @ + n]
      /\ pending' = [pending EXCEPT ![s] = IF off[hand] + n = Units THEN Nil ELSE hand]
  BY <1>1 DEF WriteMsg
<1>5. ~Blurs(s) /\ ~blurred
  BY DEF JobPut
<1>3. hand' = Nil
  <2>1. CASE off[hand] + n = Units
    <3>1. pending'[s] = Nil
      BY <1>1, <1>2, <2>1
    <3> QED
      BY <3>1 DEF JobPut
  <2>2. CASE off[hand] + n # Units
    <3>1. pending'[s] # Nil
      BY <1>1, <1>2, <2>2, NilAssumption
    <3>2. off'[hand] # 0
      BY <1>5, <3>1 DEF Blurs
    <3> QED
      BY <3>1, <3>2 DEF JobPut, Unflushed
  <2> QED
    BY <2>1, <2>2
<1>4. \E a \in Slots : /\ FreeSlot(s, a)
                       /\ ack' = [ack EXCEPT ![hand] = AckByte(a)]
                       /\ pool' = [pool EXCEPT ![s][a] = hand]
  BY <1>1 DEF WriteMsg
<1> QED
  BY <1>1, <1>2, <1>3, <1>4, <1>5 DEF Blurs

LEMMA HeldPut ==
  ASSUME TypeOK, HeldInv, NEW s \in Sock, NEW n,
         At(s), Usable(s), pending[s] = Nil, JobPut(s, n), ~blurred'
  PROVE  HeldInv'
<1>1. /\ conn[s] = "open" /\ hand \in Req /\ hand # Nil /\ hand' = Nil
      /\ UNCHANGED <<queue, side, sent, dispatched, conn, leaving, key>>
  BY PutEffect, NilAssumption DEF Usable, JobPut, loop
<1>2. PICK a \in Slots : /\ FreeSlot(s, a)
                         /\ ack' = [ack EXCEPT ![hand] = a]
                         /\ pool' = [pool EXCEPT ![s][a] = hand]
  BY PutEffect
<1>3. PlaceInv'
  BY <1>1, <1>2, PlaceFill DEF HeldInv
<1>4. ~Slotted(hand)
  BY <1>1 DEF HeldInv, PlaceInv, PlaceOf, Apart
<1>5. EndsMeet(s)'
  <2>1. EndsMeet(s)
    BY <1>1 DEF HeldInv, PeerInv, PeerOf
  <2>2. \A m \in inbox[s] : m.ack \in Slots /\ pool[s][m.ack] = m.req /\ m.req # hand
    BY <1>1, <1>4, <2>1 DEF EndsMeet, FramesMeet, Slotted, Holds, InSlot
  <2>3. ~wire[s].torn => wire[s].got = 0
    BY <2>1 DEF EndsMeet, BytesMeet
  <2>4. /\ ack'[hand] = a /\ pool'[s][a] = hand /\ pool[s][a] = Nil
        /\ \A b \in Slots \ {a} : pool'[s][b] = pool[s][b]
    BY <1>1, <1>2 DEF TypeOK, SockType, MsgType, FreeSlot
  <2>5. /\ n \in 0 .. Units - off[hand] /\ Received(s, hand, n)
        /\ off' = IF off[hand] + n = Units THEN off ELSE [off EXCEPT ![hand] = @ + n]
        /\ pending'[s] = IF off[hand] + n = Units THEN Nil ELSE hand
    BY PutEffect DEF TypeOK, SockType
  <2> QED
    BY <1>1, <2>2, <2>3, <2>4, <2>5, WriteMeets
<1>6. ASSUME NEW t \in Sock, t # s PROVE PeerOf(t)'
  <2>1. /\ pool'[t] = pool[t] /\ pending'[t] = pending[t]
        /\ inbox'[t] = inbox[t] /\ wire'[t] = wire[t]
    BY <1>2, <1>6, PutEffect DEF TypeOK, SockType, PeerType, Received, peer
  <2>2. conn[t] = "open" /\ pending[t] # Nil =>
          ack'[pending[t]] = ack[pending[t]] /\ off'[pending[t]] = off[pending[t]]
    <3>1. conn[t] = "open" /\ pending[t] # Nil => pending[t] \in Req /\ pending[t] # hand
      BY <1>1, OthersMeet DEF HeldInv
    <3> QED
      BY <1>2, <3>1, PutEffect DEF TypeOK, MsgType
  <2> QED
    BY <1>1, <2>1, <2>2, PeerFrame DEF HeldInv, PeerInv
<1>7. PeerInv'
  BY <1>1, <1>5, <1>6 DEF PeerInv, PeerOf
<1> QED
  BY <1>1, <1>3, <1>7 DEF HeldInv, Gone

\* A flush keeps the ack byte and the slot of its request.
LEMMA FlushEffect ==
  ASSUME TypeOK, HeldInv, NEW s \in Sock, NEW n,
         Writable(s), pending[s] # Nil, FlushPut(s, n)
  PROVE  LET r == pending[s]
         IN /\ r \in Req /\ conn[s] = "open" /\ n \in 0 .. Units - off[r]
            /\ ack[r] \in Slots /\ ack[r] # 0 /\ pool[s][ack[r]] = r
            /\ UNCHANGED <<pool, outgoing, ack>> /\ Received(s, r, n)
            /\ off' = IF off[r] + n = Units THEN off ELSE [off EXCEPT ![r] = @ + n]
            /\ pending' = [pending EXCEPT ![s] = IF off[r] + n = Units THEN Nil ELSE r]
<1> PICK r : r = pending[s]
  OBVIOUS
<1>1. /\ r \in Req /\ conn[s] = "open" /\ WriteMsg(s, r, ack[r], n)
      /\ ack \in [Req -> 0 .. AckRange - 1]
  BY DEF TypeOK, SockType, MsgType, Writable, FlushPut
<1>2. ack[r] \in Slots /\ pool[s][ack[r]] = r
  BY <1>1, PendingSlotted DEF HeldInv, Holds
<1>3. ack[r] # 0
  BY <1>2 DEF Slots
<1>4. UNCHANGED <<pool, outgoing, ack>>
  BY <1>1, <1>3 DEF WriteMsg
<1>5. /\ n \in 0 .. Units - off[r] /\ Received(s, r, n)
      /\ off' = IF off[r] + n = Units THEN off ELSE [off EXCEPT ![r] = @ + n]
      /\ pending' = [pending EXCEPT ![s] = IF off[r] + n = Units THEN Nil ELSE r]
  BY <1>1 DEF WriteMsg
<1> QED
  BY <1>1, <1>2, <1>3, <1>4, <1>5

LEMMA HeldFlush ==
  ASSUME TypeOK, HeldInv, NEW s \in Sock, NEW n,
         Writable(s), pending[s] # Nil, FlushPut(s, n)
  PROVE  HeldInv'
<1> PICK r : r = pending[s]
  OBVIOUS
<1>1. /\ r \in Req /\ conn[s] = "open" /\ n \in 0 .. Units - off[r]
      /\ ack[r] \in Slots /\ pool[s][ack[r]] = r /\ UNCHANGED <<pool, ack>>
      /\ Received(s, r, n)
      /\ off' = IF off[r] + n = Units THEN off ELSE [off EXCEPT ![r] = @ + n]
      /\ pending' = [pending EXCEPT ![s] = IF off[r] + n = Units THEN Nil ELSE r]
  BY FlushEffect
<1>2. UNCHANGED <<queue, side, hand, sent, dispatched, conn, leaving, key>>
  BY DEF FlushPut, loop
<1>3. PlaceInv'
  <2>1. \A t \in Sock, a \in Slots : InSlot(t, a)' => InSlot(t, a)
    BY <1>2 DEF InSlot
  <2> QED
    BY <1>1, <1>2, <2>1, PlaceFrame DEF HeldInv
<1>4. EndsMeet(s)'
  <2>1. EndsMeet(s)
    BY <1>1 DEF HeldInv, PeerInv, PeerOf
  <2>2. \A m \in inbox[s] : m.ack \in Slots /\ pool[s][m.ack] = m.req /\ m.req # r
    BY <2>1 DEF EndsMeet, FramesMeet
  <2>3. ~wire[s].torn => wire[s].got = 0 \/ (wire[s].got = off[r] /\ wire[s].ack = ack[r])
    BY <1>1, <2>1, NilAssumption DEF EndsMeet, BytesMeet
  <2>4. pending'[s] = IF off[r] + n = Units THEN Nil ELSE r
    BY <1>1 DEF TypeOK, SockType
  <2> QED
    BY <1>1, <2>2, <2>3, <2>4, WriteMeets
<1>5. ASSUME NEW t \in Sock, t # s PROVE PeerOf(t)'
  <2>1. /\ pending'[t] = pending[t] /\ inbox'[t] = inbox[t] /\ wire'[t] = wire[t]
    BY <1>1, <1>5 DEF TypeOK, SockType, PeerType, Received, peer
  <2>2. conn[t] = "open" /\ pending[t] # Nil => off'[pending[t]] = off[pending[t]]
    <3>1. conn[t] = "open" /\ pending[t] # Nil => pending[t] \in Req /\ pending[t] # r
      BY <1>1, <1>5, OthersMeet DEF HeldInv
    <3> QED
      BY <1>1, <3>1 DEF TypeOK, MsgType
  <2> QED
    BY <1>1, <1>2, <2>1, <2>2, PeerFrame DEF HeldInv, PeerInv
<1>6. PeerInv'
  BY <1>1, <1>2, <1>4, <1>5 DEF PeerInv, PeerOf
<1> QED
  BY <1>2, <1>3, <1>6 DEF HeldInv, Gone

-----------------------------------------------------------------------------
(* The other events                                                        *)

\* A step that leaves slots, bytes and frames alone.
LEMMA PeerStill ==
  ASSUME PeerInv, UNCHANGED <<conn, pool, pending, ack, off, wire, inbox>>
  PROVE  PeerInv'
<1> SUFFICES ASSUME NEW s \in Sock PROVE PeerOf(s)'
  BY DEF PeerInv
<1> QED
  BY PeerFrame DEF PeerInv

\* A message the job could not write, or whose write threw.
LEMMA HeldUnwritten ==
  ASSUME TypeOK, HeldInv, NEW s \in Sock, JobRefused(s) \/ JobWriteThrows(s)
  PROVE  HeldInv'
<1>1. /\ hand \in Req /\ conn[s] = "open" /\ hand' \in {hand, Nil}
      /\ \A r \in Req : r # hand => ack'[r] = ack[r]
      /\ UNCHANGED <<queue, side, sent, dispatched, leaving, key, pool, pending, off, wire, inbox>>
  BY DEF JobRefused, JobWriteThrows, At, Usable, Unflushed, WriteThrows, TypeOK,
    ChanType, MsgType, loop, socks, peer
<1>2. \A t \in Sock : conn'[t] = conn[t] \/ (t = s /\ conn'[t] = "closing")
  BY DEF JobRefused, JobWriteThrows, WriteThrows, Destroyed, TypeOK, SockType, socks
<1>3. PlaceInv'
  BY <1>1, <1>2, SameSlots, PlaceFrame DEF HeldInv
<1>4. PeerInv'
  <2> SUFFICES ASSUME NEW t \in Sock PROVE PeerOf(t)'
    BY DEF PeerInv
  <2>1. conn[t] = "open" /\ pending[t] # Nil => pending[t] \in Req /\ pending[t] # hand
    BY <1>1, OthersMeet DEF HeldInv
  <2> QED
    BY <1>1, <1>2, <2>1, PeerFrame DEF HeldInv, PeerInv
<1> QED
  BY <1>1, <1>2, <1>3, <1>4 DEF HeldInv, Gone, TypeOK, LoopType

LEMMA HeldFlushThrows ==
  ASSUME TypeOK, HeldInv, NEW s \in Sock, OnWritableThrows(s)
  PROVE  HeldInv'
<1> PICK r : r = pending[s]
  OBVIOUS
<1>1. /\ r \in Req /\ conn[s] = "open"
      /\ \A x \in Req : x # r => ack'[x] = ack[x]
      /\ \A t \in Sock : t # s => pending'[t] = pending[t]
      /\ UNCHANGED <<queue, side, hand, sent, dispatched, leaving, key, pool, off, wire, inbox>>
  BY DEF OnWritableThrows, Writable, WriteThrows, TypeOK, SockType, MsgType, chan, loop, peer
<1>2. \A t \in Sock : (t # s /\ conn'[t] = conn[t]) \/ (t = s /\ conn'[t] = "closing")
  BY DEF OnWritableThrows, WriteThrows, Destroyed, TypeOK, SockType
<1>3. PlaceInv'
  BY <1>1, <1>2, SameSlots, PlaceFrame DEF HeldInv
<1>4. PeerInv'
  <2> SUFFICES ASSUME NEW t \in Sock PROVE PeerOf(t)'
    BY DEF PeerInv
  <2>1. CASE t = s
    BY <1>2, <2>1, PeerGone
  <2>2. CASE t # s
    <3>1. conn[t] = "open" /\ pending[t] # Nil => pending[t] \in Req /\ pending[t] # r
      BY <1>1, <2>2, OthersMeet DEF HeldInv
    <3> QED
      BY <1>1, <1>2, <2>2, <3>1, PeerFrame DEF HeldInv, PeerInv
  <2> QED
    BY <2>1, <2>2
<1> QED
  BY <1>1, <1>2, <1>3, <1>4 DEF HeldInv, Gone, TypeOK, LoopType

LEMMA HeldReply ==
  ASSUME TypeOK, HeldInv, NEW s \in Sock, NEW m \in inbox[s], NEW kind,
         OnReply(s, m, kind)
  PROVE  /\ HeldInv'
         /\ Waiting(s, m.ack) = m.req /\ m.req \in Req /\ Holds(s, m.ack, m.req)
<1>1. /\ conn[s] = "open" /\ inbox' = [inbox EXCEPT ![s] = @ \ {m}]
      /\ UNCHANGED <<conn, leaving, pending, ack, off, wire>>
  BY DEF OnReply, loop
<1>2. EndsMeet(s) /\ inbox[s] \subseteq Frame
  BY <1>1 DEF HeldInv, PeerInv, PeerOf, TypeOK, PeerType
<1>3. m.ack \in Slots /\ m.req \in Req /\ pool[s][m.ack] = m.req /\ m.req # pending[s]
  BY <1>2 DEF EndsMeet, FramesMeet, Frame
<1>4. Waiting(s, m.ack) = m.req /\ Holds(s, m.ack, m.req)
  BY <1>1, <1>3 DEF Waiting, Holds, InSlot
<1>5. pool' = [pool EXCEPT ![s][m.ack] = Nil]
  BY <1>3, <1>4, NilAssumption DEF OnReply, FreeAck
<1>6. PlaceInv'
  BY PlaceReply DEF HeldInv
<1>7. EndsMeet(s)'
  <2>1. \A a \in Slots \ {m.ack} : pool'[s][a] = pool[s][a]
    BY <1>5 DEF TypeOK, SockType
  <2>2. FramesMeet(s)'
    <3> SUFFICES ASSUME NEW x \in inbox'[s]
                 PROVE  x.ack \in Slots /\ pool'[s][x.ack] = x.req /\ x.req # pending'[s]
      BY DEF FramesMeet, Slots
    <3>1. x \in inbox[s] /\ x # m
      BY <1>1 DEF TypeOK, PeerType
    <3>2. x.ack \in Slots /\ pool[s][x.ack] = x.req /\ x.req # pending[s]
      BY <1>2, <3>1 DEF EndsMeet, FramesMeet
    <3>3. x.ack # m.ack
      BY <1>2, <1>3, <3>1, <3>2 DEF Frame
    <3> QED
      BY <1>1, <2>1, <3>2, <3>3
  <2>3. FlushMeets(s)'
    BY <1>1, <1>2, <1>3, <2>1 DEF EndsMeet, FlushMeets, Slots
  <2>4. BytesMeet(s)'
    BY <1>1, <1>2 DEF EndsMeet, BytesMeet
  <2> QED
    BY <2>2, <2>3, <2>4 DEF EndsMeet
<1>8. ASSUME NEW t \in Sock, t # s PROVE PeerOf(t)'
  <2>1. pool'[t] = pool[t] /\ inbox'[t] = inbox[t]
    BY <1>1, <1>5, <1>8 DEF TypeOK, SockType, PeerType
  <2> QED
    BY <1>1, <2>1, PeerFrame DEF HeldInv, PeerInv
<1>9. PeerInv'
  BY <1>1, <1>7, <1>8 DEF PeerInv, PeerOf
<1> QED
  BY <1>1, <1>3, <1>4, <1>6, <1>9 DEF HeldInv, Gone

\* Connecting, and being destroyed or closed.
LEMMA HeldLife ==
  ASSUME TypeOK, HeldInv, NEW s \in Sock, Connect(s) \/ Destroy(s) \/ OnClose(s)
  PROVE  HeldInv'
<1>1. UNCHANGED <<queue, side, hand, sent, dispatched, pool, pending, ack, off, wire, inbox>>
  BY DEF Connect, Destroy, OnClose, chan, msgs, peer
<1>2. \A t \in Sock : t # s => conn'[t] = conn[t]
  BY DEF Connect, Destroy, Destroyed, OnClose, TypeOK, SockType
<1>3. \/ conn[s] = "connecting" /\ conn'[s] = "open" /\ UNCHANGED <<leaving, key>>
      \/ conn[s] = "open" /\ conn'[s] = "closing" /\ UNCHANGED <<leaving, key>>
      \/ conn[s] = "closing" /\ conn'[s] = "closed" /\ leaving = Nil /\ leaving' = s
         /\ key' = MaxOut
  BY DEF Connect, Destroy, Destroyed, OnClose, Quiet, TypeOK, SockType, loop
<1>4. \A t \in Sock, a \in Slots : InSlot(t, a)' => InSlot(t, a)
  BY <1>2, <1>3 DEF InSlot
<1>5. PlaceInv'
  BY <1>1, <1>4, PlaceFrame DEF HeldInv
<1>6. PeerInv'
  <2> SUFFICES ASSUME NEW t \in Sock PROVE PeerOf(t)'
    BY DEF PeerInv
  <2>1. PeerOf(t)
    BY DEF HeldInv, PeerInv
  <2>2. CASE t = s /\ conn[s] = "connecting"
    <3>1. Fresh(t) /\ UNCHANGED <<pending, wire, inbox>>
      BY <1>1, <2>1, <2>2 DEF PeerOf
    <3>2. EndsMeet(t)'
      BY <3>1 DEF Fresh, EndsMeet, FramesMeet, FlushMeets, BytesMeet
    <3> QED
      BY <1>3, <2>2, <3>2 DEF PeerOf
  <2>3. CASE t = s /\ conn[s] # "connecting"
    BY <1>3, <2>3, PeerGone
  <2>4. CASE t # s
    BY <1>1, <1>2, <2>1, <2>4, PeerFrame
  <2> QED
    BY <2>2, <2>3, <2>4
<1>7. Gone'
  BY <1>2, <1>3 DEF HeldInv, Gone, TypeOK, LoopType
<1> QED
  BY <1>5, <1>6, <1>7 DEF HeldInv

LEMMA HeldInit == Init => HeldInv
<1> SUFFICES ASSUME Init PROVE HeldInv
  OBVIOUS
<1>1. /\ queue = <<>> /\ side = <<>> /\ hand = Nil /\ leaving = Nil /\ sent = {}
      /\ dispatched = [r \in Req |-> 0] /\ pool = [s \in Sock |-> [a \in Slots |-> Nil]]
  BY DEF Init
<1>2. ToSet(queue) = {} /\ ToSet(side) = {} /\ IsInjective(queue) /\ IsInjective(side)
  BY <1>1 DEF ToSet, IsInjective
<1>3. ASSUME NEW x \in Req PROVE PlaceOf(x)
  <2>1. x # Nil /\ ~Slotted(x) /\ \A s \in Sock, a \in Slots : ~Holds(s, a, x)
    BY <1>1, NilAssumption DEF Slotted, Holds
  <2> QED
    BY <1>1, <1>2, <2>1 DEF PlaceOf, Apart, SlotOnce, Unanswered, SentFirst
<1>4. PeerInv
  BY DEF Init, PeerInv, PeerOf, Fresh
<1> QED
  BY <1>1, <1>2, <1>3, <1>4 DEF HeldInv, PlaceInv, Gone

LEMMA HeldStep ==
  ASSUME TypeOK, HeldClear, [Next]_vars, ~blurred'
  PROVE  HeldInv'
<1>0. HeldInv
  BY ClearBefore DEF HeldClear
<1> USE <1>0
<1>1. ASSUME UNCHANGED <<queue, side, hand, sent, dispatched, loop, conn, pool, pending,
                         ack, off, wire, inbox>>
      PROVE  HeldInv'
  <2>1. PlaceInv'
    BY <1>1, SameSlots, PlaceFrame DEF HeldInv, loop
  <2> QED
    BY <1>1, <2>1, PeerStill DEF HeldInv, Gone, loop
<1>2. ASSUME PlaceInv', UNCHANGED <<socks, ack, off, peer, leaving>> PROVE HeldInv'
  BY <1>2, PeerStill DEF HeldInv, Gone, socks, peer
<1>3. CASE UNCHANGED vars \/ Crash
  BY <1>1, <1>3 DEF vars, Crash, chan, socks, msgs, peer
<1>4. CASE JobStep
  <2>1. CASE JobTake \/ JobPutBack
    <3>1. PlaceInv' /\ UNCHANGED <<socks, ack, off, peer, leaving>>
      BY <2>1, PlaceTake, PlacePutBack DEF HeldInv, JobTake, JobPutBack, msgs, loop
    <3> QED
      BY <1>2, <3>1
  <2>2. CASE JobEnd \/ \E s \in Sock : JobSkip(s) \/ JobPassOver(s)
    BY <1>1, <2>2 DEF JobEnd, JobSkip, JobPassOver, socks, msgs, peer
  <2>3. ASSUME NEW s \in Sock, NEW n, JobWrite(s, n) PROVE HeldInv'
    BY <1>3, <2>3, HeldPut DEF JobWrite
  <2> QED
    BY <1>4, <2>1, <2>2, <2>3, HeldUnwritten DEF JobStep
<1>5. ASSUME NEW s \in Sock, Flush(s) PROVE HeldInv'
  <2>1. CASE OnWritableEmpty(s)
    BY <1>1, <2>1 DEF OnWritableEmpty, msgs, peer
  <2>2. ASSUME NEW n, OnWritable(s, n) PROVE HeldInv'
    BY <1>3, <2>2, HeldFlush DEF OnWritable
  <2> QED
    BY <1>5, <2>1, <2>2, HeldFlushThrows DEF Flush
<1>6. CASE (\E r \in Req : Send(r)) \/ SideFlush \/ Requeue
  <2>1. PlaceInv' /\ UNCHANGED <<socks, ack, off, peer, leaving>>
    BY <1>6, PlaceSend, PlaceSideFlush, PlaceRequeue
      DEF HeldInv, Send, SideFlush, Requeue, msgs, loop
  <2> QED
    BY <1>2, <2>1
<1>7. CASE JobStart
  BY <1>1, <1>7 DEF JobStart, socks, msgs, peer
<1>8. CASE RequeueDone
  <2>1. leaving' = Nil /\ key' = key /\ key \in Nat /\ ~(key > 0)
        /\ UNCHANGED <<queue, side, hand, socks, msgs, peer>>
    BY <1>8 DEF RequeueDone, MoreKeys, TypeOK, LoopType
  <2>2. PlaceInv'
    <3>1. \A s \in Sock, a \in Slots : InSlot(s, a)' => InSlot(s, a)
      BY <2>1, NilAssumption DEF InSlot, socks
    <3> QED
      BY <2>1, <3>1, PlaceFrame DEF HeldInv, socks, msgs
  <2> QED
    BY <2>1, <2>2, PeerStill DEF HeldInv, Gone, socks, msgs, peer
<1> QED
  BY <1>3, <1>4, <1>5, <1>6, <1>7, <1>8, HeldReply, HeldLife DEF Next

LEMMA HeldAlways == Spec => []HeldClear
<1>1. Init => HeldClear
  BY HeldInit DEF HeldClear
<1>2. TypeOK /\ HeldClear /\ [Next]_vars => HeldClear'
  BY HeldStep DEF HeldClear
<1> QED
  BY <1>1, <1>2, TypeCorrect, PTL DEF Spec

LEMMA OnePlace ==
  ASSUME NEW r, PlaceInv, r \in Req
  PROVE  /\ Places(r) # {} => Live(r)
         /\ \A p, q \in Places(r) : p = q
<1>1. ASSUME NEW p \in Places(r)
      PROVE  \/ \E i \in DOMAIN queue : queue[i] = r /\ p = <<"queue", i>>
             \/ \E i \in DOMAIN side : side[i] = r /\ p = <<"side", i>>
             \/ r = hand /\ p = <<"hand">>
             \/ \E s \in Sock, a \in Slots : Holds(s, a, r) /\ p = <<"slot", <<s, a>>>>
  BY DEF Places, Holds
<1>2. PlaceOf(r)
  BY DEF PlaceInv
<1>3. ASSUME NEW p \in Places(r) PROVE Live(r)
  <2>1. r \in ToSet(queue) \/ r \in ToSet(side) \/ r = hand \/ Slotted(r)
    BY <1>1 DEF ToSet, Slotted
  <2> QED
    BY <1>2, <2>1 DEF PlaceOf, Unanswered
<1>4. ASSUME NEW p \in Places(r), NEW q \in Places(r) PROVE p = q
  <2>1. CASE r \in ToSet(queue)
    <3>1. r \notin ToSet(side) /\ r # hand /\ ~Slotted(r)
      BY <1>2, <2>1 DEF PlaceOf, Apart
    <3>2. \A i, j \in DOMAIN queue : queue[i] = r /\ queue[j] = r => i = j
      BY DEF PlaceInv, IsInjective
    <3> QED
      BY <1>1, <3>1, <3>2 DEF ToSet, Slotted
  <2>2. CASE r \in ToSet(side)
    <3>1. r \notin ToSet(queue) /\ r # hand /\ ~Slotted(r)
      BY <1>2, <2>2 DEF PlaceOf, Apart
    <3>2. \A i, j \in DOMAIN side : side[i] = r /\ side[j] = r => i = j
      BY DEF PlaceInv, IsInjective
    <3> QED
      BY <1>1, <3>1, <3>2 DEF ToSet, Slotted
  <2>3. CASE r \notin ToSet(queue) /\ r \notin ToSet(side)
    <3>1. r = hand => ~Slotted(r)
      BY <1>2 DEF PlaceOf, Apart
    <3>2. \A s, t \in Sock, a, b \in Slots : Holds(s, a, r) /\ Holds(t, b, r) => s = t /\ a = b
      BY <1>2 DEF PlaceOf, SlotOnce
    <3> QED
      BY <1>1, <2>3, <3>1, <3>2 DEF ToSet, Slotted
  <2> QED
    BY <2>1, <2>2, <2>3
<1> QED
  BY <1>3, <1>4

\* A request waits in one place at a time, and in none once its sender has the
\* final answer: the job, the side queue and the disconnect handler never hand
\* it to two endpoints.
THEOREM HeldOnceCorrect == Spec => []HeldOnce
<1>1. HeldClear => HeldOnce
  <2> SUFFICES ASSUME PlaceInv, NEW r \in Req
               PROVE  Cardinality(Places(r)) <= (IF r \in sent /\ dispatched[r] = 0 THEN 1 ELSE 0)
    BY DEF HeldOnce, HeldClear, HeldInv
  <2>1. CASE Places(r) = {}
    BY <2>1, FS_EmptySet
  <2>2. CASE Places(r) # {}
    <3>1. PICK p : p \in Places(r)
      BY <2>2
    <3>2. Places(r) = {p} /\ Live(r)
      BY <3>1, OnePlace
    <3>3. Cardinality(Places(r)) = 1
      BY <3>2, FS_Singleton
    <3> QED
      BY <3>2, <3>3 DEF Live
  <2> QED
    BY <2>1, <2>2
<1> QED
  BY <1>1, HeldAlways, PTL

\* The slot an answer is matched with holds the request that the peer answers,
\* for as long as the peer can answer it.
THEOREM ReplyCorrelated == Spec => []ReplyCorrelation
<1>1. HeldClear => ReplyCorrelation
  BY DEF HeldClear, HeldInv, PeerInv, PeerOf, EndsMeet, FramesMeet, ReplyCorrelation, Waiting, Slots
<1> QED
  BY <1>1, HeldAlways, PTL

-----------------------------------------------------------------------------
(* The assertion of _writemsg                                              *)

LEMMA SlotLeft ==
  ASSUME AckAccounting, NEW s \in Sock, HasHandlers(outgoing[s])
  PROVE  ~NoFreeSlot(s)
<1> SUFFICES ASSUME NoFreeSlot(s) PROVE FALSE
  OBVIOUS
<1>1. Taken(s) = Slots
  BY DEF NoFreeSlot, Taken
<1>2. Cardinality(Slots) = MaxOut
  BY BoundsAssumption, FS_Interval DEF Slots
<1> QED
  BY <1>1, <1>2, BoundsAssumption DEF AckAccounting, HasHandlers

LEMMA NoCrashStep ==
  ASSUME TypeOK, AckAccounting, HeldClear, NoAckExhaustion, [Next]_vars
  PROVE  NoAckExhaustion'
<1> SUFFICES ASSUME ~blurred' PROVE ~crashed'
  BY DEF NoAckExhaustion
<1>0. ~blurred /\ HeldInv
  BY ClearBefore DEF HeldClear
<1>1. ASSUME NEW s \in Sock, NEW n, JobWrite(s, n) PROVE ~crashed'
  <2>1. ~NoAckLeft(s, 0)
    BY <1>1, SlotLeft DEF JobWrite, Usable, NoAckLeft
  <2> QED
    BY <1>0, <1>1, <2>1 DEF JobWrite, JobPut, NoAckExhaustion
<1>2. ASSUME NEW s \in Sock, NEW n, OnWritable(s, n) PROVE ~crashed'
  <2>1. ack[pending[s]] # 0
    BY <1>0, <1>2, PendingSlotted DEF OnWritable, Writable, HeldInv, Slots
  <2> QED
    BY <1>0, <1>2, <2>1 DEF OnWritable, FlushPut, NoAckLeft, NoAckExhaustion
<1>3. CASE UNCHANGED crashed
  BY <1>0, <1>3 DEF NoAckExhaustion
<1> QED
  BY <1>1, <1>2, <1>3 DEF Next, JobStep, Flush, Send, Connect, OnReply, Destroy, OnClose,
    JobStart, SideFlush, Requeue, RequeueDone, JobTake, JobEnd, JobPutBack, JobSkip,
    JobPassOver, JobRefused, JobWriteThrows, OnWritableEmpty, OnWritableThrows, vars,
    NoAckExhaustion

\* The assertion on the ack of a new message never fails: a ready socket has a
\* free slot, and a flush never takes a second one.
THEOREM NoAckExhausted == Spec => []NoAckExhaustion
<1>1. Init => NoAckExhaustion
  BY DEF Init, NoAckExhaustion
<1>2. TypeOK /\ AckAccounting /\ HeldClear /\ NoAckExhaustion /\ [Next]_vars => NoAckExhaustion'
  BY NoCrashStep
<1> QED
  BY <1>1, <1>2, HeldAlways, TypeCorrect, AckCorrect, PTL DEF Spec

-----------------------------------------------------------------------------
(* No request is lost                                                      *)

Broken == \E s \in Sock : conn[s] \in {"closing", "closed"}
Somewhere(r) == r \in ToSet(queue) \/ r \in ToSet(side) \/ r = hand \/ Slotted(r)

\* A request whose write began is answered, was rejected, was with a connection
\* that broke, or is still in a slot.
Begun(r) == off[r] # 0 => dispatched[r] > 0 \/ rejects[r] > 0 \/ Broken \/ Slotted(r)
Kept(r) ==
  r \in sent /\ dispatched[r] = 0 => Somewhere(r) \/ (off[r] # 0 /\ (rejects[r] > 0 \/ Broken))
LostOf(r) == Begun(r) /\ Kept(r)
LostInv == \A r \in Req : LostOf(r)
LostClear == ~blurred => LostInv

LEMMA LostFrame ==
  ASSUME NEW x, LostOf(x),
         x \in sent' => x \in sent,
         dispatched'[x] = dispatched[x], rejects'[x] = rejects[x], off'[x] = off[x],
         Somewhere(x) => Somewhere(x)',
         Slotted(x) => Slotted(x)' \/ Broken',
         Broken => Broken'
  PROVE  LostOf(x)'
BY DEF LostOf, Begun, Kept

LEMMA StaysBroken == TypeOK /\ [Next]_vars /\ Broken => Broken'
<1> SUFFICES ASSUME TypeOK, [Next]_vars, NEW s \in Sock, conn[s] \in {"closing", "closed"}
             PROVE  conn'[s] \in {"closing", "closed"}
  BY DEF Broken
<1>1. conn \in [Sock -> {"connecting", "open", "closing", "closed"}]
  BY DEF TypeOK, SockType
<1>2. CASE UNCHANGED conn
  BY <1>2
<1>3. ASSUME NEW t \in Sock, \/ Connect(t) \/ Destroy(t) \/ OnClose(t)
                             \/ JobWriteThrows(t) \/ OnWritableThrows(t)
      PROVE  conn'[s] \in {"closing", "closed"}
  BY <1>1, <1>3 DEF Connect, Destroy, OnClose, JobWriteThrows, OnWritableThrows, WriteThrows,
    Destroyed
<1>4. CASE Crash \/ UNCHANGED vars
  BY <1>2, <1>4 DEF Crash, vars, socks
<1>5. CASE JobStep
  BY <1>2, <1>3, <1>4, <1>5 DEF JobStep, JobTake, JobEnd, JobPutBack, JobSkip, JobPassOver,
    JobRefused, JobWrite, JobPut, socks
<1>6. ASSUME NEW t \in Sock, Flush(t) PROVE conn'[s] \in {"closing", "closed"}
  BY <1>2, <1>3, <1>4, <1>6 DEF Flush, OnWritableEmpty, OnWritable, FlushPut
<1> QED
  BY <1>2, <1>3, <1>4, <1>5, <1>6 DEF Next, Send, OnReply, JobStart, SideFlush, Requeue,
    RequeueDone, socks

\* A step that keeps messages and slots: requests may change place, and the
\* slots of a connection only leave with it.
LEMMA LostStill ==
  ASSUME LostInv, Broken => Broken',
         UNCHANGED <<sent, dispatched, rejects, off, pool>>,
         \A s \in Sock, a \in Slots : InSlot(s, a) => InSlot(s, a)',
         (ToSet(queue) \cup ToSet(side) \cup {hand}) \ {Nil} \subseteq
           ToSet(queue') \cup ToSet(side') \cup {hand'}
  PROVE  LostInv'
<1> SUFFICES ASSUME NEW x \in Req PROVE LostOf(x)'
  BY DEF LostInv
<1>1. Slotted(x) => Slotted(x)'
  BY DEF Slotted, Holds
<1>2. Somewhere(x) => Somewhere(x)'
  BY <1>1, NilAssumption DEF Somewhere
<1> QED
  BY <1>1, <1>2, LostFrame DEF LostInv

LEMMA LostSend ==
  ASSUME TypeOK, LostInv, NEW r \in Req, Send(r)
  PROVE  LostInv'
<1>1. /\ queue' = Append(queue, r) /\ sent' = sent \cup {r}
      /\ UNCHANGED <<side, hand, dispatched, rejects, off, pool, conn, leaving, key>>
  BY DEF Send, loop, socks
<1>2. ToSet(queue') = ToSet(queue) \cup {r}
  BY <1>1, AppendOnce DEF TypeOK, ChanType
<1> SUFFICES ASSUME NEW x \in Req PROVE LostOf(x)'
  BY DEF LostInv
<1>3. Slotted(x)' <=> Slotted(x)
  BY <1>1 DEF Slotted, Holds, InSlot
<1>4. Broken' <=> Broken
  BY <1>1 DEF Broken
<1>5. Somewhere(x) \/ x = r => Somewhere(x)'
  BY <1>1, <1>2, <1>3 DEF Somewhere, ToSet
<1> QED
  BY <1>1, <1>3, <1>4, <1>5 DEF LostInv, LostOf, Begun, Kept

\* The job drops the message in its hand only when its write once began.
LEMMA LostUnwritten ==
  ASSUME TypeOK, PlaceInv, LostInv, Broken => Broken',
         NEW s \in Sock, JobRefused(s) \/ JobWriteThrows(s)
  PROVE  LostInv'
<1>1. /\ hand \in Req /\ hand' = (IF off[hand] = 0 THEN hand ELSE Nil)
      /\ UNCHANGED <<queue, side, sent, dispatched, rejects, off, leaving, key, pool>>
  BY DEF JobRefused, JobWriteThrows, At, Unflushed, TypeOK, ChanType, loop, socks
<1>2. \A t \in Sock : conn'[t] = conn[t] \/ (conn[t] = "open" /\ conn'[t] = "closing")
  BY DEF JobRefused, JobWriteThrows, Usable, WriteThrows, Destroyed, TypeOK, SockType, socks
<1> SUFFICES ASSUME NEW x \in Req PROVE LostOf(x)'
  BY DEF LostInv
<1>3. Slotted(x) => Slotted(x)'
  BY <1>1, <1>2 DEF Slotted, Holds, InSlot
<1>4. LostOf(x) /\ x # Nil
  BY NilAssumption DEF LostInv
<1>5. CASE Somewhere(x) => Somewhere(x)'
  BY <1>1, <1>3, <1>4, <1>5, LostFrame
<1>6. CASE Somewhere(x) /\ ~Somewhere(x)'
  <2>1. x = hand /\ off[x] # 0
    BY <1>1, <1>3, <1>6 DEF Somewhere, ToSet
  <2>2. ~Slotted(x) /\ dispatched[x] = 0
    BY <2>1 DEF PlaceInv, PlaceOf, Apart, Unanswered, Live
  <2>3. rejects[x] > 0 \/ Broken
    BY <1>4, <2>1, <2>2 DEF LostOf, Begun
  <2> QED
    BY <1>1, <2>1, <2>3 DEF LostOf, Begun, Kept
<1> QED
  BY <1>5, <1>6

LEMMA LostPut ==
  ASSUME TypeOK, LostInv, NEW s \in Sock, NEW n,
         At(s), Usable(s), JobPut(s, n), ~blurred'
  PROVE  LostInv'
<1>1. /\ conn[s] = "open" /\ hand \in Req
      /\ UNCHANGED <<queue, side, sent, dispatched, rejects, conn, leaving, key>>
      /\ \A x \in Req : x # hand => off'[x] = off[x]
  BY PutEffect DEF Usable, JobPut, loop, TypeOK, MsgType
<1>2. PICK a \in Slots : FreeSlot(s, a) /\ pool' = [pool EXCEPT ![s][a] = hand]
  BY PutEffect
<1>3. pool'[s][a] = hand
      /\ \A t \in Sock, b \in Slots : pool[t][b] # Nil => pool'[t][b] = pool[t][b]
  BY <1>2 DEF FreeSlot, TypeOK, SockType
<1> SUFFICES ASSUME NEW x \in Req PROVE LostOf(x)'
  BY DEF LostInv
<1>4. Slotted(x) => Slotted(x)'
  BY <1>1, <1>3, NilAssumption DEF Slotted, Holds, InSlot
<1>5. Broken' <=> Broken
  BY <1>1 DEF Broken
<1>6. CASE x = hand
  <2>1. Slotted(x)'
    BY <1>1, <1>3, <1>6 DEF Slotted, Holds, InSlot
  <2> QED
    BY <2>1 DEF LostOf, Begun, Kept, Somewhere
<1>7. CASE x # hand
  <2>1. Somewhere(x) => Somewhere(x)'
    BY <1>1, <1>4, <1>7 DEF Somewhere, ToSet
  <2> QED
    BY <1>1, <1>4, <1>5, <1>7, <2>1, LostFrame DEF LostInv
<1> QED
  BY <1>6, <1>7

LEMMA LostFlush ==
  ASSUME TypeOK, HeldInv, LostInv, NEW s \in Sock, NEW n,
         Writable(s), pending[s] # Nil, FlushPut(s, n)
  PROVE  LostInv'
<1> PICK r : r = pending[s]
  OBVIOUS
<1>1. /\ r \in Req /\ UNCHANGED pool
      /\ off' = IF off[r] + n = Units THEN off ELSE [off EXCEPT ![r] = @ + n]
  BY FlushEffect
<1>2. /\ UNCHANGED <<queue, side, hand, sent, dispatched, rejects, conn, leaving, key>>
      /\ Slotted(r)
  BY PendingSlotted DEF FlushPut, loop, Writable, HeldInv
<1> SUFFICES ASSUME NEW x \in Req PROVE LostOf(x)'
  BY DEF LostInv
<1>3. Slotted(x) => Slotted(x)'
  BY <1>1, <1>2 DEF Slotted, Holds, InSlot
<1>4. CASE x = r
  BY <1>2, <1>3, <1>4 DEF LostOf, Begun, Kept, Somewhere
<1>5. CASE x # r
  <2>1. off'[x] = off[x]
    BY <1>1, <1>5 DEF TypeOK, MsgType
  <2>2. Somewhere(x) => Somewhere(x)'
    BY <1>2, <1>3 DEF Somewhere, ToSet
  <2>3. Broken => Broken'
    BY <1>2 DEF Broken
  <2> QED
    BY <1>2, <1>3, <2>1, <2>2, <2>3, LostFrame DEF LostInv
<1> QED
  BY <1>4, <1>5

LEMMA LostReply ==
  ASSUME TypeOK, HeldInv, LostInv,
         NEW s \in Sock, NEW m \in inbox[s], NEW kind, kind \in {"reply", "reject"},
         OnReply(s, m, kind)
  PROVE  LostInv'
<1> PICK r : r = Waiting(s, m.ack)
  OBVIOUS
<1> DEFINE last == kind = "reply" \/ LastReject(r)
<1> PICK final \in BOOLEAN : final = last
  OBVIOUS
<1>1. r \in Req /\ Holds(s, m.ack, r) /\ m.ack \in Slots /\ pool[s][m.ack] = r /\ r # Nil
  BY HeldReply, NilAssumption DEF Holds, Waiting
<1>2. /\ UNCHANGED <<queue, hand, sent, conn, leaving, key, off>>
      /\ pool' = [pool EXCEPT ![s][m.ack] = Nil]
      /\ rejects' = [rejects EXCEPT ![r] = IF kind = "reject" THEN @ + 1 ELSE @]
      /\ dispatched' = [dispatched EXCEPT ![r] = IF final /\ @ < 2 THEN @ + 1 ELSE @]
      /\ side' = IF final THEN side ELSE Append(side, r)
  BY <1>1 DEF OnReply, FreeAck, loop
<1>3. final \/ kind = "reject"
  OBVIOUS
<1> HIDE DEF last
<1>4. ToSet(side) \subseteq ToSet(side') /\ (final \/ r \in ToSet(side'))
  BY <1>1, <1>2, AppendOnce DEF TypeOK, ChanType
<1> SUFFICES ASSUME NEW x \in Req PROVE LostOf(x)'
  BY DEF LostInv
<1>5. CASE x # r
  <2>1. Slotted(x) => Slotted(x)'
    <3>1. \A t \in Sock, a \in Slots : Holds(t, a, x) => Holds(t, a, x)'
      BY <1>1, <1>2, <1>5 DEF Holds, InSlot, TypeOK, SockType
    <3> QED
      BY <3>1 DEF Slotted
  <2>2. Somewhere(x) => Somewhere(x)'
    BY <1>2, <1>4, <2>1 DEF Somewhere, ToSet
  <2>3. (Broken => Broken') /\ rejects'[x] = rejects[x] /\ dispatched'[x] = dispatched[x]
    BY <1>1, <1>2, <1>5 DEF Broken, TypeOK, MsgType
  <2> QED
    BY <1>2, <2>1, <2>2, <2>3, LostFrame DEF LostInv
<1>6. CASE x = r
  <2>1. CASE final
    <3>1. dispatched'[x] > 0
      BY <1>1, <1>2, <1>6, <2>1 DEF TypeOK, MsgType
    <3> QED
      BY <3>1 DEF LostOf, Begun, Kept
  <2>2. CASE ~final
    <3>1. rejects'[x] > 0
      BY <1>1, <1>2, <1>3, <1>6, <2>2 DEF TypeOK, MsgType
    <3>2. Somewhere(x)'
      BY <1>4, <1>6, <2>2 DEF Somewhere
    <3> QED
      BY <3>1, <3>2 DEF LostOf, Begun, Kept
  <2> QED
    BY <2>1, <2>2
<1> QED
  BY <1>5, <1>6

LEMMA LostRequeue ==
  ASSUME TypeOK, Gone, LostInv, Requeue
  PROVE  LostInv'
<1>1. /\ leaving \in Sock /\ key \in Slots /\ key' = key - 1
      /\ UNCHANGED <<side, hand, sent, dispatched, rejects, off, pool, conn, leaving>>
      /\ queue' = IF pool[leaving][key] = Nil THEN queue
                  ELSE Append(queue, pool[leaving][key])
  BY BoundsAssumption DEF TypeOK, LoopType, Requeue, MoreKeys, Waiting, Slots, socks, msgs
<1>2. Broken /\ Broken'
  BY <1>1 DEF Gone, Broken, Requeue
<1>3. ToSet(queue) \subseteq ToSet(queue')
      /\ (pool[leaving][key] # Nil => pool[leaving][key] \in ToSet(queue'))
  BY <1>1, AppendOnce DEF TypeOK, ChanType
<1> SUFFICES ASSUME NEW x \in Req PROVE LostOf(x)'
  BY DEF LostInv
<1>4. Slotted(x) => Slotted(x)' \/ x \in ToSet(queue')
  <2> SUFFICES ASSUME NEW s \in Sock, NEW a \in Slots, Holds(s, a, x)
               PROVE  Holds(s, a, x)' \/ x \in ToSet(queue')
    BY DEF Slotted
  <2>1. CASE s = leaving /\ a = key
    BY <1>3, <2>1, NilAssumption DEF Holds
  <2>2. CASE ~(s = leaving /\ a = key)
    BY <1>1, <2>2 DEF Holds, InSlot, Slots
  <2> QED
    BY <2>1, <2>2
<1>5. Somewhere(x) => Somewhere(x)'
  BY <1>1, <1>3, <1>4 DEF Somewhere, ToSet
<1> QED
  BY <1>1, <1>2, <1>5, LostFrame DEF LostInv

LEMMA LostStep ==
  ASSUME TypeOK, HeldClear, LostClear, [Next]_vars, ~blurred'
  PROVE  LostInv'
<1>0. HeldInv /\ LostInv
  BY ClearBefore DEF HeldClear, LostClear
<1> USE <1>0
<1>1. Broken => Broken'
  BY StaysBroken
<1>2. ASSUME UNCHANGED <<queue, side, hand, sent, dispatched, rejects, off, pool>>,
             \A s \in Sock, a \in Slots : InSlot(s, a) => InSlot(s, a)'
      PROVE  LostInv'
  BY <1>1, <1>2, LostStill
<1>3. ASSUME UNCHANGED <<sent, dispatched, rejects, off, pool, conn, leaving, key>>,
             (ToSet(queue) \cup ToSet(side) \cup {hand}) \ {Nil} \subseteq
               ToSet(queue') \cup ToSet(side') \cup {hand'}
      PROVE  LostInv'
  BY <1>1, <1>3, LostStill DEF InSlot
<1>4. CASE UNCHANGED vars \/ Crash
  BY <1>3, <1>4 DEF vars, Crash, chan, socks, msgs, loop
<1>5. CASE JobStep
  <2>1. CASE JobTake
    <3>1. ToSet(queue) = ToSet(queue') \cup {hand'} /\ hand = Nil
      BY <2>1, TailOnce DEF JobTake, TypeOK, ChanType
    <3> QED
      BY <1>3, <2>1, <3>1 DEF JobTake, socks, msgs, loop, ToSet
  <2>2. CASE JobPutBack
    <3> DEFINE one == <<hand>>
    <3>1. queue \in Seq(Req) /\ one \in Seq(Req) /\ queue' = one \o queue
      BY <2>2 DEF JobPutBack, TypeOK, ChanType
    <3>2. ToSet(one) = {hand}
      BY SingleOnce
    <3> HIDE DEF one
    <3>3. ToSet(queue') = {hand} \cup ToSet(queue)
      BY <3>1, <3>2, ConcatOnce
    <3> QED
      BY <1>3, <2>2, <3>3 DEF JobPutBack, socks, msgs, loop, ToSet
  <2>3. CASE JobEnd \/ \E s \in Sock : JobSkip(s) \/ JobPassOver(s)
    BY <1>3, <2>3 DEF JobEnd, JobSkip, JobPassOver, socks, msgs, loop
  <2>4. ASSUME NEW s \in Sock, NEW n, JobWrite(s, n) PROVE LostInv'
    BY <1>4, <2>4, LostPut DEF JobWrite
  <2> QED
    BY <1>1, <1>5, <2>1, <2>2, <2>3, <2>4, LostUnwritten DEF JobStep, HeldInv
<1>6. ASSUME NEW s \in Sock, Flush(s) PROVE LostInv'
  <2>1. CASE OnWritableEmpty(s)
    BY <1>3, <2>1 DEF OnWritableEmpty, msgs, loop
  <2>2. ASSUME NEW n, OnWritable(s, n) PROVE LostInv'
    BY <1>4, <2>2, LostFlush DEF OnWritable
  <2>3. CASE OnWritableThrows(s)
    <3>1. \A t \in Sock : conn'[t] = conn[t] \/ (conn[t] # "closed" /\ conn'[t] # "closed")
      BY <2>3 DEF OnWritableThrows, Writable, WriteThrows, Destroyed, TypeOK, SockType
    <3>2. UNCHANGED <<queue, side, hand, sent, dispatched, rejects, off, pool, leaving, key>>
      BY <2>3 DEF OnWritableThrows, chan, loop
    <3> QED
      BY <1>2, <3>1, <3>2, SameSlots
  <2> QED
    BY <1>6, <2>1, <2>2, <2>3 DEF Flush
<1>7. CASE SideFlush
  <2>1. ToSet(queue') = ToSet(queue) \cup ToSet(side)
    BY <1>7, ConcatOnce DEF SideFlush, TypeOK, ChanType
  <2> QED
    BY <1>3, <1>7, <2>1 DEF SideFlush, socks, msgs, loop
<1>8. ASSUME NEW s \in Sock, Connect(s) \/ Destroy(s) \/ OnClose(s) PROVE LostInv'
  <2>1. UNCHANGED <<queue, side, hand, sent, dispatched, rejects, off, pool>>
    BY <1>8 DEF Connect, Destroy, OnClose, chan, msgs
  <2>2. \A t \in Sock, a \in Slots : InSlot(t, a) => InSlot(t, a)'
    <3>1. CASE Connect(s) \/ Destroy(s)
      BY <3>1 DEF Connect, Destroy, Destroyed, InSlot, loop, TypeOK, SockType
    <3>2. CASE OnClose(s)
      <4>1. /\ conn[s] = "closing" /\ leaving = Nil /\ leaving' = s /\ key' = MaxOut
            /\ \A t \in Sock : t # s => conn'[t] = conn[t]
        BY <3>2 DEF OnClose, Quiet, TypeOK, SockType
      <4> QED
        BY <4>1, BoundsAssumption, NilAssumption DEF InSlot, Slots
    <3> QED
      BY <1>8, <3>1, <3>2
  <2> QED
    BY <1>2, <2>1, <2>2
<1>9. CASE RequeueDone
  <2>1. key \in Nat /\ ~(key > 0)
        /\ UNCHANGED <<queue, side, hand, sent, dispatched, rejects, off, pool, conn>>
    BY <1>9 DEF RequeueDone, MoreKeys, TypeOK, LoopType, socks, msgs
  <2>2. \A s \in Sock, a \in Slots : InSlot(s, a) => InSlot(s, a)'
    BY <2>1 DEF InSlot, Slots
  <2> QED
    BY <1>2, <2>1, <2>2
<1>10. CASE JobStart
  BY <1>3, <1>10 DEF JobStart, socks, msgs, loop
<1> QED
  BY <1>4, <1>5, <1>6, <1>7, <1>8, <1>9, <1>10, LostSend, LostReply, LostRequeue, KindAssumption
    DEF Next, HeldInv

\* A request without an answer waits in one of the places, unless its write had
\* begun before a reject or with a connection that broke.
THEOREM NoRequestLostCorrect == Spec => []NoRequestLost
<1>1. Init => LostClear
  BY DEF Init, LostClear, LostInv, LostOf, Begun, Kept
<1>2. TypeOK /\ HeldClear /\ LostClear /\ [Next]_vars => LostClear'
  BY LostStep DEF LostClear
<1>3. TypeOK /\ LostClear => NoRequestLost
  <2> SUFFICES ASSUME LostInv, NEW r \in Req, Somewhere(r) PROVE Places(r) # {}
    BY DEF LostClear, LostInv, LostOf, Kept, Broken, NoRequestLost, TypeOK, MsgType
  <2>1. CASE r \in ToSet(queue)
    <3>1. PICK i \in DOMAIN queue : queue[i] = r
      BY <2>1 DEF ToSet
    <3>2. <<"queue", i>> \in Places(r)
      BY <3>1 DEF Places
    <3> QED
      BY <3>2
  <2>2. CASE r \in ToSet(side)
    <3>1. PICK i \in DOMAIN side : side[i] = r
      BY <2>2 DEF ToSet
    <3>2. <<"side", i>> \in Places(r)
      BY <3>1 DEF Places
    <3> QED
      BY <3>2
  <2>3. CASE r = hand
    <3>1. <<"hand">> \in Places(r)
      BY <2>3 DEF Places
    <3> QED
      BY <3>1
  <2>4. ASSUME NEW s \in Sock, NEW a \in Slots, Holds(s, a, r) PROVE Places(r) # {}
    <3>1. <<s, a>> \in Sock \X Slots /\ InSlot(<<s, a>>[1], <<s, a>>[2])
          /\ pool[<<s, a>>[1]][<<s, a>>[2]] = r
      BY <2>4 DEF Holds
    <3>2. <<"slot", <<s, a>>>> \in Places(r)
      BY <3>1 DEF Places
    <3> QED
      BY <3>2
  <2> QED
    BY <2>1, <2>2, <2>3, <2>4 DEF Somewhere, Slotted
<1> QED
  BY <1>1, <1>2, <1>3, HeldAlways, TypeCorrect, PTL DEF Spec

-----------------------------------------------------------------------------
(* The ready list and the drain listeners                                  *)

\* A connection that is not open yet has no slot taken and is on neither list;
\* an open one is on one of them, and ready only with a free slot.
Unlisted(s) == s \notin ToSet(ready) /\ s \notin listening /\ outgoing[s] = 0
Listed(s) ==
  \/ s \in ToSet(ready) /\ s \notin listening /\ HasHandlers(outgoing[s])
  \/ s \in listening /\ s \notin ToSet(ready)
ReadyOf(s) ==
  /\ conn[s] = "connecting" => Unlisted(s)
  /\ conn[s] = "open" => Listed(s)
ReadyInv == IsInjective(ready) /\ \A s \in Sock : ReadyOf(s)
ReadyClear == ~blurred => ReadyInv

LEMMA ReadyMove ==
  ASSUME ReadyInv, NEW s \in Sock, IsInjective(ready'), ReadyOf(s)',
         \A t \in Sock \ {s} :
           /\ t \in ToSet(ready') <=> t \in ToSet(ready)
           /\ t \in listening' <=> t \in listening
           /\ conn'[t] = conn[t] /\ outgoing'[t] = outgoing[t]
  PROVE  ReadyInv'
<1> SUFFICES ASSUME NEW t \in Sock, t # s PROVE ReadyOf(t)'
  BY DEF ReadyInv
<1> QED
  BY DEF ReadyInv, ReadyOf, Listed, Unlisted, HasHandlers

LEMMA ReadyStill ==
  ASSUME ReadyInv, UNCHANGED <<ready, listening, outgoing>>,
         \A s \in Sock : conn'[s] = conn[s] \/ conn'[s] \in {"closing", "closed"}
  PROVE  ReadyInv'
BY DEF ReadyInv, ReadyOf, Listed, Unlisted, HasHandlers, IsInjective, ToSet

\* A socket that drains is open and was on the listeners' side.
LEMMA ReadyDrain ==
  ASSUME TypeOK, ReadyInv, NEW s \in Sock, NEW e \in BOOLEAN, Drain(s, e),
         conn[s] = "open", UNCHANGED conn,
         e => HasHandlers(outgoing'[s]),
         HasHandlers(outgoing[s]) => HasHandlers(outgoing'[s]),
         \A t \in Sock \ {s} : outgoing'[t] = outgoing[t]
  PROVE  ReadyInv'
<1>1. ready \in Seq(Sock) /\ Listed(s) /\ IsInjective(ready)
  BY DEF ReadyInv, ReadyOf, TypeOK, ChanType
<1>2. CASE e /\ s \in listening
  <2>1. /\ s \notin ToSet(ready) /\ listening' = listening \ {s}
        /\ ready' = Append(ready, s)
    BY <1>1, <1>2 DEF Drain, Listed
  <2>2. ToSet(ready') = ToSet(ready) \cup {s} /\ IsInjective(ready')
    BY <1>1, <2>1, AppendOnce
  <2>3. ReadyOf(s)'
    BY <1>2, <2>1, <2>2 DEF ReadyOf, Listed
  <2> QED
    BY <2>1, <2>2, <2>3, ReadyMove
<1>3. CASE ~(e /\ s \in listening)
  <2>1. UNCHANGED <<listening, ready>>
    BY <1>3 DEF Drain
  <2>2. ReadyOf(s)'
    BY <1>1, <2>1 DEF ReadyOf, Listed, ToSet
  <2> QED
    BY <1>1, <2>1, <2>2, ReadyMove DEF ToSet, IsInjective
<1> QED
  BY <1>2, <1>3

\* The job's look at the first ready socket drops it, turns the list round, or
\* makes it listen.
LEMMA ReadyLook ==
  ASSUME TypeOK, ReadyInv, NEW s \in Sock, At(s),
         \/ JobSkip(s) \/ JobPassOver(s) \/ JobRefused(s) \/ JobWriteThrows(s)
  PROVE  ReadyInv'
<1>1. /\ ready \in Seq(Sock) /\ ready # <<>> /\ s = Head(ready) /\ Tail(ready) \in Seq(Sock)
      /\ IsInjective(ready) /\ ReadyOf(s)
  BY DEF TypeOK, ChanType, At, ReadyInv
<1>2. /\ ToSet(ready) = ToSet(Tail(ready)) \cup {s}
      /\ IsInjective(Tail(ready)) /\ s \notin ToSet(Tail(ready))
  BY <1>1, TailOnce
<1>3. s \in ToSet(ready)
  BY <1>2
<1>4. UNCHANGED outgoing /\ \A t \in Sock \ {s} : conn'[t] = conn[t]
  BY DEF JobSkip, JobPassOver, JobRefused, JobWriteThrows, WriteThrows, Destroyed, socks,
    TypeOK, SockType
<1>5. CASE JobSkip(s)
  <2>1. conn[s] # "open" /\ ready' = Tail(ready) /\ UNCHANGED <<listening, conn>>
    BY <1>1, <1>3, <1>5 DEF JobSkip, Dropped, ReadyOf, Listed, socks
  <2>2. ReadyOf(s)'
    BY <1>1, <1>3, <2>1 DEF ReadyOf, Unlisted
  <2> QED
    BY <1>2, <1>4, <2>1, <2>2, ReadyMove
<1>6. CASE JobPassOver(s)
  <2>1. conn[s] = "open" /\ ready' = Append(Tail(ready), s) /\ UNCHANGED <<listening, conn>>
    BY <1>6 DEF JobPassOver, socks
  <2>2. ToSet(ready') = ToSet(ready) /\ IsInjective(ready')
    BY <1>1, <1>2, <2>1, AppendOnce
  <2>3. ReadyOf(s)'
    BY <1>1, <1>4, <2>1, <2>2 DEF ReadyOf, Listed
  <2> QED
    BY <1>4, <2>1, <2>2, <2>3, ReadyMove
<1>7. CASE JobRefused(s) \/ JobWriteThrows(s)
  <2>1. ready' = Tail(ready) /\ listening' = listening \cup {s} /\ conn'[s] # "connecting"
    BY <1>7 DEF JobRefused, JobWriteThrows, Unflushed, Usable, WriteThrows, Destroyed, socks,
      TypeOK, SockType
  <2>2. ReadyOf(s)'
    BY <1>2, <2>1 DEF ReadyOf, Listed
  <2> QED
    BY <1>2, <1>4, <2>1, <2>2, ReadyMove
<1> QED
  BY <1>5, <1>6, <1>7

LEMMA ReadyPut ==
  ASSUME TypeOK, ReadyInv, NEW s \in Sock, NEW n, At(s), Usable(s), JobPut(s, n)
  PROVE  ReadyInv'
<1>1. /\ ready \in Seq(Sock) /\ ready # <<>> /\ s = Head(ready) /\ Tail(ready) \in Seq(Sock)
      /\ IsInjective(ready) /\ Listed(s) /\ conn[s] = "open" /\ UNCHANGED conn
  BY DEF TypeOK, ChanType, At, ReadyInv, ReadyOf, Usable, JobPut
<1>2. /\ ToSet(ready) = ToSet(Tail(ready)) \cup {s}
      /\ IsInjective(Tail(ready)) /\ s \notin ToSet(Tail(ready))
  BY <1>1, TailOnce
<1>3. s \notin listening
  BY <1>1, <1>2 DEF Listed
<1>4. \A t \in Sock \ {s} : outgoing'[t] = outgoing[t]
  <2>1. WriteMsg(s, hand, 0, n)
    BY DEF JobPut
  <2> QED
    BY <2>1, WriteEffect DEF TypeOK
<1>5. CASE ready' = Append(Tail(ready), s) /\ UNCHANGED listening /\ HasHandlers(outgoing'[s])
  <2>1. ToSet(ready') = ToSet(ready) /\ IsInjective(ready')
    BY <1>1, <1>2, <1>5, AppendOnce
  <2>2. ReadyOf(s)'
    BY <1>1, <1>2, <1>3, <1>5, <2>1 DEF ReadyOf, Listed
  <2> QED
    BY <1>1, <1>4, <1>5, <2>1, <2>2, ReadyMove
<1>6. CASE ready' = Tail(ready) /\ listening' = listening \cup {s}
  <2>1. ReadyOf(s)'
    BY <1>1, <1>2, <1>6 DEF ReadyOf, Listed
  <2> QED
    BY <1>1, <1>2, <1>4, <1>6, <2>1, ReadyMove
<1> QED
  BY <1>5, <1>6 DEF JobPut, Unflushed

LEMMA ReadyConnect ==
  ASSUME TypeOK, ReadyInv, NEW s \in Sock, Connect(s)
  PROVE  ReadyInv'
<1>1. /\ Unlisted(s) /\ ready \in Seq(Sock) /\ ready' = Append(ready, s)
      /\ conn'[s] = "open" /\ UNCHANGED <<listening, outgoing>>
      /\ \A t \in Sock \ {s} : conn'[t] = conn[t]
  BY DEF Connect, ReadyInv, ReadyOf, TypeOK, ChanType, SockType
<1>2. ToSet(ready') = ToSet(ready) \cup {s} /\ IsInjective(ready')
  BY <1>1, AppendOnce DEF ReadyInv, Unlisted
<1>3. ReadyOf(s)'
  BY <1>1, <1>2, BoundsAssumption DEF ReadyOf, Listed, Unlisted, HasHandlers
<1> QED
  BY <1>1, <1>2, <1>3, ReadyMove

LEMMA ReadyClose ==
  ASSUME TypeOK, ReadyInv, NEW s \in Sock, OnClose(s)
  PROVE  ReadyInv'
<1>1. /\ ready \in Seq(Sock) /\ IsInjective(ready) /\ conn'[s] = "closed"
      /\ UNCHANGED <<listening, outgoing>>
      /\ \A t \in Sock \ {s} : conn'[t] = conn[t]
  BY DEF OnClose, ReadyInv, TypeOK, ChanType, SockType
<1>2. IsInjective(ready') /\ \A t \in Sock \ {s} : t \in ToSet(ready') <=> t \in ToSet(ready)
  <2>1. ASSUME NEW i \in DOMAIN ready, ready[i] = s, ready' = RemoveAt(ready, i)
        PROVE  IsInjective(ready') /\ ToSet(ready') = ToSet(ready) \ {s}
    BY <1>1, <2>1, RemoveOnce
  <2>2. CASE UNCHANGED ready
    BY <1>1, <2>2 DEF IsInjective, ToSet
  <2> QED
    BY <2>1, <2>2 DEF OnClose
<1> QED
  BY <1>1, <1>2, ReadyMove DEF ReadyOf

LEMMA ReadyFlush ==
  ASSUME TypeOK, HeldInv, ReadyInv, NEW s \in Sock, NEW n,
         Writable(s), pending[s] # Nil, FlushPut(s, n)
  PROVE  ReadyInv'
<1>1. conn[s] = "open" /\ UNCHANGED <<conn, outgoing>>
      /\ Drain(s, pending'[s] = Nil /\ HasHandlers(outgoing'[s]))
  BY FlushEffect DEF FlushPut, Writable
<1> PICK e \in BOOLEAN : e = (pending'[s] = Nil /\ HasHandlers(outgoing'[s]))
  OBVIOUS
<1>2. Drain(s, e) /\ (e => HasHandlers(outgoing'[s]))
  BY <1>1
<1> QED
  BY <1>1, <1>2, ReadyDrain DEF HasHandlers

LEMMA ReadyReply ==
  ASSUME TypeOK, HeldInv, ReadyInv, NEW s \in Sock, NEW m \in inbox[s], NEW kind,
         OnReply(s, m, kind)
  PROVE  ReadyInv'
<1>1. /\ conn[s] = "open" /\ UNCHANGED conn /\ outgoing \in [Sock -> Int]
      /\ outgoing' = [outgoing EXCEPT ![s] = @ - 1] /\ Drain(s, ReplyDrains(s))
  <2>1. Waiting(s, m.ack) # Nil
    BY HeldReply, NilAssumption
  <2> QED
    BY <2>1 DEF OnReply, FreeAck, TypeOK, SockType
<1> PICK e \in BOOLEAN : e = ReplyDrains(s)
  BY DEF ReplyDrains
<1>2. Drain(s, e) /\ (e => outgoing[s] = MaxOut)
  BY <1>1 DEF ReplyDrains
<1>3. /\ outgoing'[s] = outgoing[s] - 1
      /\ \A t \in Sock \ {s} : outgoing'[t] = outgoing[t]
  BY <1>1
<1>4. /\ e => HasHandlers(outgoing'[s])
      /\ HasHandlers(outgoing[s]) => HasHandlers(outgoing'[s])
  BY <1>1, <1>2, <1>3, BoundsAssumption DEF HasHandlers
<1> QED
  BY <1>1, <1>2, <1>3, <1>4, ReadyDrain

LEMMA ReadyStep ==
  ASSUME TypeOK, HeldClear, ReadyClear, [Next]_vars, ~blurred'
  PROVE  ReadyInv'
<1>0. HeldInv /\ ReadyInv
  BY ClearBefore DEF HeldClear, ReadyClear
<1> USE <1>0
<1>1. CASE UNCHANGED <<ready, listening, outgoing, conn>>
  BY <1>1, ReadyStill
<1>2. CASE UNCHANGED vars \/ Crash
  BY <1>1, <1>2 DEF vars, Crash, chan, socks
<1>3. CASE JobStep
  <2>1. CASE JobTake \/ JobEnd \/ JobPutBack
    BY <1>1, <2>1 DEF JobTake, JobEnd, JobPutBack, socks
  <2>2. ASSUME NEW s \in Sock, NEW n, JobWrite(s, n) PROVE ReadyInv'
    BY <1>2, <2>2, ReadyPut DEF JobWrite
  <2> QED
    BY <1>3, <2>1, <2>2, ReadyLook DEF JobStep, JobSkip, JobPassOver, JobRefused, JobWriteThrows
<1>4. ASSUME NEW s \in Sock, Flush(s) PROVE ReadyInv'
  <2>1. CASE OnWritableEmpty(s)
    <3>1. conn[s] = "open" /\ UNCHANGED <<conn, outgoing>> /\ Drain(s, HasHandlers(outgoing[s]))
      BY <2>1 DEF OnWritableEmpty, Writable
    <3>2. PICK e \in BOOLEAN : e <=> HasHandlers(outgoing[s])
      OBVIOUS
    <3>3. Drain(s, e)
      BY <3>1, <3>2 DEF Drain
    <3> QED
      BY <3>1, <3>2, <3>3, ReadyDrain DEF HasHandlers
  <2>2. ASSUME NEW n, OnWritable(s, n) PROVE ReadyInv'
    BY <1>2, <2>2, ReadyFlush DEF OnWritable
  <2>3. CASE OnWritableThrows(s)
    BY <2>3, ReadyStill DEF OnWritableThrows, WriteThrows, Destroyed, chan, TypeOK, SockType
  <2> QED
    BY <1>4, <2>1, <2>2, <2>3 DEF Flush
<1>5. ASSUME NEW s \in Sock, Destroy(s) PROVE ReadyInv'
  BY <1>5, ReadyStill DEF Destroy, Destroyed, chan, TypeOK, SockType
<1>6. CASE (\E r \in Req : Send(r)) \/ JobStart \/ SideFlush \/ Requeue \/ RequeueDone
  BY <1>1, <1>6 DEF Send, JobStart, SideFlush, Requeue, RequeueDone, socks
<1> QED
  BY <1>2, <1>3, <1>4, <1>5, <1>6, ReadyConnect, ReadyClose, ReadyReply DEF Next

\* An open socket is ready once, with a free slot, or has the job's drain
\* listener, and never both: the job drops no usable socket.
THEOREM SocketNotForgottenCorrect == Spec => []SocketNotForgotten
<1>1. Init => ReadyClear
  <2> SUFFICES ASSUME Init PROVE ReadyInv
    BY DEF ReadyClear
  <2>1. ready = <<>> /\ listening = {} /\ outgoing = [s \in Sock |-> 0]
        /\ conn = [s \in Sock |-> "connecting"]
    BY DEF Init
  <2>2. IsInjective(ready) /\ ToSet(ready) = {}
    BY <2>1 DEF IsInjective, ToSet
  <2> QED
    BY <2>1, <2>2 DEF ReadyInv, ReadyOf, Unlisted
<1>2. TypeOK /\ HeldClear /\ ReadyClear /\ [Next]_vars => ReadyClear'
  BY ReadyStep DEF ReadyClear
<1>3. ReadyClear => SocketNotForgotten
  <2> SUFFICES ASSUME ReadyInv, NEW s \in Sock, Listed(s), s \in ToSet(ready)
               PROVE  InReadyOnce(s)
    BY DEF ReadyClear, ReadyInv, ReadyOf, Listed, SocketNotForgotten
  <2>1. PICK i \in DOMAIN ready : ready[i] = s
    BY DEF ToSet
  <2> QED
    BY <2>1 DEF InReadyOnce, ReadyInv, IsInjective
<1> QED
  BY <1>1, <1>2, <1>3, HeldAlways, TypeCorrect, PTL DEF Spec

-----------------------------------------------------------------------------
(* The refinement mapping                                                  *)

\* The connection that has a request is the only one, and what it has was sent
\* and has no answer.
LEMMA OneHolder ==
  ASSUME TypeOK, HeldInv, NEW r \in Req
  PROVE  /\ \A s, t \in Sock : HasIt(s, r) /\ HasIt(t, r) => s = t
         /\ Out(r) => Live(r)
<1>1. \A s \in Sock : HasIt(s, r) => \E a \in Slots : Holds(s, a, r)
  BY DEF HasIt, Holds, InSlot
<1>2. PlaceOf(r)
  BY DEF HeldInv, PlaceInv
<1>3. Out(r) => Slotted(r)
  BY <1>1 DEF Out, Slotted
<1> QED
  BY <1>1, <1>2, <1>3 DEF PlaceOf, SlotOnce, Unanswered

StateOf(r) ==
  IF r \notin sent THEN "unsent" ELSE IF Out(r) THEN "out"
  ELSE IF dispatched[r] > 0 THEN "settled" ELSE "waiting"

MappingOf(r) ==
  /\ AbsState[r] = StateOf(r)
  /\ ~Out(r) => AbsHolder[r] = Nil
  /\ \A s \in Sock : AbsHolder[r] = s <=> HasIt(s, r)
MappingInv == \A r \in Req : MappingOf(r)

LEMMA Mapping == TypeOK /\ HeldInv => MappingInv
<1> SUFFICES ASSUME TypeOK, HeldInv, NEW r \in Req PROVE MappingOf(r)
  BY DEF MappingInv
<1>1. AbsState[r] = StateOf(r)
  BY DEF AbsState, StateOf
<1>2. ~Out(r) => AbsHolder[r] = Nil
  BY DEF AbsHolder
<1>3. ASSUME NEW s \in Sock PROVE AbsHolder[r] = s <=> HasIt(s, r)
  <2>1. CASE Out(r)
    <3>1. AbsHolder[r] = CHOOSE t \in Sock : HasIt(t, r)
      BY <2>1 DEF AbsHolder
    <3>2. AbsHolder[r] \in Sock /\ HasIt(AbsHolder[r], r)
      BY <2>1, <3>1 DEF Out
    <3> QED
      BY <3>2, OneHolder
  <2>2. CASE ~Out(r)
    BY <1>2, <2>2, NilAssumption DEF Out
  <2> QED
    BY <2>1, <2>2
<1> QED
  BY <1>1, <1>2, <1>3 DEF MappingOf

LEMMA MapShape ==
  /\ AbsState = [r \in Req |-> AbsState[r]] /\ AbsHolder = [r \in Req |-> AbsHolder[r]]
  /\ AbsState' = [r \in Req |-> AbsState'[r]] /\ AbsHolder' = [r \in Req |-> AbsHolder'[r]]
BY DEF AbsState, AbsHolder

LEMMA FunctionChange ==
  ASSUME NEW S, NEW f, NEW g, f = [x \in S |-> f[x]], g = [x \in S |-> g[x]],
         NEW r \in S, \A x \in S \ {r} : g[x] = f[x]
  PROVE  g = [f EXCEPT ![r] = g[r]]
OBVIOUS

LEMMA RequestChange ==
  ASSUME NEW r \in Req, NEW v, NEW w, AbsState'[r] = v, AbsHolder'[r] = w,
         \A x \in Req \ {r} : AbsState'[x] = AbsState[x] /\ AbsHolder'[x] = AbsHolder[x]
  PROVE  AbsState' = [AbsState EXCEPT ![r] = v] /\ AbsHolder' = [AbsHolder EXCEPT ![r] = w]
BY MapShape, FunctionChange

\* A request that a step leaves where it was, as Requests sees it.
LEMMA SameRequest ==
  ASSUME MappingInv, MappingInv', NEW r \in Req,
         r \in sent' <=> r \in sent, dispatched'[r] = dispatched[r],
         \A s \in Sock : HasIt(s, r)' <=> HasIt(s, r)
  PROVE  AbsState'[r] = AbsState[r] /\ AbsHolder'[r] = AbsHolder[r]
<1>0. MappingOf(r) /\ MappingOf(r)'
  BY DEF MappingInv
<1>1. Out(r)' <=> Out(r)
  BY DEF Out
<1>2. AbsState'[r] = AbsState[r]
  BY <1>0, <1>1 DEF MappingOf, StateOf
<1>3. AbsHolder'[r] = AbsHolder[r]
  <2>1. CASE Out(r)
    BY <1>0, <2>1 DEF Out, MappingOf
  <2>2. CASE ~Out(r)
    BY <1>0, <1>1, <2>2 DEF MappingOf
  <2> QED
    BY <2>1, <2>2
<1> QED
  BY <1>2, <1>3

\* Requests does not notice a step that sends, answers and hands out nothing.
LEMMA Stutters ==
  ASSUME MappingInv, MappingInv', UNCHANGED <<sent, dispatched, rejects>>,
         \A s \in Sock, r \in Req : HasIt(s, r)' <=> HasIt(s, r)
  PROVE  UNCHANGED <<AbsState, AbsHolder, rejects>>
<1>1. \A r \in Req : AbsState'[r] = AbsState[r] /\ AbsHolder'[r] = AbsHolder[r]
  BY SameRequest
<1>2. AbsState' = AbsState
  BY <1>1 DEF AbsState
<1>3. AbsHolder' = AbsHolder
  BY <1>1 DEF AbsHolder
<1> QED
  BY <1>2, <1>3

-----------------------------------------------------------------------------
(* The steps Requests sees                                                 *)

LEMMA SendIssues ==
  ASSUME TypeOK, HeldInv, MappingInv, MappingInv', NEW r \in Req, Send(r)
  PROVE  Abstract!Issue(r)
<1>1. /\ r \notin sent /\ sent' = sent \cup {r} /\ UNCHANGED <<dispatched, rejects, pool, conn>>
  BY DEF Send, socks
<1>2. \A s \in Sock, x \in Req : HasIt(s, x)' <=> HasIt(s, x)
  BY <1>1 DEF HasIt
<1>3. ~Out(r) /\ ~Out(r)'
  <2>1. ~Out(r)
    BY <1>1, OneHolder DEF Live
  <2> QED
    BY <1>2, <2>1 DEF Out
<1>4. \A x \in Req : MappingOf(x) /\ MappingOf(x)'
  BY DEF MappingInv
<1>5. AbsState[r] = "unsent" /\ AbsState'[r] = "waiting" /\ AbsHolder'[r] = AbsHolder[r]
  <2>1. dispatched[r] = 0
    BY <1>1 DEF HeldInv, PlaceInv, PlaceOf, SentFirst
  <2> QED
    BY <1>1, <1>3, <1>4, <2>1 DEF MappingOf, StateOf
<1>6. \A x \in Req \ {r} : AbsState'[x] = AbsState[x] /\ AbsHolder'[x] = AbsHolder[x]
  BY <1>1, <1>2, SameRequest
<1>7. AbsState' = [AbsState EXCEPT ![r] = "waiting"]
  BY <1>5, <1>6 DEF AbsState
<1>8. AbsHolder' = AbsHolder
  BY <1>5, <1>6 DEF AbsHolder
<1> QED
  BY <1>1, <1>5, <1>7, <1>8 DEF Abstract!Issue

\* No connection has more requests than it has slots taken.
LEMMA FewHeld ==
  ASSUME TypeOK, HeldInv, MappingInv, AckAccounting, NEW s \in Sock
  PROVE  Cardinality(Abstract!Held(s)) \in Nat /\ Cardinality(Abstract!Held(s)) <= outgoing[s]
<1> DEFINE H == Abstract!Held(s)
           T == {a \in Taken(s) : pool[s][a] \in H}
           f == [a \in T |-> pool[s][a]]
<1>1. IsFiniteSet(Taken(s)) /\ T \subseteq Taken(s)
  BY TakenSlots, TakenFinite
<1>2. IsFiniteSet(T) /\ Cardinality(T) <= Cardinality(Taken(s))
  BY <1>1, FS_Subset
<1>3. \A r \in H : \E a \in T : f[a] = r
  <2> SUFFICES ASSUME NEW r \in H PROVE \E a \in T : f[a] = r
    OBVIOUS
  <2>1. r \in Req /\ AbsHolder[r] = s
    BY DEF Abstract!Held
  <2>2. HasIt(s, r)
    BY <2>1 DEF MappingInv, MappingOf
  <2>3. PICK a \in Slots : pool[s][a] = r
    BY <2>2 DEF HasIt
  <2>4. a \in T
    BY <2>1, <2>3, NilAssumption DEF Taken
  <2> QED
    BY <2>3, <2>4
<1>4. f \in Surjection(T, H)
  BY <1>3 DEF Surjection
<1>5. Cardinality(H) <= Cardinality(T)
  BY <1>2, <1>4, FS_Surjection
<1>6. IsFiniteSet(H)
  BY <1>2, <1>4, FS_Surjection
<1>7. Cardinality(H) \in Nat /\ Cardinality(T) \in Nat /\ Cardinality(Taken(s)) \in Nat
  BY <1>1, <1>2, <1>6, FS_CardinalityType
<1> HIDE DEF H, T
<1>8. Cardinality(H) \in Nat /\ Cardinality(H) <= outgoing[s]
  BY <1>2, <1>5, <1>7 DEF AckAccounting
<1> QED
  BY <1>8 DEF H

LEMMA PutGives ==
  ASSUME TypeOK, HeldInv, MappingInv, MappingInv', AckAccounting,
         NEW s \in Sock, NEW n, At(s), Usable(s), JobPut(s, n), ~blurred'
  PROVE  hand \in Req /\ Abstract!Give(hand, s)
<1>1. /\ conn[s] = "open" /\ hand \in Req /\ HasHandlers(outgoing[s])
      /\ UNCHANGED <<sent, dispatched, rejects, conn>>
  BY PutEffect DEF Usable, JobPut
<1> PICK r : r = hand
  OBVIOUS
<1>2. PICK a \in Slots : FreeSlot(s, a) /\ pool' = [pool EXCEPT ![s][a] = r]
  BY PutEffect
<1>3. \A t \in Sock, b \in Slots : pool'[t][b] = IF t = s /\ b = a THEN r ELSE pool[t][b]
  BY <1>2 DEF TypeOK, SockType
<1>4. ~Out(r) /\ Live(r)
  BY <1>1 DEF HeldInv, PlaceInv, PlaceOf, Apart, Unanswered, Out, HasIt, Slotted, Holds, InSlot
<1>5. HasIt(s, r)'
  BY <1>1, <1>3 DEF HasIt
<1>6. \A x \in Req \ {r} : AbsState'[x] = AbsState[x] /\ AbsHolder'[x] = AbsHolder[x]
  <2> SUFFICES ASSUME NEW x \in Req \ {r}
               PROVE  AbsState'[x] = AbsState[x] /\ AbsHolder'[x] = AbsHolder[x]
    OBVIOUS
  <2>1. \A t \in Sock : HasIt(t, x)' <=> HasIt(t, x)
    BY <1>1, <1>2, <1>3, NilAssumption DEF HasIt, FreeSlot
  <2> QED
    BY <1>1, <2>1, SameRequest
<1>7. AbsState[r] = "waiting" /\ AbsState'[r] = "out" /\ AbsHolder'[r] = s
  <2>1. MappingOf(r) /\ MappingOf(r)'
    BY <1>1 DEF MappingInv
  <2>2. Out(r)'
    BY <1>5 DEF Out
  <2> QED
    BY <1>1, <1>4, <1>5, <2>1, <2>2 DEF MappingOf, StateOf, Live
<1>8. AbsState' = [AbsState EXCEPT ![r] = "out"] /\ AbsHolder' = [AbsHolder EXCEPT ![r] = s]
  BY <1>1, <1>6, <1>7, RequestChange
<1>9. Cardinality(Abstract!Held(s)) < MaxOut
  <2>1. Cardinality(Abstract!Held(s)) <= outgoing[s] /\ outgoing[s] < MaxOut
    BY <1>1, FewHeld DEF HasHandlers
  <2>2. outgoing[s] \in Int /\ MaxOut \in Int
    BY BoundsAssumption DEF TypeOK, SockType
  <2>3. Cardinality(Abstract!Held(s)) \in Nat
    BY FewHeld
  <2> QED
    BY <2>1, <2>2, <2>3
<1>10. Abstract!Give(r, s)
  <2>1. Abstract!Cardinality(Abstract!Held(s)) = Cardinality(Abstract!Held(s))
    BY Zenon DEF Abstract!Cardinality, Cardinality
  <2> QED
    BY <1>1, <1>7, <1>8, <1>9, <2>1 DEF Abstract!Give
<1> QED
  BY <1>1, <1>10

LEMMA ReplyAnswers ==
  ASSUME TypeOK, HeldInv, MappingInv, MappingInv',
         NEW s \in Sock, NEW m \in inbox[s], NEW kind \in {"reply", "reject"},
         OnReply(s, m, kind)
  PROVE  \E r \in Req : Abstract!Answer(r) \/ Abstract!Refuse(r)
<1> PICK r : r = Waiting(s, m.ack)
  OBVIOUS
<1>1. r \in Req /\ m.ack \in Slots /\ pool[s][m.ack] = r /\ Holds(s, m.ack, r) /\ r # Nil
  BY HeldReply, NilAssumption DEF Holds, Waiting
<1> DEFINE last == kind = "reply" \/ LastReject(r)
<1>2. /\ UNCHANGED <<sent, conn>> /\ conn[s] = "open"
      /\ pool' = [pool EXCEPT ![s][m.ack] = Nil]
      /\ rejects' = [rejects EXCEPT ![r] = IF kind = "reject" THEN @ + 1 ELSE @]
      /\ dispatched' = [dispatched EXCEPT ![r] = IF last /\ @ < 2 THEN @ + 1 ELSE @]
  BY <1>1 DEF OnReply, FreeAck
<1>3. \A t \in Sock, a \in Slots : pool'[t][a] = IF t = s /\ a = m.ack THEN Nil ELSE pool[t][a]
  BY <1>2 DEF TypeOK, SockType
<1>4. /\ HasIt(s, r) /\ Out(r) /\ Live(r)
  BY <1>1, <1>2, OneHolder DEF HasIt, Out
<1>5. ~Out(r)'
  <2>1. SlotOnce(r)
    BY <1>1 DEF HeldInv, PlaceInv, PlaceOf
  <2>2. ASSUME NEW t \in Sock, NEW a \in Slots, conn[t] # "closed", pool'[t][a] = r PROVE FALSE
    BY <1>1, <1>3, <2>1, <2>2 DEF SlotOnce, Holds, InSlot
  <2> QED
    BY <1>2, <2>2 DEF Out, HasIt, Slots
<1>6. \A x \in Req \ {r} : AbsState'[x] = AbsState[x] /\ AbsHolder'[x] = AbsHolder[x]
  <2> SUFFICES ASSUME NEW x \in Req \ {r}
               PROVE  AbsState'[x] = AbsState[x] /\ AbsHolder'[x] = AbsHolder[x]
    OBVIOUS
  <2>1. \A t \in Sock : HasIt(t, x)' <=> HasIt(t, x)
    BY <1>1, <1>2, <1>3, NilAssumption DEF HasIt
  <2>2. dispatched'[x] = dispatched[x]
    BY <1>1, <1>2 DEF TypeOK, MsgType
  <2> QED
    BY <1>2, <2>1, <2>2, SameRequest
<1>7. MappingOf(r) /\ MappingOf(r)'
  BY <1>1 DEF MappingInv
<1>8. /\ dispatched[r] = 0 /\ dispatched'[r] = IF last THEN 1 ELSE 0
      /\ r \in sent /\ r \in sent'
  BY <1>1, <1>2, <1>4 DEF Live, TypeOK, MsgType
<1>9. /\ AbsState[r] = "out" /\ AbsHolder'[r] = Nil
      /\ AbsState'[r] = IF last THEN "settled" ELSE "waiting"
  BY <1>4, <1>5, <1>7, <1>8 DEF MappingOf, StateOf
<1>10. /\ AbsState' = [AbsState EXCEPT ![r] = IF last THEN "settled" ELSE "waiting"]
       /\ AbsHolder' = [AbsHolder EXCEPT ![r] = Nil]
  BY <1>1, <1>6, <1>9, RequestChange
<1>11. CASE kind = "reply"
  <2>1. rejects' = rejects
    BY <1>1, <1>2, <1>11 DEF TypeOK, MsgType
  <2>2. Abstract!Answer(r)
    BY <1>1, <1>9, <1>10, <1>11, <2>1 DEF Abstract!Answer
  <2> QED
    BY <1>1, <2>2
<1>12. CASE kind = "reject"
  <2>1. rejects' = [rejects EXCEPT ![r] = @ + 1] /\ rejects'[r] = rejects[r] + 1
    BY <1>1, <1>2, <1>12 DEF TypeOK, MsgType
  <2>2. last <=> rejects'[r] = MaxRejects
    BY <1>12, <2>1 DEF LastReject
  <2> HIDE DEF last
  <2>3. Abstract!Refuse(r)
    BY <1>1, <1>9, <1>10, <2>1, <2>2 DEF Abstract!Refuse
  <2> QED
    BY <1>1, <2>3
<1> QED
  BY <1>11, <1>12

LEMMA CloseLeaves ==
  ASSUME TypeOK, HeldInv, MappingInv, MappingInv', NEW s \in Sock, OnClose(s)
  PROVE  Abstract!Leave(s)
<1>1. /\ UNCHANGED <<pool, sent, dispatched, rejects>>
      /\ conn[s] # "closed" /\ conn'[s] = "closed"
      /\ \A t \in Sock \ {s} : conn'[t] = conn[t]
  BY DEF OnClose, msgs, TypeOK, SockType
<1>2. ASSUME NEW r \in Req
      PROVE  /\ AbsState'[r] = IF AbsHolder[r] = s THEN "waiting" ELSE AbsState[r]
             /\ AbsHolder'[r] = IF AbsHolder[r] = s THEN Nil ELSE AbsHolder[r]
  <2>1. MappingOf(r) /\ MappingOf(r)'
    BY DEF MappingInv
  <2>2. CASE HasIt(s, r)
    <3>1. Live(r) /\ \A t \in Sock \ {s} : ~HasIt(t, r)
      BY <2>2, OneHolder DEF Out
    <3>2. ~Out(r)'
      BY <1>1, <3>1 DEF Out, HasIt
    <3> QED
      BY <1>1, <2>1, <2>2, <3>1, <3>2 DEF MappingOf, StateOf, Live
  <2>3. CASE ~HasIt(s, r)
    <3>1. \A t \in Sock : HasIt(t, r)' <=> HasIt(t, r)
      BY <1>1, <2>3 DEF HasIt
    <3>2. AbsState'[r] = AbsState[r] /\ AbsHolder'[r] = AbsHolder[r]
      BY <1>1, <3>1, SameRequest
    <3> QED
      BY <2>1, <2>3, <3>2 DEF MappingOf
  <2> QED
    BY <2>2, <2>3
<1>3. AbsState' = [r \in Req |-> IF AbsHolder[r] = s THEN "waiting" ELSE AbsState[r]]
  BY <1>2 DEF AbsState
<1>4. AbsHolder' = [r \in Req |-> IF AbsHolder[r] = s THEN Nil ELSE AbsHolder[r]]
  BY <1>2 DEF AbsHolder
<1> QED
  BY <1>1, <1>3, <1>4 DEF Abstract!Leave

-----------------------------------------------------------------------------
(* Every step                                                              *)

LEMMA AbstractInit == Init => Abstract!Init
<1> SUFFICES ASSUME Init PROVE Abstract!Init
  OBVIOUS
<1>1. /\ sent = {} /\ rejects = [r \in Req |-> 0]
      /\ pool = [s \in Sock |-> [a \in Slots |-> Nil]]
  BY DEF Init
<1>2. \A r \in Req : ~Out(r)
  BY <1>1, NilAssumption DEF Out, HasIt
<1> QED
  BY <1>1, <1>2 DEF Abstract!Init, AbsState, AbsHolder

LEMMA AbstractStep ==
  ASSUME TypeOK, AckAccounting, HeldInv, MappingInv, MappingInv', [Next]_vars, ~blurred'
  PROVE  Abstract!Next \/ UNCHANGED <<AbsState, AbsHolder, rejects>>
<1>1. ASSUME UNCHANGED <<sent, dispatched, rejects, pool>>,
             \A s \in Sock : conn'[s] = "closed" <=> conn[s] = "closed"
      PROVE  UNCHANGED <<AbsState, AbsHolder, rejects>>
  BY <1>1, Stutters DEF HasIt
<1>2. CASE UNCHANGED vars \/ Crash
  BY <1>1, <1>2 DEF vars, Crash, msgs, socks
<1>3. CASE JobStep
  <2>1. CASE JobTake \/ JobEnd \/ JobPutBack \/ \E s \in Sock : JobSkip(s) \/ JobPassOver(s)
    BY <1>1, <2>1 DEF JobTake, JobEnd, JobPutBack, JobSkip, JobPassOver, msgs, socks
  <2>2. ASSUME NEW s \in Sock, JobRefused(s) \/ JobWriteThrows(s)
        PROVE  UNCHANGED <<AbsState, AbsHolder, rejects>>
    BY <1>1, <2>2 DEF JobRefused, JobWriteThrows, Usable, WriteThrows, Destroyed, socks, TypeOK,
      SockType
  <2>3. ASSUME NEW s \in Sock, NEW n, JobWrite(s, n)
        PROVE  Abstract!Next \/ UNCHANGED <<AbsState, AbsHolder, rejects>>
    <3>1. CASE Crash
      BY <1>2, <3>1
    <3>2. CASE ~Crash
      <4>1. hand \in Req /\ Abstract!Give(hand, s)
        BY <2>3, <3>2, PutGives DEF JobWrite
      <4> QED
        BY <4>1 DEF Abstract!Next
    <3> QED
      BY <3>1, <3>2
  <2> QED
    BY <1>3, <2>1, <2>2, <2>3 DEF JobStep
<1>4. ASSUME NEW s \in Sock, Flush(s) PROVE UNCHANGED <<AbsState, AbsHolder, rejects>>
  <2>1. CASE OnWritableEmpty(s) \/ OnWritableThrows(s)
    BY <1>1, <2>1 DEF OnWritableEmpty, OnWritableThrows, Writable, WriteThrows, Destroyed, msgs,
      TypeOK, SockType
  <2>2. ASSUME NEW n, OnWritable(s, n) PROVE UNCHANGED <<AbsState, AbsHolder, rejects>>
    <3>1. CASE Crash
      BY <1>1, <3>1 DEF Crash, msgs, socks
    <3>2. CASE ~Crash
      BY <1>1, <2>2, <3>2, FlushEffect DEF OnWritable, FlushPut
    <3> QED
      BY <3>1, <3>2
  <2> QED
    BY <1>4, <2>1, <2>2 DEF Flush
<1>5. ASSUME NEW r \in Req, Send(r) PROVE Abstract!Next
  BY <1>5, SendIssues DEF Abstract!Next
<1>6. ASSUME NEW s \in Sock, NEW m \in inbox[s], NEW kind \in Kinds, OnReply(s, m, kind)
      PROVE  Abstract!Next
  <2>1. kind \in {"reply", "reject"}
    BY KindAssumption
  <2>2. \E r \in Req : Abstract!Answer(r) \/ Abstract!Refuse(r)
    BY <1>6, <2>1, ReplyAnswers
  <2> QED
    BY <2>2 DEF Abstract!Next
<1>7. ASSUME NEW s \in Sock, OnClose(s) PROVE Abstract!Next
  BY <1>7, CloseLeaves DEF Abstract!Next
<1>8. ASSUME NEW s \in Sock, Connect(s) \/ Destroy(s)
      PROVE  UNCHANGED <<AbsState, AbsHolder, rejects>>
  BY <1>1, <1>8 DEF Connect, Destroy, Destroyed, msgs, TypeOK, SockType
<1>9. CASE JobStart \/ SideFlush \/ Requeue \/ RequeueDone
  BY <1>1, <1>9 DEF JobStart, SideFlush, Requeue, RequeueDone, msgs, socks
<1> QED
  BY <1>2, <1>3, <1>4, <1>5, <1>6, <1>7, <1>8, <1>9 DEF Next

\* The channel keeps the promises of Requests: a request is with at most one
\* endpoint, no endpoint has more than maxOutgoingRequests, and the sender's
\* handler gets one final answer, from the endpoint that had the request.
THEOREM RequestsImplemented == Spec => ImplementsRequests
<1> DEFINE MappingClear == ~blurred => MappingInv
<1>1. TypeOK /\ HeldClear => MappingClear
  BY Mapping DEF HeldClear
<1>2. TypeOK /\ AckAccounting /\ HeldClear /\ MappingClear /\ MappingClear' /\ [Next]_vars
        => [~blurred' => Abstract!Next]_(Abstract!vars)
  <2> SUFFICES ASSUME TypeOK, AckAccounting, HeldClear, MappingClear, MappingClear', [Next]_vars,
                      ~blurred'
               PROVE  Abstract!Next \/ UNCHANGED Abstract!vars
    OBVIOUS
  <2>1. HeldInv /\ MappingInv /\ MappingInv'
    BY ClearBefore DEF HeldClear
  <2>2. Abstract!Next \/ UNCHANGED <<AbsState, AbsHolder, rejects>>
    BY <2>1, AbstractStep
  <2> QED
    BY <2>2 DEF Abstract!vars
<1> HIDE DEF MappingClear
<1> QED
  BY <1>1, <1>2, AbstractInit, TypeCorrect, AckCorrect, HeldAlways, PTL
    DEF Spec, ImplementsRequests
=============================================================================
