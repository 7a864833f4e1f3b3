----------------------------- MODULE Stream_proof -----------------------------
(***************************************************************************)
(* Proofs about Stream, for any messages, sizes, base and capacity.        *)
(***************************************************************************)
EXTENDS Stream, SequenceLemmas

\* The parts that a reader can be reading.
PartId == UNION {{<<m, p>> : p \in 1 .. Parts(m)} : m \in Msg}

\* What TypeOK says, with the part that is read one of a message's own.
SendType ==
  /\ sendq \in [End -> Seq(Msg)] /\ sent \in [End -> Seq(Msg)]
  /\ off \in [Msg -> Nat] /\ \A m \in Msg : off[m] < BufferSize(m)

WireType ==
  /\ wire \in [End -> Seq(Byte)]
  /\ Native => \A e \in End : Len(wire[e]) <= Cap

ReadType ==
  /\ buf \in [End -> Seq(Byte)]
  /\ cur \in [End -> PartId \cup {NoPart}]
  /\ \A e \in End :
       Len(buf[e]) < IF cur[e] = NoPart THEN LengthSize ELSE PartSize(cur[e][1], cur[e][2])
  /\ cache \in [End -> Seq(Msg \X Nat)]
  /\ pendingfd \in [End -> Msg \cup {Nil}]
  /\ delivered \in [End -> Seq([msg : Msg, fd : Msg \cup {Nil}])]

LifeType ==
  /\ type \in Types
  /\ life \in [End -> {"none", "connecting", "open", "destroyed"}]
  /\ shake \in {"new", "pending", "accepted", "notified", "done"}

FlagType ==
  /\ wwatch \in [End -> BOOLEAN] /\ rwatch \in [End -> BOOLEAN] /\ soon \in [End -> BOOLEAN]
  /\ eof \in [End -> BOOLEAN] /\ due \in [End -> BOOLEAN] /\ doubled \in [End -> BOOLEAN]
  /\ torn \in [End -> BOOLEAN] /\ missed \in [End -> BOOLEAN] /\ down \in BOOLEAN

TypeInv == SendType /\ WireType /\ ReadType /\ LifeType /\ FlagType

-----------------------------------------------------------------------------
(* Messages and their parts                                                *)

\* A part's size fits the two length bytes, which say what it is, and leaves
\* room for the header; the parts of a message are at least one.
LEMMA PartBounds ==
  ASSUME NEW m \in Msg
  PROVE  /\ Parts(m) \in Nat \ {0}
         /\ \A p \in 1 .. Parts(m) :
              /\ PartSize(m, p) \in HeaderSize .. Base * Base - 1
              /\ LengthField(PartSize(m, p)) = PartSize(m, p)
<1>1. /\ PayloadMax \in Nat \ {0} /\ PayloadMax + HeaderSize = Base * Base - 1
      /\ Size[m] \in Nat /\ Base \in Nat \ {0} /\ Base * Base \in Nat
  <2>1. Base \in Nat /\ Base * Base > 5 /\ Size[m] \in Nat
    BY FramingAssumption DEF HeaderSize
  <2>2. Base # 0
    BY <2>1
  <2>3. Base * Base \in Nat
    BY <2>1
  <2>4. PayloadMax = Base * Base - 5
    BY <2>3 DEF PayloadMax, HeaderSize
  <2> QED
    BY <2>1, <2>2, <2>3, <2>4 DEF HeaderSize
<1>2. Parts(m) \in Nat \ {0} /\ \A p \in 1 .. Parts(m) : PartPayload(m, p) \in 0 .. PayloadMax
  <2>1. CASE Size[m] <= PayloadMax
    <3>1. Parts(m) = 1
      BY <2>1, <1>1 DEF Parts
    <3>2. (Parts(m) - 1) * PayloadMax = 0
      BY <3>1, <1>1
    <3> QED
      BY <2>1, <3>1, <3>2, <1>1 DEF PartPayload
  <2>2. CASE Size[m] > PayloadMax
    <3>1. PICK n \in Nat : n = Size[m] + PayloadMax - 1
      BY <1>1
    <3>2. PICK d \in Nat \ {0} : d = PayloadMax
      BY <1>1
    <3>3. Parts(m) = n \div d
      BY <3>1, <3>2, <2>2 DEF Parts
    <3>4. PICK q \in Nat, r \in 0 .. d - 1 : q = n \div d /\ r = n % d /\ n = q * d + r
      BY Division
    <3>5. q # 0
      <4>1. n >= d
        BY <3>1, <3>2, <2>2, <1>1
      <4>2. q = 0 => q * d = 0
        OBVIOUS
      <4> QED
        BY <4>1, <4>2, <3>4
    <3>6. PICK k \in Nat : k = q * d
      OBVIOUS
    <3>7. (q - 1) * d = k - d
      BY <3>6
    <3>8. Size[m] - (q - 1) * d = r + 1
      <4>1. Size[m] \in Nat /\ Size[m] + d - 1 = k + r
        BY <3>1, <3>2, <3>4, <3>6, <1>1
      <4>2. Size[m] - (k - d) = r + 1
        BY <4>1
      <4> QED
        BY <4>2, <3>7
    <3>9. Parts(m) = q
      BY <3>3, <3>4
    <3>10. \A p \in 1 .. q : PartPayload(m, p) = IF p < q THEN d ELSE r + 1
      BY <3>2, <3>8, <3>9 DEF PartPayload
    <3> QED
      BY <3>2, <3>4, <3>5, <3>9, <3>10
  <2> QED
    BY <2>1, <2>2, <1>1
<1>3. ASSUME NEW p \in 1 .. Parts(m)
      PROVE  /\ PartSize(m, p) \in HeaderSize .. Base * Base - 1
             /\ LengthField(PartSize(m, p)) = PartSize(m, p)
  <2>1. PartPayload(m, p) \in 0 .. PayloadMax
    BY <1>2
  <2>2. PartSize(m, p) \in HeaderSize .. Base * Base - 1
    BY <2>1, <1>1 DEF PartSize, HeaderSize
  <2>3. PICK n \in Nat, d \in Nat \ {0} : n = PartSize(m, p) /\ d = Base /\ n < d * d
    BY <2>2, <1>1 DEF HeaderSize
  <2>4. PICK q \in Nat, r \in 0 .. d - 1 : q = n \div d /\ r = n % d /\ n = q * d + r
    BY Division
  <2>5. q % d = q
    <3>1. q < d
      BY <2>3, <2>4, SmallQuotient
    <3> QED
      BY <3>1, SmallRemainder
  <2>6. LengthField(n) = (q % d) * d + r
    BY <2>3, <2>4 DEF LengthField
  <2>7. LengthField(n) = q * d + r
    BY <2>5, <2>6
  <2> QED
    BY <2>2, <2>3, <2>4, <2>7
<1> QED
  BY <1>2, <1>3

\* What is left of a message is never nothing.
LEMMA RestBytes ==
  ASSUME SendType, NEW m \in Msg
  PROVE  Rest(m) \in Seq(Byte) /\ Len(Rest(m)) = BufferSize(m) - off[m] /\ Len(Rest(m)) > 0
<1>1. PICK b \in Nat : b = BufferSize(m)
  BY PartBounds, FramingAssumption DEF BufferSize, HeaderSize
<1>2. off[m] \in 0 .. b - 1
  BY <1>1 DEF SendType
<1>3. Buffer(m) \in Seq(Byte) /\ Len(Buffer(m)) = b
  <2>1. \A k \in 1 .. b : <<m, k - 1>> \in Byte
    <3>1. \A k \in 1 .. b : k - 1 \in 0 .. BufferSize(m) - 1
      BY <1>1
    <3> QED
      BY <3>1 DEF Byte
  <2>2. Buffer(m) = [k \in 1 .. b |-> <<m, k - 1>>]
    BY <1>1 DEF Buffer
  <2> QED
    BY <2>1, <2>2
<1>4. Rest(m) = SubSeq(Buffer(m), off[m] + 1, b)
  BY <1>1 DEF Rest
<1> QED
  BY <1>1, <1>2, <1>3, <1>4

LEMMA BytesType ==
  ASSUME SendType, NEW q \in Seq(Msg), NEW j \in 0 .. Len(q), NEW n \in Nat,
         j < Len(q) => n <= Len(Rest(q[j + 1]))
  PROVE  /\ Bytes(q, j, n) \in Seq(Byte)
         /\ j > 0 => Bytes(q, j, n) # <<>>
         /\ j = 0 /\ n = 0 => Bytes(q, j, n) = <<>>
<1>1. Len(q) \in Nat /\ \A i \in 1 .. Len(q) : q[i] \in Msg
  OBVIOUS
<1>2. PICK s : s = [i \in 1 .. j |-> Rest(q[i])]
  OBVIOUS
<1>3. \A i \in 1 .. j : Rest(q[i]) \in Seq(Byte) /\ Rest(q[i]) # <<>>
  <2>1. \A m \in Msg : Rest(m) \in Seq(Byte) /\ Len(Rest(m)) > 0
    BY RestBytes
  <2>2. \A m \in Msg : Rest(m) # <<>>
    BY <2>1
  <2> QED
    BY <1>1, <2>1, <2>2
<1>4. s \in Seq(Seq(Byte)) /\ Len(s) = j
  BY <1>2, <1>3
<1>5. ASSUME j > 0 PROVE s # <<>> /\ s[1] # <<>>
  <2>1. 1 \in 1 .. j
    BY <1>5
  <2>2. s[1] = Rest(q[1])
    BY <1>2, <2>1
  <2> QED
    BY <1>3, <1>4, <1>5, <2>1, <2>2
<1>6. j = 0 => s = <<>>
  BY <1>4
<1>7. /\ FlattenSeq(s) \in Seq(Byte)
      /\ j > 0 => FlattenSeq(s) # <<>>
      /\ j = 0 => FlattenSeq(s) = <<>>
  BY <1>4, <1>5, <1>6, FlattenType
<1>8. PICK t : t = IF j < Len(q) THEN SubSeq(Rest(q[j + 1]), 1, n) ELSE <<>>
  OBVIOUS
<1>9. t \in Seq(Byte) /\ (n = 0 => t = <<>>)
  <2>1. CASE j < Len(q)
    <3>1. Rest(q[j + 1]) \in Seq(Byte)
      BY <2>1, <1>1, RestBytes
    <3> QED
      BY <2>1, <3>1, <1>8
  <2>2. CASE ~(j < Len(q))
    BY <2>2, <1>8
  <2> QED
    BY <2>1, <2>2
<1>10. Bytes(q, j, n) = FlattenSeq(s) \o t
  BY <1>2, <1>8 DEF Bytes
<1> QED
  BY <1>7, <1>9, <1>10

-----------------------------------------------------------------------------
(* Writing                                                                 *)

LEMMA PeerOther == \A e \in End : Peer(e) \in End /\ Peer(e) # e /\ Peer(Peer(e)) = e
BY DEF End, Peer

\* What a write leaves on its way to the other end; over mem something is there
\* if anything was written to an end that is still there, heard of or not.
LEMMA TransmitWire ==
  ASSUME SendType, WireType, NEW e \in End, NEW q \in Seq(Msg), NEW j, NEW n,
         Transmit(e, q, j, n)
  PROVE  /\ j \in 0 .. Len(q)
         /\ WireType' \/ type' # type
         /\ wire'[e] = wire[e]
         /\ wire[Peer(e)] # <<>> => wire'[Peer(e)] # <<>>
         /\ Kept(e, q) => wire'[Peer(e)] # <<>>
         /\ ~Native /\ Listened(e) =>
              j = Len(q) /\ (q # <<>> /\ ~eof[e] => wire'[Peer(e)] # <<>>)
         /\ ~Native /\ (q = <<>> \/ ~Linked(e)) => wire' = wire
<1>1. /\ Len(q) \in Nat /\ \A i \in 1 .. Len(q) : q[i] \in Msg
      /\ Peer(e) \in End /\ Peer(e) # e
      /\ wire \in [End -> Seq(Byte)]
  BY PeerOther DEF WireType
<1>2. /\ j \in 0 .. Len(q)
      /\ n \in IF j = Len(q) THEN {0} ELSE 0 .. Len(Rest(q[j + 1])) - 1
      /\ Native => Len(Bytes(q, j, n)) <= Room(e)
      /\ ~Native => j = (IF Listened(e) THEN Len(q) ELSE 0) /\ n = 0
  BY DEF Transmit, Reaches
<1>3. n \in Nat /\ (j < Len(q) => n <= Len(Rest(q[j + 1])))
  <2>1. CASE j = Len(q)
    BY <2>1, <1>1, <1>2
  <2>2. CASE j # Len(q)
    <3>1. Rest(q[j + 1]) \in Seq(Byte)
      BY <2>2, <1>1, <1>2, RestBytes
    <3> QED
      BY <2>2, <3>1, <1>1, <1>2
  <2> QED
    BY <2>1, <2>2
<1>4. /\ Bytes(q, j, n) \in Seq(Byte)
      /\ j > 0 => Bytes(q, j, n) # <<>>
      /\ j = 0 /\ n = 0 => Bytes(q, j, n) = <<>>
  BY <1>2, <1>3, BytesType
<1>5. q # <<>> => Rest(Head(q)) \in Seq(Byte) /\ Rest(Head(q)) # <<>>
  <2>1. \A m \in Msg : Rest(m) \in Seq(Byte) /\ Len(Rest(m)) > 0
    BY RestBytes
  <2> QED
    BY <2>1
<1>6. PICK w : w = IF Kept(e, q) THEN wire[Peer(e)] \o Rest(Head(q))
                   ELSE IF eof[e] THEN wire[Peer(e)] ELSE wire[Peer(e)] \o Bytes(q, j, n)
  OBVIOUS
<1>7. wire' = [wire EXCEPT ![Peer(e)] = w]
  BY <1>6 DEF Transmit
<1>8. Kept(e, q) => q # <<>> /\ ~Native /\ Linked(e) /\ ~Listened(e)
  BY DEF Kept
<1>9. wire[Peer(e)] \in Seq(Byte)
  BY <1>1
<1>10. w \in Seq(Byte) /\ (wire[Peer(e)] # <<>> => w # <<>>)
  <2>1. CASE Kept(e, q)
    BY <2>1, <1>5, <1>6, <1>8, <1>9
  <2>2. CASE ~Kept(e, q) /\ eof[e]
    BY <2>2, <1>6, <1>9
  <2>3. CASE ~Kept(e, q) /\ ~eof[e]
    BY <2>3, <1>4, <1>6, <1>9
  <2> QED
    BY <2>1, <2>2, <2>3
<1>11. wire' \in [End -> Seq(Byte)] /\ wire'[e] = wire[e] /\ wire'[Peer(e)] = w
  BY <1>1, <1>7, <1>10
<1>12. Kept(e, q) => w # <<>>
  BY <1>5, <1>6, <1>8, <1>9
<1>13. ~Native /\ Listened(e) /\ q # <<>> /\ ~eof[e] => w # <<>>
  <2>1. ~Native /\ Listened(e) /\ q # <<>> /\ ~eof[e] =>
          j > 0 /\ w = wire[Peer(e)] \o Bytes(q, j, n)
    BY <1>1, <1>2, <1>6, <1>8
  <2> QED
    BY <2>1, <1>4, <1>9
<1>14. ~Native /\ (q = <<>> \/ ~Linked(e)) => wire' = wire
  <2>1. ~Native /\ (q = <<>> \/ ~Linked(e)) => ~Kept(e, q) /\ j = 0 /\ n = 0
    BY <1>1, <1>2, <1>8 DEF Listened
  <2>2. wire[Peer(e)] \o <<>> = wire[Peer(e)]
    BY <1>9
  <2>3. ~Native /\ (q = <<>> \/ ~Linked(e)) => w = wire[Peer(e)]
    BY <2>1, <2>2, <1>4, <1>6
  <2> QED
    BY <2>3, <1>1, <1>7
<1>15. Native => Len(w) <= Cap
  <2>1. ASSUME Native PROVE Len(w) <= Cap
    <3>1. Cap \in Nat /\ Len(wire[Peer(e)]) \in Nat /\ Len(wire[Peer(e)]) <= Cap
      BY <2>1, <1>1, <1>9, StreamAssumption DEF WireType
    <3>2. ~Kept(e, q)
      BY <2>1, <1>8
    <3>3. CASE eof[e]
      BY <3>1, <3>2, <3>3, <1>6
    <3>4. CASE ~eof[e]
      <4>1. Len(w) = Len(wire[Peer(e)]) + Len(Bytes(q, j, n)) /\ Len(Bytes(q, j, n)) \in Nat
        BY <3>2, <3>4, <1>4, <1>6, <1>9
      <4>2. Len(Bytes(q, j, n)) <= Cap - Len(wire[Peer(e)])
        BY <2>1, <1>2 DEF Room
      <4> QED
        BY <3>1, <4>1, <4>2
    <3> QED
      BY <3>3, <3>4
  <2> QED
    BY <2>1
<1>16. Native => \A f \in End : Len(wire'[f]) <= Cap
  <2>1. \A f \in End : f = e \/ f = Peer(e)
    BY DEF End, Peer
  <2> QED
    BY <2>1, <1>1, <1>11, <1>15 DEF WireType
<1>17. type' = type => WireType'
  BY <1>11, <1>16 DEF WireType, Native
<1> QED
  BY <1>2, <1>10, <1>11, <1>12, <1>13, <1>14, <1>17

LEMMA TransmitOff ==
  ASSUME SendType, NEW e \in End, NEW q \in Seq(Msg), NEW j, NEW n, Transmit(e, q, j, n)
  PROVE  off' \in [Msg -> Nat] /\ \A m \in Msg : off'[m] < BufferSize(m)
<1>1. off \in [Msg -> Nat] /\ \A m \in Msg : off[m] < BufferSize(m)
  BY DEF SendType
<1>2. /\ j \in 0 .. Len(q)
      /\ n \in IF j = Len(q) THEN {0} ELSE 0 .. Len(Rest(q[j + 1])) - 1
      /\ off' = IF j < Len(q) THEN [off EXCEPT ![q[j + 1]] = off[q[j + 1]] + n] ELSE off
  BY DEF Transmit, Reaches
<1>3. CASE j < Len(q)
  <2>1. PICK m \in Msg : m = q[j + 1]
    BY <1>2, <1>3
  <2>2. PICK b : b = BufferSize(m)
    OBVIOUS
  <2>3. Rest(m) \in Seq(Byte) /\ Len(Rest(m)) = b - off[m]
    BY <2>2, RestBytes
  <2>4. n \in 0 .. Len(Rest(m)) - 1
    BY <1>2, <1>3, <2>1
  <2>5. b \in Nat
    BY <2>2, PartBounds, FramingAssumption DEF BufferSize, HeaderSize
  <2>6. off[m] + n \in Nat /\ off[m] + n < b
    BY <1>1, <2>3, <2>4, <2>5
  <2>7. off' = [off EXCEPT ![m] = off[m] + n]
    BY <1>2, <1>3, <2>1
  <2> QED
    BY <1>1, <2>2, <2>6, <2>7
<1>4. CASE ~(j < Len(q))
  BY <1>1, <1>2, <1>4
<1> QED
  BY <1>3, <1>4

LEMMA FlushSend ==
  ASSUME SendType, WireType, NEW e \in End, NEW j, NEW n, Flush(e, j, n), UNCHANGED sent
  PROVE  SendType'
<1>1. sendq \in [End -> Seq(Msg)] /\ sendq[e] \in Seq(Msg) /\ sent \in [End -> Seq(Msg)]
  BY DEF SendType
<1>2. off' \in [Msg -> Nat] /\ \A m \in Msg : off'[m] < BufferSize(m)
  BY <1>1, TransmitOff DEF Flush
<1>3. j \in 0 .. Len(sendq[e])
  BY <1>1, TransmitWire DEF Flush
<1>4. sendq' \in [End -> Seq(Msg)]
  <2>1. SubSeq(sendq[e], j + 1, Len(sendq[e])) \in Seq(Msg)
    BY <1>1, <1>3
  <2> QED
    BY <1>1, <2>1 DEF Flush
<1> QED
  BY <1>1, <1>2, <1>4 DEF SendType

LEMMA SenderEnd == LifeType => \A m \in Msg : From[type][m] \in End
BY StreamAssumption DEF LifeType

\* What was sent, what waits, and how much of it was written.
LEMMA SendSteps == SendType /\ WireType /\ LifeType /\ [Next]_vars => SendType'
<1> SUFFICES ASSUME SendType, WireType, LifeType, [Next]_vars PROVE SendType'
  OBVIOUS
<1>1. sendq \in [End -> Seq(Msg)] /\ sent \in [End -> Seq(Msg)]
  BY DEF SendType
<1>2. ASSUME NEW m \in Msg, Send(From[type][m], m) PROVE SendType'
  <2>1. PICK e \in End : e = From[type][m] /\ Send(e, m)
    BY <1>2, SenderEnd
  <2>2. sent' = [sent EXCEPT ![e] = Append(sent[e], m)]
    BY <2>1 DEF Send
  <2>3. sent' \in [End -> Seq(Msg)]
    BY <2>2, <1>1
  <2>4. <<m>> \in Seq(Msg) /\ <<m, m>> \in Seq(Msg) /\ <<>> \in Seq(Msg)
    OBVIOUS
  <2>5. CASE SendQueued(e, m)
    <3>1. sendq' \in [End -> Seq(Msg)]
      BY <2>5, <1>1 DEF SendQueued
    <3> QED
      BY <2>3, <2>5, <3>1 DEF SendQueued, SendType
  <2>6. CASE SendThrows(e, m)
    <3>1. sendq' \in [End -> Seq(Msg)]
      BY <2>4, <2>6, <1>1 DEF SendThrows
    <3> QED
      BY <2>3, <2>6, <3>1 DEF SendThrows, SendType
  <2>7. ASSUME NEW j \in 0 .. 1, NEW n \in 0 .. Cap, SendWritten(e, m, j, n) PROVE SendType'
    <3>1. off' \in [Msg -> Nat] /\ \A x \in Msg : off'[x] < BufferSize(x)
      BY <2>4, <2>7, TransmitOff DEF SendWritten
    <3>2. Requeued(m) \in Seq(Msg)
      BY <2>4 DEF Requeued
    <3>3. sendq' \in [End -> Seq(Msg)]
      BY <2>4, <2>7, <1>1, <3>2 DEF SendWritten
    <3> QED
      BY <2>3, <3>1, <3>3 DEF SendType
  <2> QED
    BY <2>1, <2>5, <2>6, <2>7 DEF Send
<1>3. CASE Dial \/ Accept \/ Wake \/ UNCHANGED vars
  BY <1>3 DEF Dial, Accept, Wake, vars, socks, SendType
<1>4. CASE Connecting
  BY <1>4, FlushSend DEF Connecting, Connected, End
<1>5. ASSUME NEW e \in End, Writing(e) PROVE SendType'
  BY <1>5, FlushSend DEF Writing, OnWritable
<1>6. ASSUME NEW e \in End, NEW j, NEW n, DestroySoon(e, j, n) PROVE SendType'
  BY <1>6, FlushSend DEF DestroySoon
<1>7. ASSUME NEW e \in End, OnReadable(e) \/ RecvThrows(e) \/ OnEnd(e) \/ StaleNotification(e)
               \/ Pause(e) \/ Resume(e) \/ Destroy(e)
      PROVE  SendType'
  BY <1>7 DEF OnReadable, RecvThrows, OnEnd, StaleNotification, Pause, Resume, Destroy, socks, SendType
<1>8. ASSUME NEW e \in End, FlushThrows(e) PROVE SendType'
  <2>1. Tail(sendq[e]) \in Seq(Msg)
    BY <1>1, <1>8 DEF FlushThrows
  <2>2. sendq' \in [End -> Seq(Msg)]
    BY <2>1, <1>1, <1>8 DEF FlushThrows
  <2> QED
    BY <2>2, <1>8 DEF FlushThrows, SendType
<1> QED
  BY <1>2, <1>3, <1>4, <1>5, <1>6, <1>7, <1>8 DEF Next, Callback

-----------------------------------------------------------------------------
(* Reading                                                                 *)

\* Somebody who reads wants at least a byte more, and no more than the length or
\* the part that is read.
LEMMA ReadAmount ==
  ASSUME ReadType, WireType, NEW e \in End
  PROVE  /\ Wanted(e) \in Nat \ {0}
         /\ Len(buf[e]) \in Nat
         /\ Len(buf[e]) + Wanted(e) =
              IF cur[e] = NoPart THEN LengthSize ELSE PartSize(cur[e][1], cur[e][2])
         /\ Amount(e) \in 0 .. Len(wire[e]) /\ Amount(e) <= Wanted(e)
         /\ wire[e] # <<>> => Amount(e) > 0
         /\ Amount(e) = Len(wire[e]) \/ Amount(e) = Wanted(e)
<1>1. /\ buf[e] \in Seq(Byte) /\ wire[e] \in Seq(Byte) /\ cur[e] \in PartId \cup {NoPart}
      /\ Len(buf[e]) < IF cur[e] = NoPart THEN LengthSize ELSE PartSize(cur[e][1], cur[e][2])
  BY DEF ReadType, WireType
<1>2. cur[e] # NoPart => /\ PartSize(cur[e][1], cur[e][2]) \in Nat
                         /\ LengthField(PartSize(cur[e][1], cur[e][2])) = PartSize(cur[e][1], cur[e][2])
  <2>1. ASSUME cur[e] # NoPart
        PROVE  /\ PartSize(cur[e][1], cur[e][2]) \in HeaderSize .. Base * Base - 1
               /\ LengthField(PartSize(cur[e][1], cur[e][2])) = PartSize(cur[e][1], cur[e][2])
    <3>1. PICK m \in Msg : cur[e] \in {<<m, p>> : p \in 1 .. Parts(m)}
      BY <1>1, <2>1 DEF PartId
    <3>2. PICK p \in 1 .. Parts(m) : cur[e] = <<m, p>>
      BY <3>1
    <3> QED
      BY <3>2, PartBounds
  <2>2. Base * Base \in Nat
    BY FramingAssumption
  <2> QED
    BY <2>1, <2>2 DEF HeaderSize
<1>3. /\ Wanted(e) \in Nat \ {0} /\ Len(buf[e]) \in Nat
      /\ Len(buf[e]) + Wanted(e) =
              IF cur[e] = NoPart THEN LengthSize ELSE PartSize(cur[e][1], cur[e][2])
  <2>1. PICK z \in Nat : z = IF cur[e] = NoPart THEN LengthSize ELSE PartSize(cur[e][1], cur[e][2])
    BY <1>2 DEF LengthSize
  <2>2. Wanted(e) = z - Len(buf[e])
    BY <2>1, <1>2 DEF Wanted
  <2>3. Len(buf[e]) \in Nat /\ Len(buf[e]) < z
    BY <2>1, <1>1
  <2> QED
    BY <2>1, <2>2, <2>3
<1>4. Amount(e) \in {Wanted(e), Len(wire[e])} /\ \A y \in {Wanted(e), Len(wire[e])} : Amount(e) <= y
  <2>1. PICK w \in Nat, l \in Nat : w = Wanted(e) /\ l = Len(wire[e])
    BY <1>1, <1>3
  <2>2. \E x \in {w, l} : \A y \in {w, l} : x <= y
    BY <2>1
  <2> QED
    BY <2>1, <2>2 DEF Amount, Min
<1> QED
  BY <1>1, <1>3, <1>4

LEMMA TakenWire ==
  ASSUME ReadType, WireType, NEW e \in End, type' = type,
         wire' = [wire EXCEPT ![e] = SubSeq(wire[e], Amount(e) + 1, Len(wire[e]))]
  PROVE  /\ WireType'
         /\ wire'[e] # <<>> <=> Amount(e) < Len(wire[e])
<1>1. wire \in [End -> Seq(Byte)] /\ wire[e] \in Seq(Byte)
  BY DEF WireType
<1>2. PICK k \in Nat, l \in Nat : k = Amount(e) /\ l = Len(wire[e]) /\ k <= l
  BY <1>1, ReadAmount
<1>3. PICK w \in Seq(Byte) : w = SubSeq(wire[e], k + 1, l) /\ Len(w) = l - k /\ (w # <<>> <=> k < l)
  <2>1. k \in 0 .. Len(wire[e])
    BY <1>2
  <2>2. \E w \in Seq(Byte) : /\ w = SubSeq(wire[e], k + 1, Len(wire[e]))
                             /\ Len(w) = Len(wire[e]) - k /\ (w # <<>> <=> k < Len(wire[e]))
    BY <1>1, <2>1, SuffixType
  <2> QED
    BY <1>2, <2>2
<1>4. wire' = [wire EXCEPT ![e] = w]
  BY <1>2, <1>3
<1>5. Native => \A f \in End : Len(wire'[f]) <= Cap
  <2>1. Native => \A f \in End : Len(wire[f]) <= Cap
    BY DEF WireType
  <2>2. Cap \in Nat
    BY StreamAssumption
  <2>3. l <= Cap => Len(w) <= Cap
    BY <1>2, <1>3, <2>2
  <2> QED
    BY <1>1, <1>2, <1>4, <2>1, <2>3
<1>6. wire' \in [End -> Seq(Byte)]
  BY <1>1, <1>4
<1> QED
  BY <1>1, <1>2, <1>3, <1>4, <1>5, <1>6 DEF WireType, Native

\* What is on its way.
LEMMA WireSteps ==
  SendType /\ WireType /\ ReadType /\ LifeType /\ [Next]_vars => WireType'
<1> SUFFICES ASSUME SendType, WireType, ReadType, LifeType, [Next]_vars PROVE WireType'
  OBVIOUS
<1>1. \A m \in Msg : <<m>> \in Seq(Msg)
  OBVIOUS
<1>2. sendq \in [End -> Seq(Msg)]
  BY DEF SendType
<1>3. ASSUME UNCHANGED <<type, wire>> PROVE WireType'
  BY <1>3 DEF WireType, Native
<1>4. ASSUME NEW e \in End, NEW j, NEW n, Flush(e, j, n), type' = type PROVE WireType'
  <2>1. sendq[e] \in Seq(Msg) /\ Transmit(e, sendq[e], j, n)
    BY <1>2, <1>4 DEF Flush
  <2> QED
    BY <1>4, <2>1, TransmitWire
<1>5. ASSUME NEW m \in Msg, Send(From[type][m], m) PROVE WireType'
  <2>1. PICK e \in End : e = From[type][m] /\ Send(e, m)
    BY <1>5, SenderEnd
  <2>2. type' = type
    BY <2>1 DEF Send
  <2>3. CASE SendQueued(e, m) \/ SendThrows(e, m)
    BY <2>2, <2>3, <1>3 DEF SendQueued, SendThrows
  <2>4. ASSUME NEW j, NEW n, SendWritten(e, m, j, n) PROVE WireType'
    BY <2>2, <2>4, <1>1, TransmitWire DEF SendWritten
  <2> QED
    BY <2>1, <2>3, <2>4 DEF Send
<1>6. CASE Dial \/ Accept \/ Wake \/ UNCHANGED vars
  BY <1>3, <1>6 DEF Dial, Accept, Wake, vars
<1>7. CASE Connecting
  BY <1>4, <1>7 DEF Connecting, Connected, End
<1>8. ASSUME NEW e \in End, Writing(e) PROVE WireType'
  BY <1>4, <1>8 DEF Writing, OnWritable
<1>9. ASSUME NEW e \in End, NEW j, NEW n, DestroySoon(e, j, n) PROVE WireType'
  BY <1>4, <1>9 DEF DestroySoon
<1>10. ASSUME NEW e \in End, OnEnd(e) \/ StaleNotification(e) \/ FlushThrows(e)
                \/ Pause(e) \/ Resume(e) \/ Destroy(e)
       PROVE  WireType'
  BY <1>3, <1>10 DEF OnEnd, StaleNotification, FlushThrows, Pause, Resume, Destroy
<1>11. ASSUME NEW e \in End, OnReadable(e) \/ RecvThrows(e) PROVE WireType'
  BY <1>11, TakenWire DEF OnReadable, RecvThrows
<1> QED
  BY <1>5, <1>6, <1>7, <1>8, <1>9, <1>10, <1>11 DEF Next, Callback

LEMMA ReceivedType ==
  ASSUME NEW e \in End, NEW bytes, pendingfd[e] \in Msg \cup {Nil}
  PROVE  Received(e, bytes) \in Msg \cup {Nil}
<1>1. Carrying \subseteq Msg
  BY FramingAssumption
<1> DEFINE First(i) == bytes[i][1] \in Carrying /\ bytes[i][2] = 0
<1>2. ASSUME \E i \in DOMAIN bytes : First(i)
      PROVE  bytes[CHOOSE i \in DOMAIN bytes : First(i)][1] \in Carrying
  <2>1. PICK i : i = CHOOSE j \in DOMAIN bytes : First(j)
    OBVIOUS
  <2>2. First(i)
    <3> HIDE DEF First
    <3> QED BY <1>2, <2>1
  <2> QED
    BY <2>1, <2>2
<1> QED
  BY <1>1, <1>2 DEF Received

LEMMA HeadedType ==
  ASSUME NEW bytes \in Seq(Byte), bytes # <<>>
  PROVE  Headed(bytes) \in PartId \cup {NoPart}
<1>1. PICK m \in Msg : m = bytes[1][1]
  <2>1. bytes[1] \in Byte
    OBVIOUS
  <2> QED
    BY <2>1 DEF Byte
<1>2. PICK P : P = {p \in 1 .. Parts(m) : bytes = SubSeq(Part(m, p), 1, LengthSize)}
  OBVIOUS
<1>3. Headed(bytes) = IF P = {} THEN NoPart ELSE <<m, CHOOSE p \in P : TRUE>>
  BY <1>1, <1>2 DEF Headed, NoPart
<1>4. P # {} => (CHOOSE p \in P : TRUE) \in 1 .. Parts(m)
  <2>1. P # {} => (CHOOSE p \in P : TRUE) \in P
    OBVIOUS
  <2> QED
    BY <1>2, <2>1
<1> QED
  BY <1>3, <1>4 DEF PartId

\* After a part: nothing is read, what was read is kept or delivered.
LEMMA PartRead ==
  ASSUME ReadType, NEW e \in End, NEW bytes, cur[e] # NoPart,
         NextFrame(e, bytes), Parse(e, cur[e][1], cur[e][2], bytes),
         pendingfd' \in [End -> Msg \cup {Nil}]
  PROVE  ReadType'
<1>1. /\ buf \in [End -> Seq(Byte)] /\ cur \in [End -> PartId \cup {NoPart}]
      /\ cache \in [End -> Seq(Msg \X Nat)]
      /\ delivered \in [End -> Seq([msg : Msg, fd : Msg \cup {Nil}])]
  BY DEF ReadType
<1>2. PICK m \in Msg, p \in Nat : cur[e] = <<m, p>>
  <2>1. cur[e] \in PartId
    BY <1>1
  <2>2. PICK m \in Msg : cur[e] \in {<<m, p>> : p \in 1 .. Parts(m)}
    BY <2>1 DEF PartId
  <2>3. \A p \in 1 .. Parts(m) : p \in Nat
    BY PartBounds
  <2> QED
    BY <2>2, <2>3
<1>3. Parse(e, m, p, bytes)
  BY <1>2
<1>4. cache' \in [End -> Seq(Msg \X Nat)]
  <2>1. Cached(cache[e], m, p) \in Seq(Msg \X Nat)
    <3>1. <<m, p>> \in Msg \X Nat /\ cache[e] \in Seq(Msg \X Nat)
      BY <1>1
    <3>2. Append(cache[e], <<m, p>>) \in Seq(Msg \X Nat) /\ <<>> \in Seq(Msg \X Nat)
      BY <3>1
    <3> QED
      BY <3>1, <3>2 DEF Cached
  <2> QED
    BY <1>1, <1>3, <2>1 DEF Parse
<1>5. delivered' \in [End -> Seq([msg : Msg, fd : Msg \cup {Nil}])]
  <2>1. PICK d \in [msg : Msg, fd : Msg \cup {Nil}] : d = Delivery(m, pendingfd'[e])
    <3>1. pendingfd'[e] \in Msg \cup {Nil}
      OBVIOUS
    <3>2. PICK x \in Msg \cup {Nil} : x = IF Descriptor(m) # Nil THEN pendingfd'[e] ELSE Nil
      BY <3>1
    <3>3. [msg |-> m, fd |-> x] \in [msg : Msg, fd : Msg \cup {Nil}]
      OBVIOUS
    <3> QED
      BY <3>2, <3>3 DEF Delivery
  <2>2. Append(delivered[e], d) \in Seq([msg : Msg, fd : Msg \cup {Nil}])
    <3>1. PICK R : R = [msg : Msg, fd : Msg \cup {Nil}]
      OBVIOUS
    <3>2. d \in R /\ delivered[e] \in Seq(R)
      BY <1>1, <3>1
    <3> QED
      BY <3>1, <3>2
  <2>3. delivered' = IF Completes(m, p) THEN [delivered EXCEPT ![e] = Append(delivered[e], d)]
                     ELSE delivered
    BY <1>3, <2>1 DEF Parse
  <2> QED
    BY <1>1, <2>2, <2>3
<1>6. cur' = [cur EXCEPT ![e] = NoPart] /\ buf' = [buf EXCEPT ![e] = <<>>]
  BY DEF NextFrame
<1>7. buf' \in [End -> Seq(Byte)] /\ cur' \in [End -> PartId \cup {NoPart}]
  <2>1. <<>> \in Seq(Byte)
    OBVIOUS
  <2> QED
    BY <1>1, <1>6, <2>1
<1>8. ASSUME NEW f \in End
      PROVE  Len(buf'[f]) < IF cur'[f] = NoPart THEN LengthSize ELSE PartSize(cur'[f][1], cur'[f][2])
  <2>1. CASE f = e
    BY <2>1, <1>1, <1>6 DEF LengthSize
  <2>2. CASE f # e
    BY <2>2, <1>1, <1>6 DEF ReadType
  <2> QED
    BY <2>1, <2>2
<1> QED
  BY <1>4, <1>5, <1>7, <1>8 DEF ReadType

\* What a reader has, of the length, of a part, and of what came before.
LEMMA ReadSteps ==
  SendType /\ WireType /\ ReadType /\ LifeType /\ [Next]_vars => ReadType'
<1> SUFFICES ASSUME SendType, WireType, ReadType, LifeType, [Next]_vars PROVE ReadType'
  OBVIOUS
<1>1. /\ buf \in [End -> Seq(Byte)] /\ wire \in [End -> Seq(Byte)]
      /\ cur \in [End -> PartId \cup {NoPart}] /\ pendingfd \in [End -> Msg \cup {Nil}]
      /\ \A e \in End :
           Len(buf[e]) < IF cur[e] = NoPart THEN LengthSize ELSE PartSize(cur[e][1], cur[e][2])
  BY DEF ReadType, WireType
<1>2. ASSUME UNCHANGED reader PROVE ReadType'
  BY <1>2 DEF reader, ReadType
<1>3. ASSUME NEW e \in End, NEW got, pendingfd' = [pendingfd EXCEPT ![e] = Received(e, got)]
      PROVE  pendingfd' \in [End -> Msg \cup {Nil}]
  <2>1. Received(e, got) \in Msg \cup {Nil}
    BY <1>1, ReceivedType
  <2> QED
    BY <1>1, <1>3, <2>1
<1>4. ASSUME NEW e \in End, OnReadable(e) PROVE ReadType'
  <2>1. PICK k \in 0 .. Len(wire[e]) : k = Amount(e) /\ k <= Wanted(e)
    BY ReadAmount
  <2>2. PICK got \in Seq(Byte) : got = SubSeq(wire[e], 1, k) /\ Len(got) = k
    <3>1. wire[e] \in Seq(Byte)
      BY <1>1
    <3> QED
      BY <3>1, PrefixType
  <2>3. PICK all \in Seq(Byte) : all = buf[e] \o got /\ Len(all) = Len(buf[e]) + k
    <3>1. buf[e] \in Seq(Byte)
      BY <1>1
    <3>2. buf[e] \o got \in Seq(Byte) /\ Len(buf[e] \o got) = Len(buf[e]) + Len(got)
      BY <3>1, ConcatType
    <3> QED
      BY <2>2, <3>2
  <2>4. pendingfd' = [pendingfd EXCEPT ![e] = Received(e, got)]
    BY <1>4, <2>1, <2>2 DEF OnReadable
  <2>5. pendingfd' \in [End -> Msg \cup {Nil}]
    BY <1>3, <2>4
  <2>6. CASE /\ cur[e] = NoPart /\ Len(all) = LengthSize
             /\ cur' = [cur EXCEPT ![e] = Headed(all)]
             /\ buf' = [buf EXCEPT ![e] = IF Headed(all) = NoPart THEN <<>> ELSE all]
             /\ UNCHANGED <<cache, delivered>>
    <3>1. all # <<>>
      <4>1. Len(all) = 2
        BY <2>6 DEF LengthSize
      <4> QED
        BY <4>1
    <3>2. PICK h \in PartId \cup {NoPart} : h = Headed(all)
      BY <3>1, HeadedType
    <3>3. PICK b \in Seq(Byte) : b = IF h = NoPart THEN <<>> ELSE all
      <4>1. <<>> \in Seq(Byte)
        OBVIOUS
      <4> QED
        BY <4>1
    <3>4. cur' = [cur EXCEPT ![e] = h] /\ buf' = [buf EXCEPT ![e] = b]
      BY <2>6, <3>2, <3>3
    <3>5. Len(b) < IF h = NoPart THEN LengthSize ELSE PartSize(h[1], h[2])
      <4>1. CASE h = NoPart
        BY <3>3, <4>1 DEF LengthSize
      <4>2. CASE h # NoPart
        <5>1. PICK m \in Msg : h \in {<<m, p>> : p \in 1 .. Parts(m)}
          BY <4>2, <3>2 DEF PartId
        <5>2. PICK p \in 1 .. Parts(m) : h = <<m, p>>
          BY <5>1
        <5>3. PartSize(m, p) \in HeaderSize .. Base * Base - 1 /\ Base * Base \in Nat
          BY PartBounds, FramingAssumption
        <5>4. PartSize(m, p) > 2
          BY <5>3 DEF HeaderSize
        <5> QED
          BY <2>6, <3>3, <4>2, <5>2, <5>4 DEF LengthSize
      <4> QED
        BY <4>1, <4>2
    <3>6. buf' \in [End -> Seq(Byte)] /\ cur' \in [End -> PartId \cup {NoPart}]
      BY <1>1, <3>4
    <3>7. ASSUME NEW f \in End
          PROVE  Len(buf'[f]) < IF cur'[f] = NoPart THEN LengthSize ELSE PartSize(cur'[f][1], cur'[f][2])
      <4>1. CASE f = e
        BY <4>1, <1>1, <3>4, <3>5
      <4>2. CASE f # e
        BY <4>2, <1>1, <3>4
      <4> QED
        BY <4>1, <4>2
    <3>8. UNCHANGED <<cache, delivered>>
      BY <2>6
    <3> QED
      BY <2>5, <3>6, <3>7, <3>8 DEF ReadType
  <2>7. CASE cur[e] # NoPart /\ NextFrame(e, all) /\ Parse(e, cur[e][1], cur[e][2], all)
    BY <2>5, <2>7, PartRead
  <2>8. CASE k < Wanted(e) /\ buf' = [buf EXCEPT ![e] = all] /\ UNCHANGED <<cur, cache, delivered>>
    <3>1. Len(all) < IF cur[e] = NoPart THEN LengthSize ELSE PartSize(cur[e][1], cur[e][2])
      BY <2>1, <2>3, <2>8, ReadAmount
    <3>2. buf' \in [End -> Seq(Byte)]
      BY <1>1, <2>8
    <3>3. ASSUME NEW f \in End
          PROVE  Len(buf'[f]) < IF cur'[f] = NoPart THEN LengthSize ELSE PartSize(cur'[f][1], cur'[f][2])
      <4>1. CASE f = e
        BY <4>1, <1>1, <2>8, <3>1
      <4>2. CASE f # e
        BY <4>2, <1>1, <2>8
      <4> QED
        BY <4>1, <4>2
    <3> QED
      BY <2>5, <2>8, <3>2, <3>3 DEF ReadType
  <2> QED
    BY <1>4, <2>1, <2>2, <2>3, <2>6, <2>7, <2>8 DEF OnReadable
<1>5. ASSUME NEW e \in End, RecvThrows(e) PROVE ReadType'
  <2>1. PICK got : got = SubSeq(wire[e], 1, Amount(e))
    OBVIOUS
  <2>2. /\ cur[e] # NoPart /\ NextFrame(e, buf[e] \o got)
        /\ Parse(e, cur[e][1], cur[e][2], buf[e] \o got)
        /\ pendingfd' = [pendingfd EXCEPT ![e] = Received(e, got)]
    BY <1>5, <2>1 DEF RecvThrows
  <2> QED
    BY <1>3, <2>2, PartRead
<1>6. CASE \E m \in Msg : Send(From[type][m], m)
  BY <1>2, <1>6 DEF Send
<1>7. CASE Dial \/ Accept \/ Wake \/ UNCHANGED vars
  BY <1>2, <1>7 DEF Dial, Accept, Wake, vars
<1>8. CASE Connecting \/ \E e \in End : Writing(e)
  BY <1>2, <1>8 DEF Connecting, Connected, Writing, OnWritable
<1>9. ASSUME NEW e \in End, NEW j, NEW n, DestroySoon(e, j, n) PROVE ReadType'
  BY <1>2, <1>9 DEF DestroySoon
<1>10. ASSUME NEW e \in End, OnEnd(e) \/ StaleNotification(e) \/ FlushThrows(e)
                \/ Pause(e) \/ Resume(e) \/ Destroy(e)
       PROVE  ReadType'
  BY <1>2, <1>10 DEF OnEnd, StaleNotification, FlushThrows, Pause, Resume, Destroy
<1> QED
  BY <1>4, <1>5, <1>6, <1>7, <1>8, <1>9, <1>10 DEF Next, Callback

-----------------------------------------------------------------------------
(* Life, watchers and notifications                                        *)

LEMMA LifeSteps == LifeType /\ [Next]_vars => LifeType'
<1> SUFFICES ASSUME LifeType, [Next]_vars PROVE LifeType'
  OBVIOUS
<1>1. ASSUME UNCHANGED <<type, life, shake>> PROVE LifeType'
  BY <1>1 DEF LifeType
<1>2. ASSUME NEW e \in End, NEW d, Gone(e, d), type' = type, shake' = shake PROVE LifeType'
  BY <1>2 DEF Gone, LifeType
<1>3. ASSUME NEW m \in Msg, Send(From[type][m], m) PROVE LifeType'
  <2>1. PICK e \in End : e = From[type][m] /\ Send(e, m)
    BY <1>3, SenderEnd
  <2> QED
    BY <2>1, <1>1, <1>2 DEF Send, SendQueued, SendWritten, SendThrows
<1>4. CASE Dial \/ Accept \/ Wake \/ UNCHANGED vars
  BY <1>4 DEF Dial, Accept, Wake, vars, socks, mems, LifeType, End
<1>5. ASSUME NEW j, NEW n, Connected(j, n) PROVE LifeType'
  <2>1. life' = [life EXCEPT !["a"] = "open"] \/ life' = [life EXCEPT !["a"] = "destroyed"]
    BY <1>5 DEF Connected, Gone
  <2>2. shake' \in {shake, "done"} /\ type' = type
    BY <1>5 DEF Connected
  <2> QED
    BY <2>1, <2>2 DEF LifeType, End
<1>6. ASSUME NEW e \in End, Writing(e) PROVE LifeType'
  BY <1>1, <1>2, <1>6 DEF Writing, OnWritable
<1>7. ASSUME NEW e \in End, NEW j, NEW n, DestroySoon(e, j, n) PROVE LifeType'
  BY <1>1, <1>2, <1>7 DEF DestroySoon
<1>8. ASSUME NEW e \in End, OnReadable(e) \/ Pause(e) \/ Resume(e) \/ StaleNotification(e)
      PROVE  LifeType'
  BY <1>1, <1>8 DEF OnReadable, Pause, Resume, StaleNotification, socks, mems
<1>9. ASSUME NEW e \in End, RecvThrows(e) \/ OnEnd(e) \/ FlushThrows(e) \/ Destroy(e)
      PROVE  LifeType'
  BY <1>2, <1>9 DEF RecvThrows, OnEnd, FlushThrows, Destroy
<1> QED
  BY <1>3, <1>4, <1>5, <1>6, <1>7, <1>8, <1>9 DEF Next, Callback, Connecting

LEMMA FlagAt ==
  \A f \in [End -> BOOLEAN], e \in End, b \in BOOLEAN : [f EXCEPT ![e] = b] \in [End -> BOOLEAN]
OBVIOUS

LEMMA RememberType == ASSUME Remember PROVE missed' \in [End -> BOOLEAN]
BY DEF Remember

LEMMA NotifiedType ==
  ASSUME due \in [End -> BOOLEAN], NEW e \in End, NEW b
  PROVE  Notified(e, b) \in [End -> BOOLEAN]
BY DEF Notified

LEMMA GoneType ==
  ASSUME FlagType, NEW e \in End, NEW d \in [End -> BOOLEAN], Gone(e, d)
  PROVE  /\ wwatch' \in [End -> BOOLEAN] /\ rwatch' \in [End -> BOOLEAN]
         /\ due' \in [End -> BOOLEAN] /\ eof' \in [End -> BOOLEAN] /\ down' \in BOOLEAN
<1>1. Peer(e) \in End
  BY PeerOther
<1>2. down' \in BOOLEAN
  BY DEF Gone
<1>3. due' \in [End -> BOOLEAN]
  BY <1>1 DEF Gone
<1> QED
  BY <1>1, <1>2, <1>3 DEF Gone, FlagType

LEMMA FlushType ==
  ASSUME FlagType, NEW e \in End, NEW j, NEW n, Flush(e, j, n)
  PROVE  doubled' \in [End -> BOOLEAN]
<1>1. (doubled[e] \/ Kept(e, sendq[e])) \in BOOLEAN
  OBVIOUS
<1> QED
  BY <1>1 DEF Flush, FlagType

\* Every flag stays one.
LEMMA FlagSteps == LifeType /\ FlagType /\ [Next]_vars => FlagType'
<1> SUFFICES ASSUME LifeType, FlagType, [Next]_vars PROVE FlagType'
  OBVIOUS
<1>1. /\ wwatch \in [End -> BOOLEAN] /\ rwatch \in [End -> BOOLEAN] /\ soon \in [End -> BOOLEAN]
      /\ eof \in [End -> BOOLEAN] /\ due \in [End -> BOOLEAN] /\ doubled \in [End -> BOOLEAN]
      /\ torn \in [End -> BOOLEAN] /\ missed \in [End -> BOOLEAN] /\ down \in BOOLEAN
  BY DEF FlagType
<1>2. "a" \in End /\ \A e \in End : Peer(e) \in End
  BY PeerOther DEF End
<1>3. ASSUME NEW m \in Msg, Send(From[type][m], m) PROVE FlagType'
  <2>1. PICK e \in End : e = From[type][m] /\ Send(e, m)
    BY <1>3, SenderEnd
  <2>2. missed' \in [End -> BOOLEAN] /\ torn' = torn
    BY <2>1, RememberType DEF Send, reader
  <2>3. CASE SendQueued(e, m)
    BY <1>1, <2>2, <2>3 DEF SendQueued, FlagType
  <2>4. CASE SendThrows(e, m)
    <3>1. Gone(e, due) /\ UNCHANGED <<soon, doubled>>
      BY <2>4 DEF SendThrows
    <3> QED
      BY <1>1, <2>2, <3>1, GoneType DEF FlagType
  <2>5. ASSUME NEW j, NEW n, SendWritten(e, m, j, n) PROVE FlagType'
    <3>1. (wwatch[e] \/ j = 0) \in BOOLEAN /\ (doubled[e] \/ (j = 0 /\ off'[m] = 0)) \in BOOLEAN
      OBVIOUS
    <3>2. wwatch' = [wwatch EXCEPT ![e] = wwatch[e] \/ j = 0]
      BY <2>5 DEF SendWritten
    <3>3. doubled' = [doubled EXCEPT ![e] = doubled[e] \/ (j = 0 /\ off'[m] = 0)]
      BY <2>5 DEF SendWritten
    <3>4. wwatch' \in [End -> BOOLEAN] /\ doubled' \in [End -> BOOLEAN]
      BY <1>1, <3>1, <3>2, <3>3, FlagAt
    <3>5. due' \in [End -> BOOLEAN]
      BY <1>1, <1>2, <2>5, NotifiedType DEF SendWritten
    <3>6. UNCHANGED <<rwatch, soon, eof, down>>
      BY <2>5 DEF SendWritten
    <3> QED
      BY <1>1, <2>2, <3>4, <3>5, <3>6 DEF FlagType
  <2> QED
    BY <2>1, <2>3, <2>4, <2>5 DEF Send
<1>4. CASE Dial \/ Accept \/ Wake \/ UNCHANGED vars
  <2>1. wwatch' = wwatch \/ wwatch' = [wwatch EXCEPT !["a"] = TRUE]
    BY <1>4 DEF Dial, Accept, Wake, vars, socks
  <2>2. rwatch' = rwatch \/ rwatch' = [rwatch EXCEPT !["b"] = TRUE]
    BY <1>4 DEF Dial, Accept, Wake, vars, socks, Started
  <2>3. UNCHANGED <<soon, eof, due, doubled, torn, missed, down>>
    BY <1>4 DEF Dial, Accept, Wake, vars, socks, mems, reader
  <2> QED
    BY <1>1, <2>1, <2>2, <2>3 DEF FlagType, End
<1>5. ASSUME NEW j, NEW n, Connected(j, n) PROVE FlagType'
  <2>1. missed' \in [End -> BOOLEAN] /\ UNCHANGED <<soon, torn>>
    BY <1>5, RememberType DEF Connected, reader
  <2>2. doubled' \in [End -> BOOLEAN]
    BY <1>2, <1>5, FlushType DEF Connected
  <2>3. \A b : Notified("b", b) \in [End -> BOOLEAN]
    BY <1>1, NotifiedType DEF End
  <2>4. CASE Gone("a", Notified("b", Listened("a")))
    BY <1>2, <2>1, <2>2, <2>3, <2>4, GoneType DEF FlagType
  <2>5. CASE /\ Started("a")
             /\ wwatch' = [wwatch EXCEPT !["a"] = sendq["a"] = <<>> \/ ~Flushed("a", j)]
             /\ due' = Notified("b", sendq["a"] # <<>> /\ Listened("a"))
             /\ UNCHANGED <<eof, down>>
    <3>1. (sendq["a"] = <<>> \/ ~Flushed("a", j)) \in BOOLEAN
      OBVIOUS
    <3>2. wwatch' \in [End -> BOOLEAN]
      BY <1>1, <1>2, <2>5, <3>1, FlagAt
    <3>3. rwatch' \in [End -> BOOLEAN]
      BY <1>1, <1>2, <2>5, FlagAt DEF Started
    <3> QED
      BY <1>1, <2>1, <2>2, <2>3, <2>5, <3>2, <3>3 DEF FlagType
  <2> QED
    BY <1>5, <2>4, <2>5 DEF Connected
<1>6. ASSUME NEW e \in End, NEW j, NEW n, OnWritable(e, j, n) PROVE FlagType'
  <2>1. doubled' \in [End -> BOOLEAN] /\ UNCHANGED <<soon, torn, missed>>
    BY <1>6, FlushType DEF OnWritable, reader
  <2>2. CASE Gone(e, due)
    BY <1>1, <2>1, <2>2, GoneType DEF FlagType
  <2>3. CASE Rewatch(e, j) /\ UNCHANGED <<rwatch, eof, due, down>>
    <3>1. (j < Len(sendq[e])) \in BOOLEAN
      OBVIOUS
    <3>2. wwatch' \in [End -> BOOLEAN]
      BY <1>1, <2>3, <3>1, FlagAt DEF Rewatch
    <3> QED
      BY <1>1, <2>1, <2>3, <3>2 DEF FlagType
  <2> QED
    BY <1>6, <2>2, <2>3 DEF OnWritable
<1>7. ASSUME NEW e \in End, FlushThrows(e) PROVE FlagType'
  <2>1. Gone(e, due) /\ UNCHANGED <<soon, torn, missed, doubled>>
    BY <1>7 DEF FlushThrows, reader
  <2> QED
    BY <1>1, <2>1, GoneType DEF FlagType
<1>8. ASSUME NEW e \in End, NEW j, NEW n, DestroySoon(e, j, n) PROVE FlagType'
  <2>1. doubled' \in [End -> BOOLEAN] /\ missed' \in [End -> BOOLEAN] /\ torn' = torn
    BY <1>8, FlushType, RememberType DEF DestroySoon, reader
  <2>2. PICK d \in [End -> BOOLEAN] :
          d = Notified(Peer(e), sendq[e] # <<>> /\ Listened(e))
    BY <1>1, <1>2, NotifiedType
  <2>3. CASE Gone(e, d) /\ UNCHANGED soon
    BY <1>1, <2>1, <2>3, GoneType DEF FlagType
  <2>4. CASE /\ soon' = [soon EXCEPT ![e] = TRUE] /\ wwatch' = [wwatch EXCEPT ![e] = TRUE]
             /\ due' = d /\ UNCHANGED <<rwatch, eof, down>>
    BY <1>1, <2>1, <2>4 DEF FlagType
  <2> QED
    BY <1>8, <2>2, <2>3, <2>4 DEF DestroySoon
<1>9. ASSUME NEW e \in End, Destroy(e) \/ OnEnd(e) PROVE FlagType'
  <2>1. PICK d \in [End -> BOOLEAN] : Gone(e, d)
    BY <1>1, <1>9 DEF Destroy, OnEnd
  <2>2. missed' \in [End -> BOOLEAN] /\ UNCHANGED <<soon, torn, doubled>>
    BY <1>9, RememberType DEF Destroy, OnEnd, reader
  <2> QED
    BY <1>1, <2>1, <2>2, GoneType DEF FlagType
<1>10. ASSUME NEW e \in End, NEW k PROVE Reread(e, k) \in [End -> BOOLEAN]
  <2>1. (rwatch[e] /\ (k < Len(wire[e]) \/ eof[e])) \in BOOLEAN
    OBVIOUS
  <2> QED
    BY <1>1, <2>1, FlagAt DEF Reread
<1>11. ASSUME NEW e \in End, NEW m, NEW p, NEW b, Parse(e, m, p, b) PROVE torn' \in [End -> BOOLEAN]
  <2>1. (b # Part(m, p) \/ (Completes(m, p) /\ ~Joined(cache[e], m, p))) \in BOOLEAN
    OBVIOUS
  <2> QED
    BY <1>1, <1>11, <2>1, FlagAt DEF Parse
<1>12. ASSUME NEW e \in End, OnReadable(e) PROVE FlagType'
  <2>1. missed' \in [End -> BOOLEAN] /\ UNCHANGED <<rwatch, wwatch, soon, eof, down, doubled>>
    BY <1>12, RememberType DEF OnReadable, socks
  <2>2. due' \in [End -> BOOLEAN]
    BY <1>10, <1>12 DEF OnReadable
  <2>3. torn' \in [End -> BOOLEAN]
    <3>1. PICK all : \/ torn' = [torn EXCEPT ![e] = Headed(all) = NoPart]
                     \/ Parse(e, cur[e][1], cur[e][2], all)
                     \/ torn' = torn
      BY <1>12 DEF OnReadable
    <3>2. (Headed(all) = NoPart) \in BOOLEAN
      OBVIOUS
    <3> QED
      BY <1>1, <1>11, <3>1, <3>2, FlagAt
  <2> QED
    BY <1>1, <2>1, <2>2, <2>3 DEF FlagType
<1>13. ASSUME NEW e \in End, RecvThrows(e) PROVE FlagType'
  <2>1. missed' \in [End -> BOOLEAN] /\ UNCHANGED <<soon, doubled>>
    BY <1>13, RememberType DEF RecvThrows
  <2>2. torn' \in [End -> BOOLEAN]
    BY <1>11, <1>13 DEF RecvThrows
  <2>3. PICK d \in [End -> BOOLEAN] : Gone(e, d)
    BY <1>10, <1>13 DEF RecvThrows
  <2> QED
    BY <1>1, <2>1, <2>2, <2>3, GoneType DEF FlagType
<1>14. ASSUME NEW e \in End, StaleNotification(e) PROVE FlagType'
  BY <1>14 DEF StaleNotification, socks, reader, mems, FlagType
<1>15. ASSUME NEW e \in End, Pause(e) \/ Resume(e) PROVE FlagType'
  <2>1. missed' \in [End -> BOOLEAN] /\ UNCHANGED <<wwatch, soon, eof, due, doubled, torn, down>>
    BY <1>1, <1>15, RememberType DEF Pause, Resume, reader, mems
  <2>2. rwatch' \in [End -> BOOLEAN]
    BY <1>1, <1>15, FlagAt DEF Pause, Resume, Started, Stopped
  <2> QED
    BY <1>1, <2>1, <2>2 DEF FlagType
<1> QED
  BY <1>3, <1>4, <1>5, <1>6, <1>7, <1>8, <1>9, <1>12, <1>13, <1>14, <1>15
  DEF Next, Callback, Connecting, Writing

-----------------------------------------------------------------------------
LEMMA TypeInit == Init => TypeInv
<1> SUFFICES ASSUME Init PROVE TypeInv
  OBVIOUS
<1>1. \A m \in Msg : BufferSize(m) \in Nat /\ 0 < BufferSize(m)
  BY PartBounds, FramingAssumption DEF BufferSize, HeaderSize
<1>2. SendType
  BY <1>1 DEF Init, SendType
<1>3. wire = [e \in End |-> <<>>] /\ buf = [e \in End |-> <<>>] /\ cur = [e \in End |-> NoPart]
  BY DEF Init, Descriptors
<1>4. WireType
  <2>1. Cap \in Nat /\ \A e \in End : wire[e] = <<>> /\ Len(wire[e]) = 0
    BY <1>3, StreamAssumption
  <2> QED
    BY <1>3, <2>1 DEF WireType
<1>5. ReadType
  <2>1. \A e \in End : buf[e] = <<>> /\ Len(buf[e]) = 0 /\ cur[e] = NoPart
    BY <1>3
  <2>2. cache \in [End -> Seq(Msg \X Nat)] /\ pendingfd \in [End -> Msg \cup {Nil}]
    BY DEF Init
  <2>3. delivered = [e \in End |-> <<>>]
    BY DEF Init
  <2>4. delivered \in [End -> Seq([msg : Msg, fd : Msg \cup {Nil}])]
    <3>1. <<>> \in Seq([msg : Msg, fd : Msg \cup {Nil}])
      OBVIOUS
    <3> QED
      BY <2>3, <3>1
  <2>5. \A e \in End :
          Len(buf[e]) < IF cur[e] = NoPart THEN LengthSize ELSE PartSize(cur[e][1], cur[e][2])
    BY <2>1 DEF LengthSize
  <2>6. buf \in [End -> Seq(Byte)] /\ cur \in [End -> PartId \cup {NoPart}]
    BY <1>3
  <2> QED
    BY <2>2, <2>4, <2>5, <2>6 DEF ReadType
<1>6. LifeType
  BY DEF Init, Descriptors, LifeType
<1>7. FlagType
  BY DEF Init, Descriptors, FlagType
<1> QED
  BY <1>2, <1>4, <1>5, <1>6, <1>7 DEF TypeInv

LEMMA TypeSteps == TypeInv /\ [Next]_vars => TypeInv'
BY SendSteps, WireSteps, ReadSteps, LifeSteps, FlagSteps DEF TypeInv

\* The inductive invariant says all that TypeOK does.
LEMMA TypeImplied == TypeInv => TypeOK
<1> SUFFICES ASSUME TypeInv PROVE TypeOK
  OBVIOUS
<1>1. cur \in [End -> (Msg \X Nat) \cup {NoPart}]
  <2>1. PartId \subseteq Msg \X Nat
    <3>1. \A m \in Msg : Parts(m) \in Nat
      BY PartBounds
    <3> QED
      BY <3>1 DEF PartId
  <2> QED
    BY <2>1 DEF TypeInv, ReadType
<1>2. \A e \in End :
        /\ Native => Len(wire[e]) <= Cap
        /\ Len(buf[e]) < IF cur[e] = NoPart THEN LengthSize ELSE PartSize(cur[e][1], cur[e][2])
  BY DEF TypeInv, ReadType, WireType
<1>3. \A f \in {wwatch, rwatch, soon, eof, due, doubled, torn, missed} : f \in [End -> BOOLEAN]
  BY DEF TypeInv, FlagType
<1> QED
  BY <1>1, <1>2, <1>3 DEF TypeInv, SendType, WireType, ReadType, LifeType, FlagType, TypeOK

\* Every variable keeps its type, whatever sockets of unix, tcp or mem send,
\* pause, resume and destroy: no offset reaches the end of its message, the
\* kernel holds no more than it can, and a reader never has more than the frame
\* it reads (flush, _onReadable).
THEOREM TypeCorrect == Spec => []TypeOK
<1>1. Init => TypeInv
  BY TypeInit
<1>2. TypeInv /\ [Next]_vars => TypeInv'
  BY TypeSteps
<1>3. TypeInv => TypeOK
  BY TypeImplied
<1> QED
  BY <1>1, <1>2, <1>3, PTL DEF Spec

-----------------------------------------------------------------------------
(* No stall                                                                *)

\* The end of the stream is behind the bytes of an end whose peer is destroyed.
EndTold(e) == eof[e] <=> life[Peer(e)] = "destroyed"

\* Who waits, waits for something: a socket that is not accepted has nothing to
\* send, a destroySoon waits for the queue, and a queue for the write watcher.
WaitsFor(e) ==
  /\ rwatch[e] => life[e] = "open"
  /\ life[e] = "none" => e = "b" /\ sendq[e] = <<>>
  /\ soon[e] /\ life[e] # "destroyed" => sendq[e] # <<>>
  /\ Native /\ life[e] = "open" /\ sendq[e] # <<>> => wwatch[e]

\* A mem end that listens is told of what is there; for one that does not,
\* nothing is, unless it came while it did not listen.
Told(e) ==
  ~missed[e] /\ life[e] # "destroyed" =>
    IF rwatch[e] THEN due[e] <=> wire[e] # <<>> \/ eof[e]
    ELSE ~due[e] /\ wire[e] = <<>> /\ ~eof[e]

\* A mem end keeps messages while it is open only if a first write was answered
\* with 0, or there is nobody to send them to: a write takes all or nothing, and
\* no end opens before the other is accepted.
Rests(e) == life[e] = "open" /\ sendq[e] # <<>> => doubled[e] \/ eof[e]
MemInv ==
  /\ \A m \in Msg : off[m] = 0
  /\ life["a"] = "open" \/ shake \in {"accepted", "notified"} => life["b"] # "none"
  /\ \A e \in End : Rests(e)

StallInv ==
  /\ \A e \in End : EndTold(e)
  /\ \A e \in End : WaitsFor(e)
  /\ ~Native => MemInv
  /\ ~down /\ ~Native => \A e \in End : Told(e)

LEMMA GoneEnd ==
  ASSUME LifeType, FlagType, NEW e \in End, NEW d, Gone(e, d), \A f \in End : EndTold(f)
  PROVE  \A f \in End : EndTold(f)'
<1>1. /\ life' = [life EXCEPT ![e] = "destroyed"] /\ eof' = [eof EXCEPT ![Peer(e)] = TRUE]
      /\ life \in [End -> {"none", "connecting", "open", "destroyed"}] /\ eof \in [End -> BOOLEAN]
  BY DEF Gone, LifeType, FlagType
<1> SUFFICES ASSUME NEW f \in End PROVE eof'[f] <=> life'[Peer(f)] = "destroyed"
  BY DEF EndTold
<1>2. Peer(f) \in End /\ Peer(e) \in End /\ (f = Peer(e) <=> Peer(f) = e)
  BY PeerOther
<1>3. CASE f = Peer(e)
  BY <1>1, <1>2, <1>3
<1>4. CASE f # Peer(e)
  <2>1. eof'[f] = eof[f] /\ life'[Peer(f)] = life[Peer(f)]
    BY <1>1, <1>2, <1>4
  <2> QED
    BY <2>1 DEF EndTold
<1> QED
  BY <1>3, <1>4

\* The end of the stream follows the destroying of the peer, always.
LEMMA EndSteps ==
  LifeType /\ FlagType /\ (\A e \in End : EndTold(e)) /\ [Next]_vars
    => \A e \in End : EndTold(e)'
<1> SUFFICES ASSUME LifeType, FlagType, \A e \in End : EndTold(e), [Next]_vars
             PROVE  \A e \in End : EndTold(e)'
  OBVIOUS
<1>1. ASSUME UNCHANGED <<life, eof>> PROVE \A e \in End : EndTold(e)'
  BY <1>1 DEF EndTold
<1>2. ASSUME NEW e \in End, NEW d, Gone(e, d) PROVE \A f \in End : EndTold(f)'
  BY <1>2, GoneEnd
<1>3. ASSUME NEW e \in End, life[e] # "destroyed", life' = [life EXCEPT ![e] = "open"], eof' = eof
      PROVE  \A f \in End : EndTold(f)'
  <2> SUFFICES ASSUME NEW f \in End PROVE eof'[f] <=> life'[Peer(f)] = "destroyed"
    BY DEF EndTold
  <2>1. Peer(f) \in End /\ life \in [End -> {"none", "connecting", "open", "destroyed"}]
    BY PeerOther DEF LifeType
  <2>2. life'[Peer(f)] = "destroyed" <=> life[Peer(f)] = "destroyed"
    BY <1>3, <2>1
  <2> QED
    BY <1>3, <2>2 DEF EndTold
<1>4. ASSUME NEW m \in Msg, Send(From[type][m], m) PROVE \A e \in End : EndTold(e)'
  <2>1. PICK e \in End : e = From[type][m] /\ Send(e, m)
    BY <1>4, SenderEnd
  <2> QED
    BY <2>1, <1>1, <1>2 DEF Send, SendQueued, SendWritten, SendThrows
<1>5. CASE Dial \/ Wake \/ UNCHANGED vars
  BY <1>1, <1>5 DEF Dial, Wake, vars, socks
<1>6. CASE Accept
  BY <1>3, <1>6 DEF Accept, End
<1>7. ASSUME NEW j, NEW n, Connected(j, n) PROVE \A e \in End : EndTold(e)'
  <2>1. "a" \in End /\ life["a"] # "destroyed"
    BY <1>7 DEF Connected, End
  <2>2. \/ Gone("a", Notified("b", Listened("a")))
        \/ life' = [life EXCEPT !["a"] = "open"] /\ eof' = eof
    BY <1>7 DEF Connected
  <2> QED
    BY <1>2, <1>3, <2>1, <2>2
<1>8. ASSUME NEW e \in End, Writing(e) PROVE \A f \in End : EndTold(f)'
  BY <1>1, <1>2, <1>8 DEF Writing, OnWritable
<1>9. ASSUME NEW e \in End, NEW j, NEW n, DestroySoon(e, j, n) PROVE \A f \in End : EndTold(f)'
  BY <1>1, <1>2, <1>9 DEF DestroySoon
<1>10. ASSUME NEW e \in End, OnReadable(e) \/ Pause(e) \/ Resume(e) \/ StaleNotification(e)
       PROVE  \A f \in End : EndTold(f)'
  BY <1>1, <1>10 DEF OnReadable, Pause, Resume, StaleNotification, socks
<1>11. ASSUME NEW e \in End, RecvThrows(e) \/ OnEnd(e) \/ FlushThrows(e) \/ Destroy(e)
       PROVE  \A f \in End : EndTold(f)'
  BY <1>2, <1>11 DEF RecvThrows, OnEnd, FlushThrows, Destroy
<1> QED
  BY <1>4, <1>5, <1>6, <1>7, <1>8, <1>9, <1>10, <1>11 DEF Next, Callback, Connecting

LEMMA FlushQueue ==
  ASSUME SendType, WireType, NEW e \in End, NEW j, NEW n, Flush(e, j, n)
  PROVE  /\ j \in 0 .. Len(sendq[e])
         /\ sendq'[e] # <<>> <=> j < Len(sendq[e])
         /\ \A f \in End : f # e => sendq'[f] = sendq[f]
         /\ j = Len(sendq[e]) <=> ~(j < Len(sendq[e]))
<1>1. sendq \in [End -> Seq(Msg)] /\ sendq[e] \in Seq(Msg) /\ Len(sendq[e]) \in Nat
  BY DEF SendType
<1>2. j \in 0 .. Len(sendq[e])
  BY <1>1, TransmitWire DEF Flush
<1>3. PICK t \in Seq(Msg) : /\ t = SubSeq(sendq[e], j + 1, Len(sendq[e]))
                            /\ Len(t) = Len(sendq[e]) - j
                            /\ t # <<>> <=> j < Len(sendq[e])
  BY <1>1, <1>2, SuffixType
<1>4. sendq' = [sendq EXCEPT ![e] = t]
  BY <1>3 DEF Flush
<1>5. sendq'[e] = t /\ \A f \in End : f # e => sendq'[f] = sendq[f]
  BY <1>1, <1>4
<1> QED
  BY <1>1, <1>2, <1>3, <1>5

LEMMA GoneWaits ==
  ASSUME LifeType, FlagType, NEW e \in End, NEW d, Gone(e, d), type' = type,
         \A f \in End : WaitsFor(f),
         \A f \in End : f # e => sendq'[f] = sendq[f] /\ soon'[f] = soon[f]
  PROVE  \A f \in End : WaitsFor(f)'
<1>1. /\ life' = [life EXCEPT ![e] = "destroyed"]
      /\ rwatch' = [rwatch EXCEPT ![e] = FALSE] /\ wwatch' = [wwatch EXCEPT ![e] = FALSE]
      /\ life \in [End -> {"none", "connecting", "open", "destroyed"}]
      /\ rwatch \in [End -> BOOLEAN] /\ wwatch \in [End -> BOOLEAN]
  BY DEF Gone, LifeType, FlagType
<1> TAKE f \in End
<1>2. CASE f = e
  <2>1. life'[f] = "destroyed" /\ ~rwatch'[f]
    BY <1>1, <1>2
  <2> QED
    BY <2>1 DEF WaitsFor
<1>3. CASE f # e
  <2>1. /\ life'[f] = life[f] /\ rwatch'[f] = rwatch[f] /\ wwatch'[f] = wwatch[f]
        /\ sendq'[f] = sendq[f] /\ soon'[f] = soon[f]
    BY <1>1, <1>3
  <2> QED
    BY <2>1 DEF WaitsFor, Native
<1> QED
  BY <1>2, <1>3

\* All but the end that acts keep what they have.
LEMMA OthersWait ==
  ASSUME NEW e \in End, type' = type, \A f \in End : WaitsFor(f), WaitsFor(e)',
         \A f \in End : f # e =>
           /\ life'[f] = life[f] /\ rwatch'[f] = rwatch[f] /\ wwatch'[f] = wwatch[f]
           /\ sendq'[f] = sendq[f] /\ soon'[f] = soon[f]
  PROVE  \A f \in End : WaitsFor(f)'
<1> TAKE f \in End
<1>1. CASE f = e
  BY <1>1
<1>2. CASE f # e
  BY <1>2 DEF WaitsFor, Native
<1> QED
  BY <1>1, <1>2

LEMMA WaitsSteps ==
  TypeInv /\ (\A e \in End : WaitsFor(e)) /\ [Next]_vars => \A e \in End : WaitsFor(e)'
<1> SUFFICES ASSUME TypeInv, \A e \in End : WaitsFor(e), [Next]_vars
             PROVE  \A e \in End : WaitsFor(e)'
  OBVIOUS
<1>1. SendType /\ WireType /\ LifeType /\ FlagType
  BY DEF TypeInv
<1>2. /\ life \in [End -> {"none", "connecting", "open", "destroyed"}]
      /\ rwatch \in [End -> BOOLEAN] /\ wwatch \in [End -> BOOLEAN] /\ soon \in [End -> BOOLEAN]
      /\ sendq \in [End -> Seq(Msg)]
  BY <1>1 DEF LifeType, FlagType, SendType
<1>3. ASSUME UNCHANGED <<type, life, rwatch, wwatch, soon, sendq>>
      PROVE  \A e \in End : WaitsFor(e)'
  BY <1>3 DEF WaitsFor, Native
<1>4. ASSUME NEW e \in End, NEW d, Gone(e, d), type' = type,
             \A f \in End : f # e => sendq'[f] = sendq[f] /\ soon'[f] = soon[f]
      PROVE  \A f \in End : WaitsFor(f)'
  BY <1>1, <1>4, GoneWaits
<1>5. ASSUME NEW m \in Msg, Send(From[type][m], m) PROVE \A e \in End : WaitsFor(e)'
  <2>1. PICK e \in End : e = From[type][m] /\ Send(e, m)
    BY <1>1, <1>5, SenderEnd
  <2>2. type' = type /\ life[e] # "none"
    BY <2>1 DEF Send
  <2>3. CASE SendQueued(e, m)
    <3>1. /\ Queueing(e) /\ UNCHANGED <<life, wwatch, rwatch, soon>>
          /\ sendq' = [sendq EXCEPT ![e] = Append(sendq[e], m)]
      BY <2>3 DEF SendQueued
    <3>2. sendq'[e] # <<>> /\ \A f \in End : f # e => sendq'[f] = sendq[f]
      <4>1. sendq[e] \in Seq(Msg)
        BY <1>2
      <4>2. Append(sendq[e], m) # <<>>
        BY <4>1
      <4> QED
        BY <1>2, <3>1, <4>2
    <3>3. WaitsFor(e)'
      BY <2>2, <3>1, <3>2 DEF WaitsFor, Native, Queueing
    <3> QED
      BY <2>2, <3>1, <3>2, <3>3, OthersWait
  <2>4. CASE SendThrows(e, m)
    <3>1. Gone(e, due) /\ \A f \in End : f # e => sendq'[f] = sendq[f] /\ soon'[f] = soon[f]
      BY <1>2, <2>4 DEF SendThrows
    <3> QED
      BY <1>4, <2>2, <3>1
  <2>5. ASSUME NEW j, NEW n, SendWritten(e, m, j, n) PROVE \A f \in End : WaitsFor(f)'
    <3>1. /\ life[e] = "open" /\ sendq[e] = <<>> /\ UNCHANGED <<life, rwatch, soon>>
          /\ sendq' = [sendq EXCEPT ![e] = IF j = 1 THEN <<>> ELSE Requeued(m)]
          /\ wwatch' = [wwatch EXCEPT ![e] = wwatch[e] \/ j = 0]
      BY <2>5 DEF SendWritten, Queueing
    <3>2. j \in 0 .. 1
      <4>1. <<m>> \in Seq(Msg) /\ Len(<<m>>) = 1
        OBVIOUS
      <4> QED
        BY <1>1, <2>5, <4>1, TransmitWire DEF SendWritten
    <3>3. sendq'[e] # <<>> => wwatch'[e]
      <4>1. CASE j = 1
        BY <1>2, <3>1, <4>1
      <4>2. CASE j = 0
        <5>1. wwatch' = [wwatch EXCEPT ![e] = TRUE]
          BY <3>1, <4>2
        <5> QED
          BY <1>2, <5>1
      <4> QED
        BY <3>2, <4>1, <4>2
    <3>4. \A f \in End : f # e => sendq'[f] = sendq[f] /\ wwatch'[f] = wwatch[f]
      BY <1>2, <3>1
    <3>5. ~soon[e]
      BY <3>1 DEF WaitsFor
    <3>6. WaitsFor(e)'
      BY <3>1, <3>3, <3>5 DEF WaitsFor
    <3> QED
      BY <2>2, <3>1, <3>4, <3>6, OthersWait
  <2> QED
    BY <2>1, <2>3, <2>4, <2>5 DEF Send
<1>6. CASE Wake \/ UNCHANGED vars
  BY <1>3, <1>6 DEF Wake, vars, socks
<1>7. CASE Dial
  <2>1. /\ UNCHANGED <<type, life, rwatch, soon, sendq>> /\ life["a"] = "connecting"
        /\ wwatch' = [wwatch EXCEPT !["a"] = TRUE] /\ "a" \in End
    BY <1>7 DEF Dial, End
  <2>2. \A f \in End : f # "a" => wwatch'[f] = wwatch[f]
    BY <1>2, <2>1
  <2>3. WaitsFor("a")'
    BY <2>1 DEF WaitsFor
  <2> QED
    BY <2>1, <2>2, <2>3, OthersWait
<1>8. CASE Accept
  <2>1. /\ UNCHANGED <<type, wwatch, soon, sendq>> /\ life["b"] = "none" /\ "b" \in End
        /\ life' = [life EXCEPT !["b"] = "open"] /\ rwatch' = [rwatch EXCEPT !["b"] = TRUE]
    BY <1>8 DEF Accept, Started, End
  <2>2. /\ life'["b"] = "open" /\ sendq'["b"] = <<>> /\ ~soon'["b"]
        /\ \A f \in End : f # "b" => life'[f] = life[f] /\ rwatch'[f] = rwatch[f]
    BY <1>2, <2>1 DEF WaitsFor
  <2>3. WaitsFor("b")'
    BY <2>2 DEF WaitsFor
  <2> QED
    BY <2>1, <2>2, <2>3, OthersWait
<1>9. ASSUME NEW j, NEW n, Connected(j, n) PROVE \A f \in End : WaitsFor(f)'
  <2>1. "a" \in End /\ type' = type /\ soon' = soon /\ life["a"] = "connecting" /\ Flush("a", j, n)
    BY <1>9 DEF Connected, End
  <2>2. /\ sendq'["a"] # <<>> <=> j < Len(sendq["a"])
        /\ \A f \in End : f # "a" => sendq'[f] = sendq[f]
        /\ j = Len(sendq["a"]) <=> ~(j < Len(sendq["a"]))
    BY <1>1, <2>1, FlushQueue
  <2>3. CASE Gone("a", Notified("b", Listened("a")))
    BY <1>4, <2>1, <2>2, <2>3
  <2>4. CASE /\ ~(sendq["a"] # <<>> /\ Flushed("a", j) /\ soon["a"])
             /\ life' = [life EXCEPT !["a"] = "open"] /\ Started("a")
             /\ wwatch' = [wwatch EXCEPT !["a"] = sendq["a"] = <<>> \/ ~Flushed("a", j)]
    <3>1. /\ life'["a"] = "open"
          /\ \A f \in End : f # "a" => /\ life'[f] = life[f] /\ rwatch'[f] = rwatch[f]
                                       /\ wwatch'[f] = wwatch[f]
      BY <1>2, <2>1, <2>4 DEF Started
    <3>2. sendq'["a"] # <<>> => wwatch'["a"]
      BY <1>2, <2>1, <2>2, <2>4 DEF Flushed
    <3>3. soon["a"] => sendq'["a"] # <<>>
      BY <2>1, <2>2, <2>4 DEF Flushed, WaitsFor
    <3>4. WaitsFor("a")'
      BY <2>1, <3>1, <3>2, <3>3 DEF WaitsFor
    <3> QED
      BY <2>1, <2>2, <3>1, <3>4, OthersWait
  <2> QED
    BY <1>9, <2>3, <2>4 DEF Connected
<1>10. ASSUME NEW e \in End, NEW j, NEW n, OnWritable(e, j, n) PROVE \A f \in End : WaitsFor(f)'
  <2>1. type' = type /\ soon' = soon /\ life[e] = "open" /\ Flush(e, j, n)
    BY <1>10 DEF OnWritable
  <2>2. /\ sendq'[e] # <<>> <=> j < Len(sendq[e])
        /\ \A f \in End : f # e => sendq'[f] = sendq[f]
        /\ j = Len(sendq[e]) <=> ~(j < Len(sendq[e]))
    BY <1>1, <2>1, FlushQueue
  <2>3. CASE Gone(e, due)
    BY <1>4, <2>1, <2>2, <2>3
  <2>4. CASE ~(Flushed(e, j) /\ soon[e]) /\ Rewatch(e, j) /\ UNCHANGED <<life, rwatch>>
    <3>1. \A f \in End : f # e => wwatch'[f] = wwatch[f]
      BY <1>2, <2>4 DEF Rewatch
    <3>2. sendq'[e] # <<>> => wwatch'[e]
      BY <1>2, <2>2, <2>4 DEF Rewatch
    <3>3. soon[e] => sendq'[e] # <<>>
      BY <2>2, <2>4 DEF Flushed
    <3>4. WaitsFor(e)'
      BY <2>1, <2>4, <3>2, <3>3 DEF WaitsFor
    <3> QED
      BY <2>1, <2>2, <2>4, <3>1, <3>4, OthersWait
  <2> QED
    BY <1>10, <2>3, <2>4 DEF OnWritable
<1>11. ASSUME NEW e \in End, NEW j, NEW n, DestroySoon(e, j, n) PROVE \A f \in End : WaitsFor(f)'
  <2>1. type' = type /\ life[e] \in {"connecting", "open"} /\ Flush(e, j, n)
    BY <1>11 DEF DestroySoon
  <2>2. /\ sendq'[e] # <<>> <=> j < Len(sendq[e])
        /\ \A f \in End : f # e => sendq'[f] = sendq[f]
        /\ j = Len(sendq[e]) <=> ~(j < Len(sendq[e]))
    BY <1>1, <2>1, FlushQueue
  <2>3. CASE soon' = soon /\ \E d : Gone(e, d)
    BY <1>4, <2>1, <2>2, <2>3
  <2>4. CASE /\ ~Flushed(e, j) /\ soon' = [soon EXCEPT ![e] = TRUE]
             /\ wwatch' = [wwatch EXCEPT ![e] = TRUE] /\ UNCHANGED <<life, rwatch>>
    <3>1. \A f \in End : f # e => wwatch'[f] = wwatch[f] /\ soon'[f] = soon[f]
      BY <1>2, <2>4
    <3>2. sendq'[e] # <<>> /\ wwatch'[e]
      BY <1>2, <2>2, <2>4 DEF Flushed
    <3>3. WaitsFor(e)'
      BY <2>1, <2>4, <3>2 DEF WaitsFor
    <3> QED
      BY <2>1, <2>2, <2>4, <3>1, <3>3, OthersWait
  <2> QED
    BY <1>11, <2>3, <2>4 DEF DestroySoon
<1>12. ASSUME NEW e \in End, Pause(e) \/ Resume(e) PROVE \A f \in End : WaitsFor(f)'
  <2>1. /\ UNCHANGED <<type, life, sendq, wwatch, soon>> /\ life[e] = "open"
        /\ \E r \in BOOLEAN : rwatch' = [rwatch EXCEPT ![e] = r]
    BY <1>12 DEF Pause, Resume, Started, Stopped
  <2>2. \A f \in End : f # e => rwatch'[f] = rwatch[f]
    BY <1>2, <2>1
  <2>3. WaitsFor(e)'
    BY <2>1 DEF WaitsFor, Native
  <2> QED
    BY <2>1, <2>2, <2>3, OthersWait
<1>13. ASSUME NEW e \in End, OnReadable(e) \/ StaleNotification(e) PROVE \A f \in End : WaitsFor(f)'
  BY <1>3, <1>13 DEF OnReadable, StaleNotification, socks
<1>14. ASSUME NEW e \in End, RecvThrows(e) \/ OnEnd(e) \/ FlushThrows(e) \/ Destroy(e)
       PROVE  \A f \in End : WaitsFor(f)'
  <2>1. type' = type /\ soon' = soon /\ \A f \in End : f # e => sendq'[f] = sendq[f]
    BY <1>2, <1>14 DEF RecvThrows, OnEnd, FlushThrows, Destroy
  <2>2. \E d : Gone(e, d)
    BY <1>14 DEF RecvThrows, OnEnd, FlushThrows, Destroy
  <2> QED
    BY <1>4, <2>1, <2>2
<1> QED
  BY <1>5, <1>6, <1>7, <1>8, <1>9, <1>10, <1>11, <1>12, <1>13, <1>14
  DEF Next, Callback, Connecting, Writing

\* Over mem, an end that is destroyed tells the other, or ends the process.
LEMMA GoneTold ==
  ASSUME TypeInv, ~Native, NEW e \in End, NEW d \in [End -> BOOLEAN],
         Gone(e, d), ~down', Remember, type' = type, \A f \in End : WaitsFor(f)
  PROVE  \A f \in End : Told(f)'
<1> TAKE f \in End
<1>1. /\ life' = [life EXCEPT ![e] = "destroyed"] /\ rwatch' = [rwatch EXCEPT ![e] = FALSE]
      /\ eof' = [eof EXCEPT ![Peer(e)] = TRUE]
      /\ life \in [End -> {"none", "connecting", "open", "destroyed"}]
      /\ rwatch \in [End -> BOOLEAN] /\ eof \in [End -> BOOLEAN]
  BY DEF Gone, TypeInv, LifeType, FlagType
<1>2. Peer(e) \in End /\ Peer(e) # e /\ (f = e \/ f = Peer(e))
  BY PeerOther DEF End, Peer
<1>3. CASE f = e
  <2>1. life'[f] = "destroyed"
    BY <1>1, <1>3
  <2> QED
    BY <2>1 DEF Told
<1>4. CASE f = Peer(e)
  <2>1. /\ life'[f] = life[f] /\ rwatch'[f] = rwatch[f] /\ eof'[f]
    BY <1>1, <1>2, <1>4
  <2>2. CASE rwatch[f]
    <3>1. Linked(e)
      BY DEF Gone
    <3>2. Listened(e)
      BY <1>4, <2>2, <3>1 DEF Listened
    <3>3. due' = [d EXCEPT ![f] = TRUE]
      BY <1>4, <3>2 DEF Gone
    <3>4. due'[f]
      BY <3>3
    <3> QED
      BY <2>1, <2>2, <3>4 DEF Told
  <2>3. CASE ~rwatch[f]
    <3>1. life[f] # "destroyed" => missed'[f]
      <4>1. missed'[f] <=> \/ missed[f]
                           \/ ~Native /\ life'[f] # "destroyed" /\ ~rwatch'[f]
                              /\ (wire'[f] # <<>> \/ eof'[f])
        BY DEF Remember
      <4> QED
        BY <4>1, <2>1, <2>3
    <3> QED
      BY <2>1, <3>1 DEF Told
  <2> QED
    BY <2>2, <2>3
<1> QED
  BY <1>2, <1>3, <1>4

\* A mem end of which nothing changes is as well informed as before.
LEMMA SameTold ==
  ASSUME NEW f \in End, Told(f), missed[f] => missed'[f],
         life'[f] = life[f], rwatch'[f] = rwatch[f], eof'[f] = eof[f],
         wire'[f] = wire[f], due'[f] = due[f]
  PROVE  Told(f)'
BY DEF Told

LEMMA Remembered ==
  ASSUME Remember, NEW f \in End
  PROVE  missed'[f] <=> \/ missed[f]
                        \/ ~Native /\ life'[f] # "destroyed" /\ ~rwatch'[f]
                           /\ (wire'[f] # <<>> \/ eof'[f])
BY DEF Remember

\* Who is written to over mem is told of it, or does not listen.
LEMMA WriteTold ==
  ASSUME TypeInv, ~Native, NEW e \in End, NEW q \in Seq(Msg), NEW j, NEW n, NEW b,
         Transmit(e, q, j, n), due' = Notified(Peer(e), b), b <=> q # <<>> /\ Listened(e),
         Remember, EndTold(e), Told(Peer(e)),
         life'[Peer(e)] = life[Peer(e)], rwatch'[Peer(e)] = rwatch[Peer(e)], eof' = eof
  PROVE  Told(Peer(e))' /\ due'[e] = due[e] /\ wire'[e] = wire[e]
<1>1. PICK f \in End : f = Peer(e) /\ f # e
  BY PeerOther
<1>2. /\ wire'[e] = wire[e]
      /\ Kept(e, q) => wire'[f] # <<>>
      /\ Listened(e) /\ q # <<>> /\ ~eof[e] => wire'[f] # <<>>
      /\ q = <<>> \/ ~Linked(e) => wire' = wire
  BY <1>1, TransmitWire DEF TypeInv
<1>3. due \in [End -> BOOLEAN]
  BY DEF TypeInv, FlagType
<1>4. due' = IF b /\ rwatch[f] THEN [due EXCEPT ![f] = TRUE] ELSE due
  BY <1>1 DEF Notified
<1>5. due'[e] = due[e]
  BY <1>1, <1>3, <1>4
<1>6. missed'[f] <=> \/ missed[f]
                     \/ ~Native /\ life'[f] # "destroyed" /\ ~rwatch'[f]
                        /\ (wire'[f] # <<>> \/ eof'[f])
  BY Remembered
<1>7. CASE q = <<>> \/ ~Linked(e)
  <2>1. wire' = wire /\ ~b
    BY <1>2, <1>7 DEF Listened
  <2>2. due' = due
    BY <1>4, <2>1
  <2> QED
    BY <1>1, <1>2, <1>5, <1>6, <2>1, <2>2, SameTold
<1>8. CASE q # <<>> /\ Listened(e)
  <2>1. life[f] # "destroyed" /\ rwatch[f]
    BY <1>1, <1>8 DEF Listened, Linked
  <2>2. ~eof[e]
    BY <1>1, <2>1 DEF EndTold
  <2>3. wire'[f] # <<>>
    BY <1>2, <1>8, <2>2
  <2>4. due' = [due EXCEPT ![f] = TRUE]
    BY <1>4, <1>8, <2>1
  <2>5. due'[f]
    BY <1>3, <2>4
  <2>6. Told(f)'
    BY <1>1, <2>1, <2>3, <2>5 DEF Told
  <2> QED
    BY <1>1, <1>2, <1>5, <2>6
<1>9. CASE q # <<>> /\ Linked(e) /\ ~Listened(e)
  <2>1. Kept(e, q) /\ ~rwatch[f] /\ life[f] # "destroyed"
    BY <1>1, <1>9 DEF Kept, Listened, Linked
  <2>2. missed'[f]
    BY <1>1, <1>2, <1>6, <2>1
  <2>3. Told(f)'
    BY <2>2 DEF Told
  <2> QED
    BY <1>1, <1>2, <1>5, <2>3
<1> QED
  BY <1>7, <1>8, <1>9

LEMMA ToldSteps ==
  ASSUME TypeInv, ~Native, ~down', [Next]_vars,
         \A e \in End : EndTold(e), \A e \in End : WaitsFor(e), \A e \in End : Told(e)
  PROVE  \A e \in End : Told(e)'
<1>1. /\ life \in [End -> {"none", "connecting", "open", "destroyed"}]
      /\ rwatch \in [End -> BOOLEAN] /\ due \in [End -> BOOLEAN] /\ missed \in [End -> BOOLEAN]
      /\ sendq \in [End -> Seq(Msg)] /\ wire \in [End -> Seq(Byte)]
      /\ \A m \in Msg : <<m>> \in Seq(Msg) /\ <<m>> # <<>>
  BY DEF TypeInv, LifeType, FlagType, SendType, WireType
<1>2. \A e \in End : Peer(e) \in End /\ \A f \in End : f = e \/ f = Peer(e)
  BY DEF End, Peer
<1>3. ASSUME UNCHANGED <<life, rwatch, eof, wire, due>>, Remember \/ missed' = missed
      PROVE  \A e \in End : Told(e)'
  <2> TAKE e \in End
  <2>1. missed[e] => missed'[e]
    BY <1>3, Remembered
  <2> QED
    BY <1>3, <2>1, SameTold
<1>4. ASSUME NEW e \in End, NEW d \in [End -> BOOLEAN], Gone(e, d), Remember, type' = type
      PROVE  \A f \in End : Told(f)'
  BY <1>4, GoneTold
<1>5. ASSUME NEW e \in End, NEW q \in Seq(Msg), NEW j, NEW n, NEW b,
             Transmit(e, q, j, n), due' = Notified(Peer(e), b), b <=> q # <<>> /\ Listened(e),
             Remember, UNCHANGED <<life, rwatch, eof>>
      PROVE  \A f \in End : Told(f)'
  <2>1. Told(Peer(e))' /\ due'[e] = due[e] /\ wire'[e] = wire[e]
    BY <1>2, <1>5, WriteTold
  <2>2. missed[e] => missed'[e]
    BY <1>5, Remembered
  <2>3. Told(e)'
    BY <1>5, <2>1, <2>2, SameTold
  <2> QED
    BY <1>2, <2>1, <2>3
<1>6. ASSUME NEW m \in Msg, Send(From[type][m], m) PROVE \A e \in End : Told(e)'
  <2>1. PICK e \in End : e = From[type][m] /\ Send(e, m)
    BY <1>6, SenderEnd DEF TypeInv
  <2>2. Remember
    BY <2>1 DEF Send
  <2>3. CASE SendQueued(e, m)
    BY <1>3, <2>2, <2>3 DEF SendQueued
  <2>4. ~SendThrows(e, m)
    BY DEF SendThrows
  <2>5. ASSUME NEW j, NEW n, SendWritten(e, m, j, n) PROVE \A f \in End : Told(f)'
    <3>1. /\ Transmit(e, <<m>>, j, n) /\ due' = Notified(Peer(e), Listened(e))
          /\ UNCHANGED <<life, rwatch, eof>>
      BY <2>5 DEF SendWritten
    <3> QED
      BY <1>1, <1>5, <2>2, <3>1
  <2> QED
    BY <2>1, <2>3, <2>4, <2>5 DEF Send
<1>7. CASE Dial \/ Wake \/ UNCHANGED vars
  BY <1>3, <1>7 DEF Dial, Wake, vars, socks, mems
<1>8. ASSUME NEW e \in End, life[e] # "destroyed", ~rwatch[e], life'[e] = "open", rwatch'[e],
             wire'[e] = wire[e], eof'[e] = eof[e], due'[e] = due[e], missed[e] => missed'[e]
      PROVE  Told(e)'
  BY <1>8 DEF Told
<1>9. CASE Accept
  <2>1. /\ life' = [life EXCEPT !["b"] = "open"] /\ rwatch' = [rwatch EXCEPT !["b"] = TRUE]
        /\ life["b"] = "none" /\ "b" \in End /\ UNCHANGED <<wire, eof, due, missed>>
    BY <1>9 DEF Accept, Started, End
  <2>2. ~rwatch["b"]
    BY <2>1 DEF WaitsFor
  <2>3. life'["b"] = "open" /\ rwatch'["b"]
    BY <1>1, <2>1
  <2>4. Told("b")'
    BY <1>8, <2>1, <2>2, <2>3
  <2>5. ASSUME NEW f \in End, f # "b" PROVE Told(f)'
    <3>1. life'[f] = life[f] /\ rwatch'[f] = rwatch[f]
      BY <1>1, <2>1, <2>5
    <3> QED
      BY <2>1, <3>1, SameTold
  <2> QED
    BY <2>4, <2>5
<1>10. ASSUME NEW j, NEW n, Connected(j, n) PROVE \A f \in End : Told(f)'
  <2>1. /\ "a" \in End /\ "b" \in End /\ Peer("a") = "b" /\ life["a"] = "connecting" /\ type' = type
        /\ Transmit("a", sendq["a"], j, n) /\ Remember
    BY <1>10 DEF Connected, Flush, End, Peer
  <2>2. CASE Gone("a", Notified("b", Listened("a")))
    <3>1. Notified("b", Listened("a")) \in [End -> BOOLEAN]
      BY <1>1, <2>1, NotifiedType
    <3> QED
      BY <1>4, <2>1, <2>2, <3>1
  <2>3. CASE /\ life' = [life EXCEPT !["a"] = "open"] /\ Started("a")
             /\ due' = Notified("b", sendq["a"] # <<>> /\ Listened("a"))
             /\ eof' = eof
    <3>1. life'["b"] = life["b"] /\ rwatch'["b"] = rwatch["b"]
          /\ life'["a"] = "open" /\ rwatch'["a"]
      BY <1>1, <2>1, <2>3 DEF Started
    <3>2. sendq["a"] \in Seq(Msg)
      BY <1>1, <2>1
    <3>3. PICK b : b <=> sendq["a"] # <<>> /\ Listened("a")
      OBVIOUS
    <3>4. due' = Notified(Peer("a"), sendq["a"] # <<>> /\ Listened("a"))
      BY <2>1, <2>3
    <3>5. Told(Peer("a"))' /\ due'["a"] = due["a"] /\ wire'["a"] = wire["a"]
      BY <2>1, <2>3, <3>1, <3>2, <3>4, WriteTold
    <3>6. ~rwatch["a"]
      BY <2>1 DEF WaitsFor
    <3>7. missed["a"] => missed'["a"]
      BY <2>1, Remembered
    <3>8. Told("a")'
      BY <1>8, <2>1, <2>3, <3>1, <3>5, <3>6, <3>7
    <3> QED
      BY <1>2, <2>1, <3>5, <3>8
  <2> QED
    BY <1>10, <2>2, <2>3 DEF Connected
<1>11. ASSUME NEW e \in End, NEW j, NEW n, DestroySoon(e, j, n) PROVE \A f \in End : Told(f)'
  <2>1. Transmit(e, sendq[e], j, n) /\ Remember /\ type' = type /\ sendq[e] \in Seq(Msg)
    BY <1>1, <1>11 DEF DestroySoon, Flush
  <2>2. PICK d \in [End -> BOOLEAN] : d = Notified(Peer(e), sendq[e] # <<>> /\ Listened(e))
    BY <1>1, <1>2, NotifiedType
  <2>3. CASE Gone(e, d)
    BY <1>4, <2>1, <2>3
  <2>4. CASE due' = d /\ UNCHANGED <<life, rwatch, eof>>
    BY <1>5, <2>1, <2>2, <2>4
  <2> QED
    BY <1>11, <2>2, <2>3, <2>4 DEF DestroySoon
<1>12. ASSUME NEW e \in End, Destroy(e) \/ OnEnd(e) PROVE \A f \in End : Told(f)'
  <2>1. PICK d \in [End -> BOOLEAN] : Gone(e, d)
    BY <1>1, <1>12 DEF Destroy, OnEnd
  <2>2. Remember /\ type' = type
    BY <1>12 DEF Destroy, OnEnd
  <2> QED
    BY <1>4, <2>1, <2>2
<1>13. ASSUME NEW e \in End, RecvThrows(e) PROVE \A f \in End : Told(f)'
  <2>1. PICK d : d = Reread(e, Amount(e))
    OBVIOUS
  <2>2. Gone(e, d) /\ Remember /\ type' = type
    BY <1>13, <2>1 DEF RecvThrows
  <2>3. d \in [End -> BOOLEAN]
    <3>1. (rwatch[e] /\ (Amount(e) < Len(wire[e]) \/ eof[e])) \in BOOLEAN
      OBVIOUS
    <3> QED
      BY <1>1, <2>1, <3>1, FlagAt DEF Reread
  <2> QED
    BY <1>4, <2>2, <2>3
<1>14. ASSUME NEW e \in End, OnReadable(e) PROVE \A f \in End : Told(f)'
  <2>1. /\ due[e] /\ Remember /\ UNCHANGED <<type, life, rwatch, eof>>
        /\ wire' = [wire EXCEPT ![e] = SubSeq(wire[e], Amount(e) + 1, Len(wire[e]))]
        /\ due' = Reread(e, Amount(e))
    BY <1>14 DEF OnReadable, Readable, socks
  <2>2. wire'[e] # <<>> <=> Amount(e) < Len(wire[e])
    BY <2>1, TakenWire DEF TypeInv
  <2>3. due' = [due EXCEPT ![e] = rwatch[e] /\ (Amount(e) < Len(wire[e]) \/ eof[e])]
    BY <2>1 DEF Reread
  <2>4. due'[e] <=> rwatch[e] /\ (wire'[e] # <<>> \/ eof[e])
    BY <1>1, <2>2, <2>3
  <2>5. missed[e] => missed'[e]
    BY <2>1, Remembered
  <2>6. ~missed[e] /\ life[e] # "destroyed" => rwatch[e]
    BY <2>1 DEF Told
  <2>7. Told(e)'
    BY <2>1, <2>4, <2>5, <2>6 DEF Told
  <2>8. ASSUME NEW f \in End, f # e PROVE Told(f)'
    <3>1. wire'[f] = wire[f] /\ due'[f] = due[f] /\ (missed[f] => missed'[f])
      BY <1>1, <2>1, <2>3, <2>8, Remembered
    <3> QED
      BY <2>1, <3>1, SameTold
  <2> QED
    BY <2>7, <2>8
<1>15. ASSUME NEW e \in End, Pause(e) PROVE \A f \in End : Told(f)'
  <2>1. /\ Remember /\ UNCHANGED <<life, wire, eof, due>> /\ rwatch[e] /\ life[e] = "open"
        /\ rwatch' = [rwatch EXCEPT ![e] = FALSE]
    BY <1>15 DEF Pause, Stopped
  <2>2. ~rwatch'[e] /\ \A f \in End : f # e => rwatch'[f] = rwatch[f]
    BY <1>1, <2>1
  <2>3. \A f \in End : missed[f] => missed'[f]
    BY <2>1, Remembered
  <2>4. missed'[e] <=> missed[e] \/ wire[e] # <<>> \/ eof[e]
    BY <2>1, <2>2, Remembered
  <2>5. Told(e)'
    BY <2>1, <2>2, <2>4 DEF Told
  <2> QED
    BY <2>1, <2>2, <2>3, <2>5, SameTold
<1>16. ASSUME NEW e \in End, Resume(e) PROVE \A f \in End : Told(f)'
  <2>1. /\ UNCHANGED <<life, wire, eof, due, missed>> /\ ~rwatch[e] /\ life[e] = "open"
        /\ rwatch' = [rwatch EXCEPT ![e] = TRUE]
    BY <1>16 DEF Resume, Started, mems
  <2>2. rwatch'[e] /\ \A f \in End : f # e => rwatch'[f] = rwatch[f]
    BY <1>1, <2>1
  <2>3. Told(e)'
    BY <1>8, <2>1, <2>2
  <2> QED
    BY <2>1, <2>2, <2>3, SameTold
<1>17. ASSUME NEW e \in End PROVE ~StaleNotification(e) /\ ~FlushThrows(e) /\ ~Writing(e)
  BY DEF StaleNotification, FlushThrows, Writing, OnWritable
<1> QED
  BY <1>6, <1>7, <1>9, <1>10, <1>11, <1>12, <1>13, <1>14, <1>15, <1>16, <1>17
  DEF Next, Callback, Connecting

\* Over mem, a transmission takes the whole queue or nothing at all.
LEMMA MemTransmit ==
  ASSUME ~Native, SendType, NEW e \in End, NEW q \in Seq(Msg), NEW j, NEW n,
         Transmit(e, q, j, n), \A m \in Msg : off[m] = 0
  PROVE  /\ n = 0 /\ \A m \in Msg : off'[m] = 0
         /\ j < Len(q) => ~Listened(e) /\ q # <<>>
<1>1. n = 0 /\ j = (IF Listened(e) THEN Len(q) ELSE 0) /\ j \in 0 .. Len(q) /\ Len(q) \in Nat
  BY DEF Transmit, Reaches
<1>2. off \in [Msg -> Nat]
  BY DEF SendType
<1>3. j < Len(q) => ~Listened(e) /\ q # <<>>
  BY <1>1
<1>4. ASSUME NEW m \in Msg PROVE off'[m] = 0
  <2>1. CASE j < Len(q)
    <3>1. q[j + 1] \in Msg
      BY <1>1, <2>1
    <3>2. off' = [off EXCEPT ![q[j + 1]] = off[q[j + 1]] + 0]
      BY <1>1, <2>1 DEF Transmit
    <3> QED
      BY <1>2, <3>1, <3>2
  <2>2. CASE ~(j < Len(q))
    BY <2>2 DEF Transmit
  <2> QED
    BY <2>1, <2>2
<1> QED
  BY <1>1, <1>3, <1>4

LEMMA MemSteps ==
  ASSUME TypeInv, ~Native, MemInv, \A e \in End : EndTold(e), \A e \in End : WaitsFor(e), Next
  PROVE  MemInv'
<1>1. SendType /\ WireType /\ LifeType /\ FlagType
  BY DEF TypeInv
<1>2. /\ life \in [End -> {"none", "connecting", "open", "destroyed"}]
      /\ sendq \in [End -> Seq(Msg)] /\ doubled \in [End -> BOOLEAN] /\ eof \in [End -> BOOLEAN]
      /\ "a" \in End /\ "b" \in End /\ "a" # "b"
  BY <1>1 DEF LifeType, FlagType, SendType, End
<1>3. /\ \A m \in Msg : off[m] = 0
      /\ life["a"] = "open" \/ shake \in {"accepted", "notified"} => life["b"] # "none"
      /\ \A e \in End : Rests(e)
  BY DEF MemInv
<1>4. ASSUME off' = off, shake' = shake, sendq' = sendq, life' = life, eof' = eof, doubled' = doubled
      PROVE  MemInv'
  BY <1>3, <1>4 DEF MemInv, Rests
<1>5. ASSUME NEW e \in End, NEW d, Gone(e, d), \A m \in Msg : off'[m] = 0, shake' = shake \/ shake' = "done",
             \A f \in End : f # e => sendq'[f] = sendq[f] /\ (doubled[f] => doubled'[f])
      PROVE  MemInv'
  <2>1. life' = [life EXCEPT ![e] = "destroyed"] /\ eof' = [eof EXCEPT ![Peer(e)] = TRUE]
    BY <1>5 DEF Gone
  <2>2. life'[e] = "destroyed" /\ \A f \in End : f # e => life'[f] = life[f]
    BY <1>2, <2>1
  <2>3. \A f \in End : eof[f] => eof'[f]
    BY <1>2, <2>1
  <2>4. life'["a"] = "open" \/ shake' \in {"accepted", "notified"} => life'["b"] # "none"
    BY <1>2, <1>3, <1>5, <2>2
  <2>5. ASSUME NEW f \in End PROVE Rests(f)'
    <3>1. CASE f = e
      BY <2>2, <3>1 DEF Rests
    <3>2. CASE f # e
      BY <1>3, <1>5, <2>2, <2>3, <3>2 DEF Rests
    <3> QED
      BY <3>1, <3>2
  <2> QED
    BY <1>5, <2>4, <2>5 DEF MemInv
<1>6. ASSUME NEW m \in Msg, Send(From[type][m], m) PROVE MemInv'
  <2>1. PICK e \in End : e = From[type][m] /\ Send(e, m)
    BY <1>1, <1>6, SenderEnd
  <2>2. shake' = shake
    BY <2>1 DEF Send
  <2>3. CASE SendQueued(e, m)
    <3>1. /\ Queueing(e) /\ UNCHANGED <<life, off, eof, doubled>>
          /\ sendq' = [sendq EXCEPT ![e] = Append(sendq[e], m)]
      BY <2>3 DEF SendQueued
    <3>2. \A f \in End : f # e => sendq'[f] = sendq[f]
      BY <1>2, <3>1
    <3>3. Rests(e)'
      BY <1>3, <3>1 DEF Rests, Queueing
    <3>4. \A f \in End : Rests(f)'
      BY <1>3, <3>1, <3>2, <3>3 DEF Rests
    <3> QED
      BY <1>3, <2>2, <3>1, <3>4 DEF MemInv
  <2>4. ~SendThrows(e, m)
    BY DEF SendThrows
  <2>5. ASSUME NEW j, NEW n, SendWritten(e, m, j, n) PROVE MemInv'
    <3>1. /\ Transmit(e, <<m>>, j, n) /\ UNCHANGED <<life, eof>>
          /\ sendq' = [sendq EXCEPT ![e] = IF j = 1 THEN <<>> ELSE Requeued(m)]
          /\ doubled' = [doubled EXCEPT ![e] = doubled[e] \/ (j = 0 /\ off'[m] = 0)]
      BY <2>5 DEF SendWritten
    <3>2. <<m>> \in Seq(Msg) /\ Len(<<m>>) = 1
      OBVIOUS
    <3>3. j \in 0 .. 1 /\ \A x \in Msg : off'[x] = 0
      BY <1>1, <1>3, <3>1, <3>2, MemTransmit, TransmitWire
    <3>4. sendq'[e] # <<>> => doubled'[e]
      <4>1. CASE j = 1
        BY <1>2, <3>1, <4>1
      <4>2. CASE j = 0
        BY <1>2, <3>1, <3>3, <4>2
      <4> QED
        BY <3>3, <4>1, <4>2
    <3>5. \A f \in End : f # e => sendq'[f] = sendq[f] /\ doubled'[f] = doubled[f]
      BY <1>2, <3>1
    <3>6. \A f \in End : Rests(f)'
      BY <1>3, <3>1, <3>4, <3>5 DEF Rests
    <3> QED
      BY <1>3, <2>2, <3>1, <3>3, <3>6 DEF MemInv
  <2> QED
    BY <2>1, <2>3, <2>4, <2>5 DEF Send
<1>7. CASE Dial
  <2>1. UNCHANGED <<life, off, eof, doubled, sendq>> /\ shake' = "pending"
    BY <1>7 DEF Dial
  <2> QED
    BY <1>3, <2>1 DEF MemInv, Rests
<1>8. CASE Accept
  <2>1. /\ UNCHANGED <<off, eof, doubled, sendq>> /\ life["b"] = "none"
        /\ life' = [life EXCEPT !["b"] = "open"]
    BY <1>8 DEF Accept
  <2>2. sendq["b"] = <<>> /\ life'["b"] = "open" /\ \A f \in End : f # "b" => life'[f] = life[f]
    BY <1>2, <2>1 DEF WaitsFor
  <2>3. \A f \in End : Rests(f)'
    BY <1>3, <2>1, <2>2 DEF Rests
  <2> QED
    BY <1>3, <2>1, <2>2, <2>3 DEF MemInv
<1>9. CASE Wake
  <2>1. UNCHANGED <<life, off, eof, doubled, sendq>> /\ shake = "accepted"
    BY <1>9 DEF Wake, socks
  <2> QED
    BY <1>3, <2>1 DEF MemInv, Rests
<1>10. ASSUME NEW j, NEW n, Connected(j, n) PROVE MemInv'
  <2>1. /\ life["a"] = "connecting" /\ shake = "notified" /\ shake' = "done" /\ Flush("a", j, n)
    BY <1>10 DEF Connected
  <2>2. /\ Transmit("a", sendq["a"], j, n)
        /\ doubled' = [doubled EXCEPT !["a"] = doubled["a"] \/ Kept("a", sendq["a"])]
    BY <2>1 DEF Flush
  <2>3. /\ \A m \in Msg : off'[m] = 0
        /\ j < Len(sendq["a"]) => ~Listened("a") /\ sendq["a"] # <<>>
    BY <1>1, <1>2, <1>3, <2>2, MemTransmit
  <2>4. /\ sendq'["a"] # <<>> <=> j < Len(sendq["a"])
        /\ \A f \in End : f # "a" => sendq'[f] = sendq[f]
    BY <1>1, <1>2, <2>1, FlushQueue
  <2>5. \A f \in End : doubled[f] => doubled'[f]
    BY <1>2, <2>2
  <2>6. CASE Gone("a", Notified("b", Listened("a")))
    BY <1>2, <1>5, <2>1, <2>3, <2>4, <2>5, <2>6
  <2>7. CASE life' = [life EXCEPT !["a"] = "open"] /\ eof' = eof
    <3>1. life'["b"] # "none" /\ life["b"] # "none" /\ \A f \in End : f # "a" => life'[f] = life[f]
      BY <1>2, <1>3, <2>1, <2>7
    <3>2. sendq'["a"] # <<>> => doubled'["a"] \/ eof["a"]
      <4> SUFFICES ASSUME sendq'["a"] # <<>>, ~eof["a"] PROVE doubled'["a"]
        OBVIOUS
      <4>1. ~Listened("a") /\ sendq["a"] # <<>>
        BY <2>3, <2>4
      <4>2. Peer("a") = "b" /\ life["b"] # "destroyed"
        BY <1>2 DEF EndTold, Peer
      <4>3. Kept("a", sendq["a"])
        BY <3>1, <4>1, <4>2 DEF Kept, Linked
      <4> QED
        BY <1>2, <2>2, <4>3
    <3>3. Rests("a")'
      BY <2>7, <3>2 DEF Rests
    <3>4. \A f \in End : Rests(f)'
      BY <1>3, <2>4, <2>5, <2>7, <3>1, <3>3 DEF Rests
    <3> QED
      BY <2>3, <3>1, <3>4 DEF MemInv
  <2> QED
    BY <1>10, <2>6, <2>7 DEF Connected
<1>11. ASSUME NEW e \in End, NEW j, NEW n, DestroySoon(e, j, n) PROVE MemInv'
  <2>1. shake' = shake /\ Flush(e, j, n)
    BY <1>11 DEF DestroySoon
  <2>2. /\ Transmit(e, sendq[e], j, n)
        /\ doubled' = [doubled EXCEPT ![e] = doubled[e] \/ Kept(e, sendq[e])]
    BY <2>1 DEF Flush
  <2>3. /\ \A m \in Msg : off'[m] = 0
        /\ j < Len(sendq[e]) => ~Listened(e) /\ sendq[e] # <<>>
    BY <1>1, <1>2, <1>3, <2>2, MemTransmit
  <2>4. /\ sendq'[e] # <<>> <=> j < Len(sendq[e])
        /\ \A f \in End : f # e => sendq'[f] = sendq[f]
    BY <1>1, <1>2, <2>1, FlushQueue
  <2>5. \A f \in End : doubled[f] => doubled'[f]
    BY <1>2, <2>2
  <2>6. CASE \E d : Gone(e, d)
    BY <1>5, <2>1, <2>3, <2>4, <2>5, <2>6
  <2>7. CASE UNCHANGED <<life, eof>>
    <3>1. \A f \in End : sendq'[f] # <<>> => sendq[f] # <<>>
      BY <2>3, <2>4
    <3>2. \A f \in End : Rests(f)'
      BY <1>3, <2>5, <2>7, <3>1 DEF Rests
    <3> QED
      BY <1>3, <2>1, <2>3, <2>7, <3>2 DEF MemInv
  <2> QED
    BY <1>11, <2>6, <2>7 DEF DestroySoon
<1>12. ASSUME NEW e \in End, OnReadable(e) \/ StaleNotification(e) \/ Pause(e) \/ Resume(e) PROVE MemInv'
  BY <1>4, <1>12 DEF OnReadable, StaleNotification, Pause, Resume, socks, mems
<1>13. ASSUME NEW e \in End, RecvThrows(e) \/ OnEnd(e) \/ Destroy(e) PROVE MemInv'
  <2>1. sendq' = sendq /\ off' = off /\ doubled' = doubled /\ shake' = shake
    BY <1>13 DEF RecvThrows, OnEnd, Destroy
  <2>2. \E d : Gone(e, d)
    BY <1>13 DEF RecvThrows, OnEnd, Destroy
  <2> QED
    BY <1>3, <1>5, <2>1, <2>2
<1>14. ASSUME NEW e \in End PROVE ~FlushThrows(e) /\ ~Writing(e)
  BY DEF FlushThrows, Writing, OnWritable
<1> QED
  BY <1>6, <1>7, <1>8, <1>9, <1>10, <1>11, <1>12, <1>13, <1>14 DEF Next, Callback, Connecting

LEMMA StallInit == Init => StallInv
<1> SUFFICES ASSUME Init PROVE StallInv
  OBVIOUS
<1>1. \A e \in End : /\ eof[e] = FALSE /\ due[e] = FALSE /\ rwatch[e] = FALSE /\ soon[e] = FALSE
                     /\ wire[e] = <<>> /\ sendq[e] = <<>>
                     /\ life[e] = IF e = "a" THEN "connecting" ELSE "none"
  BY DEF Init, Descriptors
<1>2. \A e \in End : e \in {"a", "b"} /\ Peer(e) \in End
  BY DEF End, Peer
<1>3. MemInv
  BY DEF Init, Descriptors, MemInv, Rests, End
<1> QED
  BY <1>1, <1>2, <1>3 DEF StallInv, EndTold, WaitsFor, Told

LEMMA StallSteps == TypeInv /\ StallInv /\ [Next]_vars => StallInv'
<1> SUFFICES ASSUME TypeInv, StallInv, [Next]_vars PROVE StallInv'
  OBVIOUS
<1>1. \A e \in End : EndTold(e)'
  BY EndSteps DEF StallInv, TypeInv
<1>2. \A e \in End : WaitsFor(e)'
  BY WaitsSteps DEF StallInv
<1>3. ASSUME ~Native' PROVE MemInv'
  <2>1. CASE UNCHANGED vars
    BY <1>3, <2>1 DEF StallInv, MemInv, Rests, Native, vars, socks, mems
  <2>2. CASE Next
    <3>1. type' = type
      BY <2>2, ZenonT(30)
      DEF Next, Callback, Connecting, Writing, Send, Dial, Accept, Wake, Connected, OnWritable,
        OnReadable, RecvThrows, OnEnd, FlushThrows, StaleNotification, Pause, Resume, Destroy,
        DestroySoon
    <3> QED
      BY <1>3, <2>2, <3>1, MemSteps DEF StallInv, Native
  <2> QED
    BY <2>1, <2>2
<1>4. ASSUME ~down', ~Native' PROVE \A e \in End : Told(e)'
  <2>1. CASE UNCHANGED vars
    BY <1>4, <2>1 DEF StallInv, Told, Native, vars, socks, mems
  <2>2. CASE Next
    <3>1. ~down
      BY <2>2, ZenonT(30)
      DEF Next, Callback, Connecting, Writing, Send, Dial, Accept, Wake, Connected, OnWritable,
        OnReadable, RecvThrows, OnEnd, FlushThrows, StaleNotification, Pause, Resume, Destroy,
        DestroySoon, Readable
    <3>2. type' = type
      BY <2>2, ZenonT(30)
      DEF Next, Callback, Connecting, Writing, Send, Dial, Accept, Wake, Connected, OnWritable,
        OnReadable, RecvThrows, OnEnd, FlushThrows, StaleNotification, Pause, Resume, Destroy,
        DestroySoon
    <3> QED
      BY <1>4, <3>1, <3>2, ToldSteps DEF StallInv, Native
  <2> QED
    BY <2>1, <2>2
<1> QED
  BY <1>1, <1>2, <1>3, <1>4 DEF StallInv

LEMMA StallImplied == StallInv => NoStall
<1> SUFFICES ASSUME StallInv, ~down, NEW e \in End, life[e] = "open"
             PROVE  /\ sendq[e] # <<>> => IF Native THEN wwatch[e] ELSE doubled[e] \/ eof[e]
                    /\ soon[e] => sendq[e] # <<>>
                    /\ ~Native /\ rwatch[e] /\ ~missed[e] => (due[e] <=> wire[e] # <<>> \/ eof[e])
  BY DEF NoStall
<1>1. WaitsFor(e) /\ (~Native => Told(e)) /\ (~Native => Rests(e))
  BY DEF StallInv, MemInv
<1>2. ~Native /\ rwatch[e] /\ ~missed[e] => (due[e] <=> wire[e] # <<>> \/ eof[e])
  BY <1>1 DEF Told
<1> QED
  BY <1>1, <1>2 DEF WaitsFor, Rests

\* An end that is open is never left without the watcher it waits for.  Over
\* unix and tcp, bytes in its queue have a write watcher; a mem socket has none,
\* and keeps messages only after a first write nobody listened to, or when its
\* peer is gone.  A destroySoon that waits has something to wait for, and bytes
\* that came over a mem socket that listens have a notification due (_sendmsg,
\* flush, _onConnect, memsock.write and read).
THEOREM NoStallCorrect == Spec => []NoStall
<1>1. Init => TypeInv /\ StallInv
  BY TypeInit, StallInit
<1>2. TypeInv /\ StallInv /\ [Next]_vars => TypeInv' /\ StallInv'
  BY TypeSteps, StallSteps
<1>3. StallInv => NoStall
  BY StallImplied
<1> QED
  BY <1>1, <1>2, <1>3, PTL DEF Spec

-----------------------------------------------------------------------------
(* Places in a stream                                                      *)

\* A place in what was sent: <<i, k>> is byte k of the i-th message.
After(s, x) ==
  IF x[2] + 1 < BufferSize(s[x[1]]) THEN <<x[1], x[2] + 1>> ELSE <<x[1] + 1, 0>>

\* w is the bytes of s from place x to place y; f has the place of each.
Path(s, w, f) == \A n \in 1 .. Len(w) :
  /\ f[n][1] \in 1 .. Len(s) /\ w[n] = <<s[f[n][1]], f[n][2]>>
  /\ f[n + 1] = After(s, f[n])
Leads(s, x, w, y) == \E f : f[1] = x /\ f[Len(w) + 1] = y /\ Path(s, w, f)

LEMMA LeadsNone ==
  ASSUME NEW s, NEW x, NEW y
  PROVE  Leads(s, x, <<>>, y) <=> x = y
<1>1. Len(<<>>) = 0 /\ 1 .. 0 = {}
  OBVIOUS
<1>2. ASSUME x = y PROVE Leads(s, x, <<>>, y)
  <2>1. PICK f : f = [n \in {1} |-> x]
    OBVIOUS
  <2>2. f[1] = x
    BY <2>1
  <2> QED
    BY <1>1, <1>2, <2>2 DEF Leads, Path
<1>3. ASSUME Leads(s, x, <<>>, y) PROVE x = y
  BY <1>1, <1>3 DEF Leads
<1> QED
  BY <1>2, <1>3

LEMMA LeadsConcat ==
  ASSUME NEW S, NEW w \in Seq(S), NEW v \in Seq(S), NEW s, NEW x, NEW y, NEW z,
         Leads(s, x, w, y), Leads(s, y, v, z)
  PROVE  Leads(s, x, w \o v, z)
<1>1. PICK f : f[1] = x /\ f[Len(w) + 1] = y /\ Path(s, w, f)
  BY DEF Leads
<1>2. PICK g : g[1] = y /\ g[Len(v) + 1] = z /\ Path(s, v, g)
  BY DEF Leads
<1>3. /\ Len(w) \in Nat /\ Len(v) \in Nat
      /\ Len(w \o v) = Len(w) + Len(v)
      /\ \A i \in 1 .. Len(w) : (w \o v)[i] = w[i]
      /\ \A i \in 1 .. Len(v) : (w \o v)[Len(w) + i] = v[i]
  BY ConcatAt, ConcatType
<1>4. PICK k \in Nat, l \in Nat : k = Len(w) /\ l = Len(v)
  BY <1>3
<1>5. PICK h : h = [n \in 1 .. k + l + 1 |-> IF n <= k THEN f[n] ELSE g[n - k]]
  OBVIOUS
<1>6. \A n \in 1 .. k + 1 : h[n] = f[n]
  <2> TAKE n \in 1 .. k + 1
  <2>1. n \in 1 .. k + l + 1
    OBVIOUS
  <2>2. CASE n <= k
    BY <1>5, <2>1, <2>2
  <2>3. CASE n = k + 1
    <3>1. ~(n <= k) /\ n - k = 1
      BY <2>3
    <3>2. h[n] = g[1]
      BY <1>5, <2>1, <3>1
    <3> QED
      BY <1>1, <1>2, <1>4, <2>3, <3>2
  <2> QED
    BY <2>2, <2>3
<1>7. \A n \in 1 .. l + 1 : h[k + n] = g[n]
  <2> TAKE n \in 1 .. l + 1
  <2>1. k + n \in 1 .. k + l + 1 /\ ~(k + n <= k) /\ (k + n) - k = n
    OBVIOUS
  <2> QED
    BY <1>5, <2>1
<1>8. ASSUME NEW n \in 1 .. k + l
      PROVE  /\ h[n][1] \in 1 .. Len(s) /\ (w \o v)[n] = <<s[h[n][1]], h[n][2]>>
             /\ h[n + 1] = After(s, h[n])
  <2>1. CASE n \in 1 .. k
    <3>1. n \in 1 .. k + 1 /\ n + 1 \in 1 .. k + 1
      BY <2>1
    <3>2. h[n] = f[n] /\ h[n + 1] = f[n + 1] /\ (w \o v)[n] = w[n]
      BY <1>3, <1>4, <1>6, <2>1, <3>1
    <3> QED
      BY <1>1, <1>4, <2>1, <3>2 DEF Path
  <2>2. CASE n \notin 1 .. k
    <3>1. PICK i \in 1 .. l : n = k + i
      <4>1. n - k \in 1 .. l /\ n = k + (n - k)
        BY <2>2
      <4> QED
        BY <4>1
    <3>2. i \in 1 .. l + 1 /\ i + 1 \in 1 .. l + 1 /\ n + 1 = k + (i + 1)
      BY <3>1
    <3>3. h[n] = g[i] /\ h[n + 1] = g[i + 1] /\ (w \o v)[n] = v[i]
      BY <1>3, <1>4, <1>7, <3>1, <3>2
    <3> QED
      BY <1>2, <1>4, <3>3 DEF Path
  <2> QED
    BY <2>1, <2>2
<1>9. h[1] = x /\ h[k + l + 1] = z
  <2>1. 1 \in 1 .. k + 1 /\ l + 1 \in 1 .. l + 1 /\ k + l + 1 = k + (l + 1)
    OBVIOUS
  <2> QED
    BY <1>1, <1>2, <1>4, <1>6, <1>7, <2>1
<1>10. Len(w \o v) = k + l
  BY <1>3, <1>4
<1>11. Path(s, w \o v, h)
  BY <1>8, <1>10 DEF Path
<1> QED
  BY <1>9, <1>10, <1>11 DEF Leads

LEMMA LeadsSplit ==
  ASSUME NEW S, NEW w \in Seq(S), NEW v \in Seq(S), NEW s, NEW x, NEW z,
         Leads(s, x, w \o v, z)
  PROVE  \E y : Leads(s, x, w, y) /\ Leads(s, y, v, z)
<1>1. PICK f : f[1] = x /\ f[Len(w \o v) + 1] = z /\ Path(s, w \o v, f)
  BY DEF Leads
<1>2. /\ Len(w) \in Nat /\ Len(v) \in Nat
      /\ Len(w \o v) = Len(w) + Len(v)
      /\ \A i \in 1 .. Len(w) : (w \o v)[i] = w[i]
      /\ \A i \in 1 .. Len(v) : (w \o v)[Len(w) + i] = v[i]
  BY ConcatAt, ConcatType
<1>3. PICK k \in Nat, l \in Nat : k = Len(w) /\ l = Len(v)
  BY <1>2
<1>4. PICK g : g = [n \in 1 .. l + 1 |-> f[k + n]]
  OBVIOUS
<1>5. \A n \in 1 .. l + 1 : g[n] = f[k + n]
  BY <1>4
<1>6. Path(s, w, f)
  <2>1. \A n \in 1 .. k : n \in 1 .. k + l
    OBVIOUS
  <2> QED
    BY <1>1, <1>2, <1>3, <2>1 DEF Path
<1>7. Path(s, v, g)
  <2> SUFFICES ASSUME NEW n \in 1 .. l
               PROVE  /\ g[n][1] \in 1 .. Len(s) /\ v[n] = <<s[g[n][1]], g[n][2]>>
                      /\ g[n + 1] = After(s, g[n])
    BY <1>3 DEF Path
  <2>1. /\ k + n \in 1 .. k + l /\ n \in 1 .. l + 1 /\ n + 1 \in 1 .. l + 1
        /\ k + (n + 1) = (k + n) + 1
    OBVIOUS
  <2>2. g[n] = f[k + n] /\ g[n + 1] = f[(k + n) + 1] /\ v[n] = (w \o v)[k + n]
    BY <1>2, <1>3, <1>5, <2>1
  <2> QED
    BY <1>1, <1>2, <1>3, <2>1, <2>2 DEF Path
<1>8. g[1] = f[k + 1] /\ g[l + 1] = z
  <2>1. 1 \in 1 .. l + 1 /\ l + 1 \in 1 .. l + 1 /\ k + (l + 1) = (k + l) + 1
    OBVIOUS
  <2>2. Len(w \o v) = k + l
    BY <1>2, <1>3
  <2>3. f[(k + l) + 1] = z
    BY <1>1, <2>2
  <2> QED
    BY <1>5, <2>1, <2>3
<1> QED
  BY <1>1, <1>3, <1>6, <1>7, <1>8 DEF Leads

\* Another message sent changes nothing of what is under way.
LEMMA LeadsLonger ==
  ASSUME NEW s \in Seq(Msg), NEW m \in Msg, NEW x, NEW w, NEW y, Leads(s, x, w, y)
  PROVE  Leads(Append(s, m), x, w, y)
<1>1. PICK f : f[1] = x /\ f[Len(w) + 1] = y /\ Path(s, w, f)
  BY DEF Leads
<1>2. PICK t : t = Append(s, m)
  OBVIOUS
<1>3. \A i \in 1 .. Len(s) : i \in 1 .. Len(t) /\ t[i] = s[i]
  BY <1>2
<1>4. ASSUME NEW n \in 1 .. Len(w)
      PROVE  /\ f[n][1] \in 1 .. Len(t) /\ w[n] = <<t[f[n][1]], f[n][2]>>
             /\ f[n + 1] = After(t, f[n])
  <2>1. /\ f[n][1] \in 1 .. Len(s) /\ w[n] = <<s[f[n][1]], f[n][2]>>
        /\ f[n + 1] = After(s, f[n])
    BY <1>1 DEF Path
  <2>2. f[n][1] \in 1 .. Len(t) /\ t[f[n][1]] = s[f[n][1]]
    BY <1>3, <2>1
  <2> QED
    BY <2>1, <2>2 DEF After
<1>5. Path(t, w, f)
  BY <1>4 DEF Path
<1> QED
  BY <1>1, <1>2, <1>5 DEF Leads

LEMMA BufferBytes ==
  ASSUME NEW m \in Msg
  PROVE  /\ BufferSize(m) \in Nat \ {0} /\ Buffer(m) \in Seq(Byte)
         /\ Len(Buffer(m)) = BufferSize(m)
         /\ \A k \in 1 .. BufferSize(m) : Buffer(m)[k] = <<m, k - 1>>
<1>1. PICK b \in Nat \ {0} : b = BufferSize(m)
  <2>1. PICK p \in Nat \ {0} : p = Parts(m)
    BY PartBounds
  <2>2. p * HeaderSize \in Nat \ {0}
    BY <2>1 DEF HeaderSize
  <2>3. BufferSize(m) = Size[m] + p * HeaderSize /\ Size[m] \in Nat
    BY <2>1, FramingAssumption DEF BufferSize
  <2>4. BufferSize(m) \in Nat \ {0}
    BY <2>2, <2>3
  <2> QED
    BY <2>4
<1>2. \A k \in 1 .. b : <<m, k - 1>> \in Byte
  <2>1. \A k \in 1 .. b : k - 1 \in 0 .. BufferSize(m) - 1
    BY <1>1
  <2> QED
    BY <2>1 DEF Byte
<1>3. Buffer(m) = [k \in 1 .. b |-> <<m, k - 1>>]
  BY <1>1 DEF Buffer
<1> QED
  BY <1>1, <1>2, <1>3

\* The bytes from a to b of a message.
Cut(m, a, b) == SubSeq(Buffer(m), a + 1, b)

LEMMA CutBytes ==
  ASSUME NEW m \in Msg, NEW a \in Nat, NEW b \in Nat, a <= b, b <= BufferSize(m)
  PROVE  /\ Cut(m, a, b) \in Seq(Byte) /\ Len(Cut(m, a, b)) = b - a
         /\ \A n \in 1 .. b - a : Cut(m, a, b)[n] = <<m, a + n - 1>>
<1>1. PICK z \in Nat : z = BufferSize(m) /\ Buffer(m) \in Seq(Byte) /\ Len(Buffer(m)) = z
                       /\ \A k \in 1 .. z : Buffer(m)[k] = <<m, k - 1>>
  BY BufferBytes
<1>2. /\ SubSeq(Buffer(m), a + 1, b) \in Seq(Byte) /\ Len(SubSeq(Buffer(m), a + 1, b)) = b - a
      /\ \A n \in 1 .. b - a : SubSeq(Buffer(m), a + 1, b)[n] = Buffer(m)[a + n]
  BY <1>1
<1>3. \A n \in 1 .. b - a : a + n \in 1 .. z
  BY <1>1
<1> QED
  BY <1>1, <1>2, <1>3 DEF Cut

\* The place behind the first b bytes of a message.
Behind(s, i, b) == IF b < BufferSize(s[i]) THEN <<i, b>> ELSE <<i + 1, 0>>

LEMMA LeadsMessage ==
  ASSUME NEW s \in Seq(Msg), NEW i \in 1 .. Len(s), NEW a \in Nat, NEW b \in Nat,
         a <= b, b <= BufferSize(s[i]), a < BufferSize(s[i])
  PROVE  Leads(s, <<i, a>>, Cut(s[i], a, b), Behind(s, i, b))
<1>1. PICK m \in Msg : m = s[i]
  OBVIOUS
<1>2. PICK z \in Nat : z = BufferSize(m)
  BY BufferBytes
<1>3. PICK w : w = Cut(m, a, b) /\ Len(w) = b - a /\ \A n \in 1 .. b - a : w[n] = <<m, a + n - 1>>
  <2>1. b <= BufferSize(m)
    BY <1>1
  <2>2. PICK w : w = Cut(m, a, b)
    OBVIOUS
  <2>3. Len(w) = b - a /\ \A n \in 1 .. b - a : w[n] = <<m, a + n - 1>>
    BY <2>1, <2>2, CutBytes
  <2> QED
    BY <2>2, <2>3
<1>4. PICK f : f = [n \in 1 .. b - a + 1 |-> IF a + n - 1 < z THEN <<i, a + n - 1>> ELSE <<i + 1, 0>>]
  OBVIOUS
<1>5. \A n \in 1 .. b - a : f[n] = <<i, a + n - 1>>
  <2>1. \A n \in 1 .. b - a : n \in 1 .. b - a + 1 /\ a + n - 1 < z
    BY <1>1, <1>2
  <2> QED
    BY <1>4, <2>1
<1>6. ASSUME NEW n \in 1 .. b - a
      PROVE  /\ f[n][1] \in 1 .. Len(s) /\ w[n] = <<s[f[n][1]], f[n][2]>>
             /\ f[n + 1] = After(s, f[n])
  <2>1. f[n][1] = i /\ f[n][2] = a + n - 1
    BY <1>5
  <2>2. n + 1 \in 1 .. b - a + 1 /\ a + (n + 1) - 1 = a + n /\ (a + n - 1) + 1 = a + n
    OBVIOUS
  <2>3. f[n + 1] = IF a + n < z THEN <<i, a + n>> ELSE <<i + 1, 0>>
    BY <1>4, <2>2
  <2>4. After(s, f[n]) = IF a + n < z THEN <<i, a + n>> ELSE <<i + 1, 0>>
    BY <1>1, <1>2, <2>1, <2>2 DEF After
  <2> QED
    BY <1>1, <1>3, <2>1, <2>3, <2>4
<1>7. Path(s, w, f)
  BY <1>3, <1>6 DEF Path
<1>8. f[1] = <<i, a>> /\ f[b - a + 1] = Behind(s, i, b)
  <2>1. 1 \in 1 .. b - a + 1 /\ b - a + 1 \in 1 .. b - a + 1 /\ a + 1 - 1 = a
        /\ a + (b - a + 1) - 1 = b
    OBVIOUS
  <2> QED
    BY <1>1, <1>2, <1>4, <2>1 DEF Behind
<1> QED
  BY <1>1, <1>3, <1>7, <1>8 DEF Leads

\* What is under way from inside a message, and does not reach behind it, is a
\* part of the message.
LEMMA LeadsWithin ==
  ASSUME NEW s \in Seq(Msg), NEW i \in 1 .. Len(s), NEW a \in Nat, NEW w \in Seq(Byte), NEW y,
         Leads(s, <<i, a>>, w, y), a < BufferSize(s[i]), a + Len(w) <= BufferSize(s[i])
  PROVE  w = Cut(s[i], a, a + Len(w)) /\ y = Behind(s, i, a + Len(w))
<1>1. PICK f : f[1] = <<i, a>> /\ f[Len(w) + 1] = y /\ Path(s, w, f)
  BY DEF Leads
<1>2. PICK m \in Msg : m = s[i]
  OBVIOUS
<1>3. PICK z \in Nat, l \in Nat : z = BufferSize(m) /\ l = Len(w)
  BY BufferBytes
<1> DEFINE At(n) == f[n] = Behind(s, i, a + n - 1)
           T == {n \in 1 .. l + 1 : ~At(n)}
<1>4. At(1)
  <2>1. a + 1 - 1 = a
    OBVIOUS
  <2> QED
    BY <1>1, <1>2, <1>3, <2>1 DEF Behind
<1>5. ASSUME NEW n \in 1 .. l, At(n)
      PROVE  At(n + 1) /\ w[n] = <<m, a + n - 1>>
  <2>1. a + n - 1 < z /\ (a + n - 1) + 1 = a + n /\ a + (n + 1) - 1 = a + n
    BY <1>2, <1>3
  <2>2. f[n] = <<i, a + n - 1>>
    BY <1>2, <1>3, <1>5, <2>1 DEF Behind
  <2>3. f[n][1] = i /\ f[n][2] = a + n - 1
    BY <2>2
  <2>4. f[n + 1] = After(s, f[n]) /\ w[n] = <<s[f[n][1]], f[n][2]>>
    BY <1>1, <1>3 DEF Path
  <2>5. f[n + 1] = IF a + n < z THEN <<i, a + n>> ELSE <<i + 1, 0>>
    BY <1>2, <1>3, <2>1, <2>3, <2>4 DEF After
  <2> QED
    BY <1>2, <1>3, <2>1, <2>3, <2>4, <2>5 DEF Behind
<1> HIDE DEF At
<1>6. T = {}
  <2> SUFFICES ASSUME T # {} PROVE FALSE
    OBVIOUS
  <2>1. T \in SUBSET Nat
    OBVIOUS
  <2> HIDE DEF T
  <2>2. PICK n \in T : \A k \in T : n <= k
    BY <2>1, LeastNatural
  <2>3. n \in 1 .. l + 1 /\ ~At(n)
    BY <2>2 DEF T
  <2>4. n # 1
    BY <1>4, <2>3
  <2>5. n - 1 \notin T /\ n - 1 \in 1 .. l /\ n - 1 \in 1 .. l + 1 /\ (n - 1) + 1 = n
    BY <2>2, <2>3, <2>4
  <2>6. At(n - 1)
    BY <2>5 DEF T
  <2> QED
    BY <1>5, <2>3, <2>5, <2>6
<1>7. At(l + 1) /\ \A n \in 1 .. l : At(n)
  BY <1>6
<1>8. y = Behind(s, i, a + l)
  <2>1. a + (l + 1) - 1 = a + l
    OBVIOUS
  <2> QED
    BY <1>1, <1>3, <1>7, <2>1 DEF At
<1>9. \A n \in 1 .. l : w[n] = <<m, a + n - 1>>
  BY <1>5, <1>7
<1>10. PICK v : v = Cut(m, a, a + l)
  OBVIOUS
<1>11. v \in Seq(Byte) /\ Len(v) = l /\ \A n \in 1 .. l : v[n] = <<m, a + n - 1>>
  <2>1. PICK b \in Nat : b = a + l /\ a <= b /\ b - a = l /\ b <= BufferSize(m)
    BY <1>2, <1>3
  <2>2. Cut(m, a, b) \in Seq(Byte) /\ Len(Cut(m, a, b)) = b - a
        /\ \A n \in 1 .. b - a : Cut(m, a, b)[n] = <<m, a + n - 1>>
    BY <2>1, CutBytes
  <2> QED
    BY <1>10, <2>1, <2>2
<1>12. w = v
  <2>1. Len(w) = Len(v) /\ \A n \in 1 .. Len(w) : w[n] = v[n]
    BY <1>3, <1>9, <1>11
  <2>2. w \in Seq(Byte) /\ v \in Seq(Byte)
    BY <1>11
  <2> QED
    BY <2>1, <2>2, SameSeq
<1> QED
  BY <1>2, <1>3, <1>8, <1>10, <1>12

-----------------------------------------------------------------------------
(* Parts and their bytes                                                   *)

LEMMA CutPrefix ==
  ASSUME NEW m \in Msg, NEW a \in Nat, NEW b \in Nat, NEW j \in Nat,
         a + j <= b, b <= BufferSize(m)
  PROVE  SubSeq(Cut(m, a, b), 1, j) = Cut(m, a, a + j)
<1>1. PICK d \in Nat : d = a + j /\ a <= d /\ d <= BufferSize(m) /\ d - a = j
  <2>1. BufferSize(m) \in Nat
    BY BufferBytes
  <2> QED
    BY <2>1
<1>2. Cut(m, a, d) \in Seq(Byte) /\ Len(Cut(m, a, d)) = d - a
      /\ \A n \in 1 .. d - a : Cut(m, a, d)[n] = <<m, a + n - 1>>
  BY <1>1, CutBytes
<1>3. Cut(m, a, b) \in Seq(Byte) /\ Len(Cut(m, a, b)) = b - a
      /\ \A n \in 1 .. b - a : Cut(m, a, b)[n] = <<m, a + n - 1>>
  <2>1. a <= b
    OBVIOUS
  <2> QED
    BY <2>1, CutBytes
<1>4. PICK w \in Seq(Byte), z \in Nat : w = Cut(m, a, b) /\ z = b - a /\ Len(w) = z /\ j <= z
  BY <1>3
<1>5. PICK v : v = SubSeq(w, 1, j) /\ v \in Seq(Byte) /\ Len(v) = j
               /\ \A n \in 1 .. j : v[n] = w[n]
  <2>1. PICK v : v = SubSeq(w, 1, j)
    OBVIOUS
  <2>2. j \in 0 .. Len(w)
    BY <1>4
  <2>3. v \in Seq(Byte) /\ Len(v) = j
    BY <2>1, <2>2, PrefixType
  <2>4. \A n \in 1 .. j : v[n] = w[n]
    BY <2>1, <2>2
  <2> QED
    BY <2>1, <2>3, <2>4
<1>6. \A n \in 1 .. j : v[n] = Cut(m, a, d)[n]
  <2> TAKE n \in 1 .. j
  <2>1. n \in 1 .. z /\ n \in 1 .. d - a
    BY <1>1, <1>4
  <2>2. w[n] = <<m, a + n - 1>> /\ Cut(m, a, d)[n] = <<m, a + n - 1>>
    BY <1>2, <1>3, <1>4, <2>1
  <2> QED
    BY <1>5, <2>1, <2>2
<1>7. v = Cut(m, a, d)
  BY <1>1, <1>2, <1>5, <1>6, SameSeq
<1> QED
  BY <1>1, <1>4, <1>5, <1>7

\* The parts of a message follow each other, and the last ends with it.
LEMMA PartPlaces ==
  ASSUME NEW m \in Msg, NEW p \in 1 .. Parts(m)
  PROVE  /\ PartStart(m, p) \in Nat /\ PartSize(m, p) \in Nat /\ PartSize(m, p) > LengthSize
         /\ PartStart(m, p) + PartSize(m, p) =
              IF p < Parts(m) THEN PartStart(m, p + 1) ELSE BufferSize(m)
         /\ PartStart(m, p) + PartSize(m, p) <= BufferSize(m)
         /\ p < Parts(m) => PartStart(m, p + 1) < BufferSize(m)
<1>1. PICK k \in Nat \ {0} : k = HeaderSize + PayloadMax /\ k >= 5 /\ PayloadMax \in Nat
  <2>1. PICK z \in Nat : z = Base * Base /\ z > 5
    BY FramingAssumption DEF HeaderSize
  <2> QED
    BY <2>1 DEF PayloadMax, HeaderSize
<1>2. PICK q \in Nat \ {0} : q = Parts(m) /\ p \in 1 .. q
  BY PartBounds
<1>3. ASSUME NEW n \in 1 .. q
      PROVE  /\ PartSize(m, n) \in Nat /\ PartSize(m, n) >= 4
             /\ PartSize(m, n) = IF n < q THEN k ELSE 4 + Size[m] - (q - 1) * PayloadMax
  <2>1. PartSize(m, n) \in HeaderSize .. Base * Base - 1 /\ Base * Base \in Nat
    BY <1>2, PartBounds, FramingAssumption
  <2>2. PICK c \in Nat : c = (q - 1) * PayloadMax /\ Size[m] \in Nat
    <3>1. PayloadMax \in Nat /\ q - 1 \in Nat
      BY <1>1, <1>2
    <3>2. (q - 1) * PayloadMax \in Nat
      BY <3>1
    <3> QED
      BY <3>2, FramingAssumption
  <2>3. PartSize(m, n) = IF n < q THEN k ELSE 4 + Size[m] - c
    BY <1>1, <1>2, <2>2 DEF PartSize, PartPayload, HeaderSize
  <2> QED
    BY <2>1, <2>2, <2>3 DEF HeaderSize
<1>4. \A n \in Nat : PartStart(m, n) = (n - 1) * k
  BY <1>1 DEF PartStart
<1>5. PICK last \in Nat : last = PartSize(m, q) /\ last >= 4
  BY <1>2, <1>3
<1>6. PICK u \in Nat : u = PayloadMax /\ k = 4 + u
  BY <1>1 DEF HeaderSize
<1>7. PICK c \in Nat, d \in Nat : c = (q - 1) * u /\ d = (q - 1) * k /\ d = c + (q - 1) * 4
  <2>1. (q - 1) \in Nat /\ (q - 1) * (4 + u) = (q - 1) * u + (q - 1) * 4
    BY <1>6
  <2>2. (q - 1) * u \in Nat /\ (q - 1) * k \in Nat
    BY <1>6, <2>1
  <2> QED
    BY <1>6, <2>1, <2>2
<1>8. BufferSize(m) = d + last
  <2>1. Size[m] \in Nat /\ BufferSize(m) = Size[m] + q * 4
    BY <1>2, FramingAssumption DEF BufferSize, HeaderSize
  <2>2. last = 4 + Size[m] - c
    BY <1>2, <1>3, <1>5, <1>6, <1>7
  <2>3. (q - 1) * 4 = q * 4 - 4
    BY <1>2
  <2> QED
    BY <1>2, <1>5, <1>7, <2>1, <2>2, <2>3
<1>9. ASSUME NEW n \in 1 .. q
      PROVE  \E x \in Nat : x = (n - 1) * k /\ x <= d
  <2>1. PICK y \in Nat : y = q - n /\ q - 1 = (n - 1) + y /\ n - 1 \in Nat
    BY <1>2
  <2>2. ((n - 1) + y) * k = (n - 1) * k + y * k
    BY <1>1, <2>1
  <2>3. (n - 1) * k \in Nat /\ y * k \in Nat
    BY <1>1, <2>1
  <2> QED
    BY <1>7, <2>1, <2>2, <2>3
<1>10. PICK x \in Nat : x = (p - 1) * k /\ x <= d
  BY <1>2, <1>9
<1>11. PICK s \in Nat : s = PartSize(m, p) /\ s >= 4 /\ s = IF p < q THEN k ELSE last
  BY <1>2, <1>3, <1>5
<1>12. PartStart(m, p) = x
  BY <1>2, <1>4, <1>10
<1>13. CASE p < q
  <2>1. p + 1 \in 1 .. q /\ (p + 1) - 1 = p
    BY <1>2, <1>13
  <2>2. PICK y \in Nat : y = p * k /\ y <= d
    BY <1>9, <2>1
  <2>3. y = x + k
    <3>1. p = (p - 1) + 1 /\ p - 1 \in Nat /\ ((p - 1) + 1) * k = (p - 1) * k + k
      BY <1>2, <1>1
    <3> QED
      BY <1>10, <2>2, <3>1
  <2>4. PartStart(m, p + 1) = y
    BY <1>2, <1>4, <2>1, <2>2
  <2> QED
    BY <1>2, <1>5, <1>8, <1>11, <1>12, <1>13, <2>2, <2>3, <2>4 DEF LengthSize
<1>14. CASE ~(p < q)
  <2>1. p = q /\ x = d
    BY <1>2, <1>7, <1>10, <1>14
  <2> QED
    BY <1>2, <1>5, <1>8, <1>11, <1>12, <1>14, <2>1 DEF LengthSize
<1> QED
  BY <1>13, <1>14

\* The first bytes of a part say which it is.
LEMMA HeadedPart ==
  ASSUME NEW m \in Msg, NEW p \in 1 .. Parts(m)
  PROVE  Headed(Cut(m, PartStart(m, p), PartStart(m, p) + LengthSize)) = <<m, p>>
<1> DEFINE Mark(n) == SubSeq(Part(m, n), 1, LengthSize)
<1>1. ASSUME NEW n \in 1 .. Parts(m)
      PROVE  Mark(n) = Cut(m, PartStart(m, n), PartStart(m, n) + LengthSize)
             /\ Mark(n)[1] = <<m, PartStart(m, n)>>
  <2>1. PICK a \in Nat, s \in Nat : a = PartStart(m, n) /\ s = PartSize(m, n) /\ s > 2
                                  /\ a + s <= BufferSize(m)
    BY PartPlaces DEF LengthSize
  <2>2. Part(m, n) = Cut(m, a, a + s)
    BY <2>1 DEF Part, Cut
  <2>3. BufferSize(m) \in Nat
    BY BufferBytes
  <2>4. PICK b \in Nat, j \in Nat : b = a + s /\ j = 2 /\ a + j <= b /\ b <= BufferSize(m)
    BY <2>1
  <2>5. SubSeq(Cut(m, a, b), 1, j) = Cut(m, a, a + j)
    BY <2>4, CutPrefix, ZenonT(30)
  <2>6. Mark(n) = Cut(m, a, a + 2)
    BY <2>2, <2>4, <2>5 DEF LengthSize
  <2>7. PICK d \in Nat : d = a + 2 /\ a <= d /\ d <= BufferSize(m) /\ 1 \in 1 .. d - a
    BY <2>3, <2>4
  <2>8. Cut(m, a, d)[1] = <<m, a + 1 - 1>>
    <3>1. \A l \in 1 .. d - a : Cut(m, a, d)[l] = <<m, a + l - 1>>
      BY <2>7, CutBytes
    <3> QED
      BY <2>7, <3>1
  <2> QED
    BY <2>1, <2>6, <2>7, <2>8 DEF LengthSize
<1>2. ASSUME NEW n \in 1 .. Parts(m), PartStart(m, n) = PartStart(m, p) PROVE n = p
  <2>1. PICK k \in Nat \ {0} : k = HeaderSize + PayloadMax
    <3>1. PICK z \in Nat : z = Base * Base /\ z > 5
      BY FramingAssumption DEF HeaderSize
    <3> QED
      BY <3>1 DEF PayloadMax, HeaderSize
  <2>2. n \in Nat /\ p \in Nat /\ (n - 1) * k = (p - 1) * k
    BY <1>2, <2>1, PartBounds DEF PartStart
  <2> QED
    BY <2>1, <2>2
<1>3. Mark(p)[1] = <<m, PartStart(m, p)>>
  BY <1>1
<1>4. \A n \in 1 .. Parts(m) : Mark(p) = Mark(n) => n = p
  <2> TAKE n \in 1 .. Parts(m)
  <2> HAVE Mark(p) = Mark(n)
  <2>1. Mark(p)[1] = <<m, PartStart(m, p)>> /\ Mark(p)[1] = <<m, PartStart(m, n)>>
    BY <1>1
  <2>2. PartStart(m, p) = PartStart(m, n)
    <3>1. <<m, PartStart(m, p)>>[2] = <<m, PartStart(m, n)>>[2]
      BY <2>1
    <3> QED
      BY <3>1
  <2> QED
    BY <1>2, <2>2
<1>5. PICK w : w = Mark(p)
  OBVIOUS
<1>6. w[1][1] = m /\ w = Cut(m, PartStart(m, p), PartStart(m, p) + LengthSize)
  <2>1. w[1] = <<m, PartStart(m, p)>>
    BY <1>3, <1>5
  <2>2. w = Cut(m, PartStart(m, p), PartStart(m, p) + LengthSize)
    BY <1>1, <1>5
  <2> QED
    BY <2>1, <2>2
<1>7. {n \in 1 .. Parts(m) : w = Mark(n)} = {p}
  BY <1>4, <1>5
<1>8. Headed(w) = IF {n \in 1 .. Parts(m) : w = Mark(n)} = {} THEN NoPart
                  ELSE <<m, CHOOSE n \in {n \in 1 .. Parts(m) : w = Mark(n)} : TRUE>>
  BY <1>6 DEF Headed, NoPart
<1> HIDE DEF Mark
<1>9. Headed(w) = <<m, CHOOSE n \in {p} : TRUE>>
  BY <1>7, <1>8
<1> QED
  BY <1>6, <1>9

\* What is left of a message leads from its offset behind it.
LEMMA RestLeads ==
  ASSUME SendType, NEW s \in Seq(Msg), NEW i \in 1 .. Len(s)
  PROVE  /\ Leads(s, <<i, off[s[i]]>>, Rest(s[i]), <<i + 1, 0>>)
         /\ \A n \in Nat : n < Len(Rest(s[i])) =>
              /\ Leads(s, <<i, off[s[i]]>>, SubSeq(Rest(s[i]), 1, n), <<i, off[s[i]] + n>>)
              /\ SubSeq(Rest(s[i]), 1, n) \in Seq(Byte)
<1>1. PICK m \in Msg, z \in Nat, a \in Nat : m = s[i] /\ z = BufferSize(m) /\ a = off[m] /\ a < z
  BY BufferBytes DEF SendType
<1>2. Rest(m) = Cut(m, a, z) /\ Len(Rest(m)) = z - a /\ Rest(m) \in Seq(Byte)
  BY <1>1, RestBytes DEF Rest, Cut
<1>3. Leads(s, <<i, a>>, Cut(m, a, z), Behind(s, i, z))
  BY <1>1, LeadsMessage
<1>4. Behind(s, i, z) = <<i + 1, 0>>
  BY <1>1 DEF Behind
<1>5. ASSUME NEW n \in Nat, n < Len(Rest(m))
      PROVE  Leads(s, <<i, a>>, SubSeq(Rest(m), 1, n), <<i, a + n>>)
             /\ SubSeq(Rest(m), 1, n) \in Seq(Byte)
  <2>1. PICK b \in Nat : b = a + n /\ a <= b /\ b < z /\ b <= BufferSize(m)
    BY <1>1, <1>2, <1>5, SMTT(30)
  <2>2. SubSeq(Cut(m, a, z), 1, n) = Cut(m, a, b)
    <3>1. a + n <= z /\ z <= BufferSize(m)
      BY <1>1, <2>1
    <3>2. SubSeq(Cut(m, a, z), 1, n) = Cut(m, a, a + n)
      BY <3>1, CutPrefix
    <3> QED
      BY <2>1, <3>2
  <2>3. Leads(s, <<i, a>>, Cut(m, a, b), Behind(s, i, b))
    BY <1>1, <2>1, LeadsMessage
  <2>4. Behind(s, i, b) = <<i, b>>
    BY <1>1, <2>1 DEF Behind
  <2>5. n \in 0 .. Len(Rest(m))
    BY <1>1, <1>2, <1>5
  <2> QED
    BY <1>2, <2>1, <2>2, <2>3, <2>4, <2>5, PrefixType
<1> QED
  BY <1>1, <1>2, <1>3, <1>4, <1>5

\* A write leads from the place where the queue begins to the one where it goes on.
LEMMA BytesLead ==
  ASSUME SendType, NEW s \in Seq(Msg), NEW q \in Seq(Msg), NEW k \in Nat,
         k + Len(q) <= Len(s), \A i \in 1 .. Len(q) : q[i] = s[k + i],
         \A i \in 2 .. Len(q) : off[q[i]] = 0,
         NEW j \in 0 .. Len(q), NEW n \in Nat,
         j < Len(q) => n < Len(Rest(q[j + 1])), j = Len(q) => n = 0
  PROVE  Leads(s, <<k + 1, IF q = <<>> THEN 0 ELSE off[q[1]]>>, Bytes(q, j, n),
               <<k + j + 1, IF j = Len(q) THEN 0 ELSE off[q[j + 1]] + n>>)
<1> DEFINE At(i) == <<k + i, IF i > Len(q) THEN 0 ELSE off[q[i]]>>
<1>1. Len(q) \in Nat /\ Len(s) \in Nat /\ j \in Nat /\ \A i \in 1 .. Len(q) : q[i] \in Msg
  OBVIOUS
<1>2. \A i \in 1 .. Len(q) : k + i \in 1 .. Len(s)
  BY <1>1
<1>3. ASSUME NEW i \in 1 .. Len(q) PROVE Leads(s, At(i), Rest(q[i]), At(i + 1))
  <2>1. Leads(s, <<k + i, off[s[k + i]]>>, Rest(s[k + i]), <<(k + i) + 1, 0>>)
    BY <1>2, RestLeads
  <2>2. At(i) = <<k + i, off[s[k + i]]>>
    BY <1>1
  <2>3. At(i + 1) = <<(k + i) + 1, 0>>
    <3>1. k + (i + 1) = (k + i) + 1
      OBVIOUS
    <3>2. CASE i = Len(q)
      BY <1>1, <3>1, <3>2
    <3>3. CASE i # Len(q)
      <4>1. i + 1 \in 2 .. Len(q)
        BY <1>1, <3>3
      <4>2. off[q[i + 1]] = 0 /\ ~(i + 1 > Len(q))
        BY <4>1
      <4> QED
        BY <3>1, <4>2
    <3> QED
      BY <3>2, <3>3
  <2> QED
    BY <2>1, <2>2, <2>3
<1>4. At(1) = <<k + 1, IF q = <<>> THEN 0 ELSE off[q[1]]>>
  <2>1. q = <<>> <=> 1 > Len(q)
    BY <1>1
  <2> QED
    BY <2>1
<1> HIDE DEF At
<1>5. PICK p : p = [i \in 1 .. j |-> Rest(q[i])]
  OBVIOUS
<1>6. \A i \in 1 .. j : p[i] = Rest(q[i]) /\ i \in 1 .. Len(q) /\ p[i] \in Seq(Byte)
  <2>1. \A i \in 1 .. j : i \in 1 .. Len(q)
    BY <1>1
  <2>2. \A m \in Msg : Rest(m) \in Seq(Byte)
    BY RestBytes
  <2> QED
    BY <1>1, <1>5, <2>1, <2>2
<1>7. p \in Seq(Seq(Byte)) /\ Len(p) = j
  <2>1. \A i \in 1 .. j : Rest(q[i]) \in Seq(Byte)
    BY <1>6
  <2> QED
    BY <1>1, <1>5, <2>1, SMTT(30)
<1>8. Leads(s, At(1), FlattenSeq(p), At(j + 1)) /\ FlattenSeq(p) \in Seq(Byte)
  <2>1. CASE j = 0
    <3>1. p = <<>>
      BY <1>7, <2>1
    <3>2. FlattenSeq(p) = <<>>
      BY <1>7, <3>1, FlattenType
    <3>3. At(j + 1) = At(1) /\ <<>> \in Seq(Byte)
      BY <2>1
    <3>4. Leads(s, At(1), <<>>, At(1))
      BY LeadsNone
    <3> QED
      BY <3>2, <3>3, <3>4
  <2>2. CASE j # 0
    <3>1. p # <<>>
      BY <1>7, <2>2
    <3>2. PICK f : FlattenSeq(p) = f[Len(p)] /\ Joins(p, Len(p), f)
      BY <1>7, <3>1, FlattenJoins
    <3>3. \A i \in 1 .. j : f[i] = IF i = 1 THEN p[i] ELSE f[i - 1] \o p[i]
      BY <1>7, <3>2 DEF Joins
    <3> DEFINE Reached(i) == f[i] \in Seq(Byte) /\ Leads(s, At(1), f[i], At(i + 1))
               T == {i \in 1 .. j : ~Reached(i)}
    <3>4. ASSUME NEW i \in 1 .. j, i > 1 => Reached(i - 1) PROVE Reached(i)
      <4>1. Leads(s, At(i), p[i], At(i + 1)) /\ p[i] \in Seq(Byte)
        BY <1>3, <1>6
      <4>2. CASE i = 1
        BY <3>3, <4>1, <4>2
      <4>3. CASE i # 1
        <5>1. i > 1 /\ (i - 1) + 1 = i /\ f[i] = f[i - 1] \o p[i]
          <6>1. f[i] = IF i = 1 THEN p[i] ELSE f[i - 1] \o p[i]
            BY <3>3
          <6>2. f[i] = f[i - 1] \o p[i]
            BY <4>3, <6>1
          <6> QED
            BY <4>3, <6>2
        <5>2. f[i - 1] \in Seq(Byte) /\ Leads(s, At(1), f[i - 1], At(i))
          BY <3>4, <5>1
        <5>3. Leads(s, At(1), f[i - 1] \o p[i], At(i + 1))
          BY <4>1, <5>2, LeadsConcat
        <5> QED
          BY <4>1, <5>1, <5>2, <5>3, ConcatType
      <4> QED
        BY <4>2, <4>3
    <3> HIDE DEF Reached
    <3>5. ASSUME T # {} PROVE FALSE
      <4>1. T \in SUBSET Nat
        BY <1>1
      <4> HIDE DEF T
      <4>2. PICK i \in T : \A y \in T : i <= y
        BY <3>5, <4>1, LeastNatural
      <4>3. i \in 1 .. j /\ ~Reached(i)
        BY <4>2 DEF T
      <4>4. i > 1 => i - 1 \notin T /\ i - 1 \in 1 .. j
        BY <4>2, <4>3
      <4>5. i > 1 => Reached(i - 1)
        BY <4>4 DEF T
      <4> QED
        BY <3>4, <4>3, <4>5
    <3>6. Reached(j)
      <4>1. j \in 1 .. j
        BY <1>1, <2>2
      <4> QED
        BY <3>5, <4>1
    <3> QED
      BY <1>7, <3>2, <3>6 DEF Reached
  <2> QED
    BY <2>1, <2>2
<1>9. PICK t : t = IF j < Len(q) THEN SubSeq(Rest(q[j + 1]), 1, n) ELSE <<>>
  OBVIOUS
<1>10. PICK y : y = <<k + j + 1, IF j = Len(q) THEN 0 ELSE off[q[j + 1]] + n>>
  OBVIOUS
<1>11. t \in Seq(Byte) /\ Leads(s, At(j + 1), t, y)
  <2>1. CASE j < Len(q)
    <3>1. PICK i \in 1 .. Len(s) : i = k + (j + 1) /\ s[i] = q[j + 1] /\ i = k + j + 1
      <4>1. j + 1 \in 1 .. Len(q)
        BY <1>1, <2>1
      <4> QED
        BY <1>1, <1>2, <4>1
    <3>2. At(j + 1) = <<i, off[s[i]]>> /\ y = <<i, off[s[i]] + n>>
      BY <1>1, <1>10, <2>1, <3>1 DEF At
    <3>3. n < Len(Rest(s[i]))
      BY <2>1, <3>1
    <3>4. Leads(s, <<i, off[s[i]]>>, SubSeq(Rest(s[i]), 1, n), <<i, off[s[i]] + n>>)
          /\ SubSeq(Rest(s[i]), 1, n) \in Seq(Byte)
      BY <3>3, RestLeads
    <3> QED
      BY <1>9, <2>1, <3>1, <3>2, <3>4
  <2>2. CASE ~(j < Len(q))
    <3>1. j = Len(q) /\ t = <<>>
      BY <1>1, <1>9, <2>2
    <3>2. At(j + 1) = y
      BY <1>1, <1>10, <3>1 DEF At
    <3> QED
      BY <3>1, <3>2, LeadsNone
  <2> QED
    BY <2>1, <2>2
<1>12. Leads(s, At(1), FlattenSeq(p) \o t, y)
  BY <1>8, <1>11, LeadsConcat
<1>13. Bytes(q, j, n) = FlattenSeq(p) \o t
  BY <1>5, <1>9 DEF Bytes
<1> QED
  BY <1>4, <1>10, <1>12, <1>13

-----------------------------------------------------------------------------
(* Whose messages they are                                                 *)

\* Each end sends its own messages, each once; what it queues, it has sent, and
\* nothing is written of what was not sent.
Own(e) ==
  /\ IsInjective(sent[e]) /\ \A m \in ToSet(sent[e]) : From[type][m] = e
  /\ ToSet(sendq[e]) \subseteq ToSet(sent[e])
Fresh == \A m \in Msg : m \notin ToSet(sent[From[type][m]]) => off[m] = 0
Plain == type # "unix" => \A e \in End : pendingfd[e] = Nil
OwnInv == (\A e \in End : Own(e)) /\ Fresh /\ Plain

LEMMA TransmitOnly ==
  ASSUME SendType, NEW e \in End, NEW q \in Seq(Msg), NEW j, NEW n, Transmit(e, q, j, n)
  PROVE  \A m \in Msg : m \notin ToSet(q) => off'[m] = off[m]
<1>1. off \in [Msg -> Nat]
  BY DEF SendType
<1>2. /\ j \in 0 .. Len(q)
      /\ off' = IF j < Len(q) THEN [off EXCEPT ![q[j + 1]] = off[q[j + 1]] + n] ELSE off
  BY DEF Transmit, Reaches
<1>3. CASE j < Len(q)
  <2>1. PICK x \in Msg : x = q[j + 1] /\ x \in ToSet(q)
    <3>1. j + 1 \in DOMAIN q /\ q[j + 1] \in Msg
      BY <1>2, <1>3
    <3> QED
      BY <3>1 DEF ToSet
  <2>2. off' = [off EXCEPT ![x] = off[x] + n]
    BY <1>2, <1>3, <2>1
  <2> QED
    BY <1>1, <2>1, <2>2
<1>4. CASE ~(j < Len(q))
  BY <1>2, <1>4
<1> QED
  BY <1>3, <1>4

LEMMA KeepOwn ==
  ASSUME LifeType, \A f \in End : Own(f), Fresh, UNCHANGED <<type, sent>>,
         \A f \in End : ToSet(sendq'[f]) \subseteq ToSet(sendq[f]),
         \A m \in Msg : (\A f \in End : m \notin ToSet(sendq[f])) => off'[m] = off[m]
  PROVE  (\A f \in End : Own(f)') /\ Fresh'
<1>1. ASSUME NEW f \in End PROVE Own(f)'
  BY DEF Own
<1>2. ASSUME NEW m \in Msg, m \notin ToSet(sent[From[type][m]]) PROVE off'[m] = 0
  <2>1. off[m] = 0
    BY <1>2 DEF Fresh
  <2>2. ASSUME NEW f \in End, m \in ToSet(sendq[f]) PROVE FALSE
    BY <1>2, <2>2 DEF Own
  <2> QED
    BY <2>1, <2>2
<1> QED
  BY <1>1, <1>2 DEF Fresh

LEMMA FlushOwn ==
  ASSUME SendType, WireType, LifeType, \A f \in End : Own(f), Fresh, UNCHANGED <<type, sent>>,
         NEW e \in End, NEW j, NEW n, Flush(e, j, n)
  PROVE  (\A f \in End : Own(f)') /\ Fresh'
<1>1. sendq \in [End -> Seq(Msg)] /\ sendq[e] \in Seq(Msg)
  BY DEF SendType
<1>2. j \in 0 .. Len(sendq[e]) /\ Transmit(e, sendq[e], j, n)
      /\ sendq' = [sendq EXCEPT ![e] = SubSeq(sendq[e], j + 1, Len(sendq[e]))]
  BY FlushQueue DEF Flush
<1>3. ToSet(SubSeq(sendq[e], j + 1, Len(sendq[e]))) \subseteq ToSet(sendq[e])
  BY <1>1, <1>2, SplitOnce
<1>4. \A f \in End : ToSet(sendq'[f]) \subseteq ToSet(sendq[f])
  <2> HIDE DEF ToSet
  <2> QED BY <1>1, <1>2, <1>3
<1>5. \A m \in Msg : m \notin ToSet(sendq[e]) => off'[m] = off[m]
  BY <1>1, <1>2, TransmitOnly
<1>6. \A m \in Msg : (\A f \in End : m \notin ToSet(sendq[f])) => off'[m] = off[m]
  BY <1>5
<1> QED
  BY <1>4, <1>6, KeepOwn

LEMMA SendOwn ==
  ASSUME SendType, WireType, LifeType, \A f \in End : Own(f), Fresh,
         NEW e \in End, NEW m \in Msg, Send(e, m)
  PROVE  (\A f \in End : Own(f)') /\ Fresh'
<1>1. sendq \in [End -> Seq(Msg)] /\ sent \in [End -> Seq(Msg)]
      /\ sendq[e] \in Seq(Msg) /\ sent[e] \in Seq(Msg)
  BY DEF SendType
<1>2. From[type][m] = e /\ m \notin ToSet(sent[e]) /\ type' = type
      /\ sent' = [sent EXCEPT ![e] = Append(sent[e], m)]
  BY DEF Send
<1>3. ToSet(<<>>) = {} /\ ToSet(<<m>>) = {m} /\ ToSet(<<m, m>>) = {m}
  <2>1. DOMAIN <<>> = {} /\ DOMAIN <<m>> = {1} /\ DOMAIN <<m, m>> = {1, 2}
        /\ <<m>>[1] = m /\ <<m, m>>[1] = m /\ <<m, m>>[2] = m
    OBVIOUS
  <2> QED
    BY <2>1 DEF ToSet
<1>4. \E q : /\ sendq' = [sendq EXCEPT ![e] = q] /\ ToSet(q) \subseteq ToSet(sendq[e]) \cup {m}
             /\ \A x \in Msg : x # m => off'[x] = off[x]
  <2>1. CASE SendQueued(e, m)
    <3>1. ToSet(Append(sendq[e], m)) = ToSet(sendq[e]) \cup {m}
      BY <1>1, AppendOnce
    <3> QED
      BY <2>1, <3>1 DEF SendQueued
  <2>2. CASE SendThrows(e, m)
    BY <1>3, <2>2 DEF SendThrows
  <2>3. ASSUME NEW j, NEW n, SendWritten(e, m, j, n)
        PROVE  \E q : /\ sendq' = [sendq EXCEPT ![e] = q] /\ ToSet(q) \subseteq ToSet(sendq[e]) \cup {m}
                      /\ \A x \in Msg : x # m => off'[x] = off[x]
    <3>1. PICK q \in {<<>>, <<m>>, <<m, m>>} : sendq' = [sendq EXCEPT ![e] = q]
      BY <2>3 DEF SendWritten, Requeued
    <3>2. ToSet(q) \subseteq {m}
      BY <1>3, <3>1
    <3>3. \A x \in Msg : x \notin ToSet(<<m>>) => off'[x] = off[x]
      <4>1. <<m>> \in Seq(Msg) /\ Transmit(e, <<m>>, j, n)
        BY <2>3 DEF SendWritten
      <4> QED
        BY <4>1, TransmitOnly
    <3> QED
      BY <1>3, <3>1, <3>2, <3>3
  <2> QED
    BY <2>1, <2>2, <2>3 DEF Send
<1>5. PICK q : /\ sendq' = [sendq EXCEPT ![e] = q] /\ ToSet(q) \subseteq ToSet(sendq[e]) \cup {m}
               /\ \A x \in Msg : x # m => off'[x] = off[x]
  BY <1>4
<1>6. PICK t : t = Append(sent[e], m) /\ ToSet(t) = ToSet(sent[e]) \cup {m} /\ IsInjective(t)
  <2>1. IsInjective(sent[e])
    BY DEF Own
  <2> QED
    BY <1>1, <1>2, <2>1, AppendOnce
<1>7. sent' = [sent EXCEPT ![e] = t]
  BY <1>2, <1>6
<1>8. ASSUME NEW f \in End PROVE Own(f)'
  <2>1. CASE f = e
    <3>1. sent'[f] = t /\ sendq'[f] = q
      BY <1>1, <1>5, <1>7, <2>1
    <3>2. ToSet(q) \subseteq ToSet(t) /\ \A x \in ToSet(t) : From[type][x] = f
      BY <1>2, <1>5, <1>6, <2>1 DEF Own
    <3> QED
      BY <1>2, <1>6, <3>1, <3>2 DEF Own
  <2>2. CASE f # e
    <3>1. sent'[f] = sent[f] /\ sendq'[f] = sendq[f]
      BY <1>1, <1>5, <1>7, <2>2
    <3> QED
      BY <1>2, <3>1 DEF Own
  <2> QED
    BY <2>1, <2>2
<1>9. ASSUME NEW x \in Msg, x \notin ToSet(sent'[From[type][x]]) PROVE off'[x] = 0
  <2>1. x # m /\ x \notin ToSet(sent[From[type][x]])
    <3>1. CASE From[type][x] = e
      <4>1. sent'[From[type][x]] = t
        BY <1>1, <1>7, <3>1
      <4> QED
        BY <1>6, <1>9, <3>1, <4>1
    <3>2. CASE From[type][x] # e
      <4>1. sent'[From[type][x]] = sent[From[type][x]]
        BY <1>1, <1>7, <3>2, SenderEnd
      <4> QED
        BY <1>2, <1>9, <3>2, <4>1
    <3> QED
      BY <3>1, <3>2
  <2> QED
    BY <1>5, <2>1 DEF Fresh
<1> QED
  BY <1>2, <1>8, <1>9 DEF Fresh

LEMMA OwnSteps ==
  SendType /\ WireType /\ ReadType /\ LifeType /\ OwnInv /\ [Next]_vars => OwnInv'
<1> SUFFICES ASSUME SendType, WireType, ReadType, LifeType, OwnInv, [Next]_vars PROVE OwnInv'
  OBVIOUS
<1>1. (\A f \in End : Own(f)) /\ Fresh /\ Plain
  BY DEF OwnInv
<1>2. ASSUME UNCHANGED <<type, sent, sendq, off>> PROVE (\A f \in End : Own(f)') /\ Fresh'
  BY <1>1, <1>2, KeepOwn
<1>3. ASSUME UNCHANGED <<type, pendingfd>> PROVE Plain'
  BY <1>1, <1>3 DEF Plain
<1>4. ASSUME NEW e \in End, NEW got, type' = type, pendingfd' = [pendingfd EXCEPT ![e] = Received(e, got)]
      PROVE  Plain'
  <2>1. type # "unix" => Received(e, got) = pendingfd[e]
    BY DEF Received
  <2>2. pendingfd \in [End -> Msg \cup {Nil}]
    BY DEF ReadType
  <2> QED
    BY <1>1, <1>4, <2>1, <2>2 DEF Plain
<1>5. ASSUME NEW m \in Msg, Send(From[type][m], m) PROVE OwnInv'
  <2>1. PICK e \in End : e = From[type][m] /\ Send(e, m)
    BY <1>5, SenderEnd
  <2>2. UNCHANGED <<type, pendingfd>>
    BY <2>1 DEF Send, reader
  <2> QED
    BY <1>1, <1>3, <2>1, <2>2, SendOwn DEF OwnInv
<1>6. CASE Dial \/ Accept \/ Wake \/ UNCHANGED vars
  <2>1. UNCHANGED <<type, sent, sendq, off, pendingfd>>
    BY <1>6 DEF Dial, Accept, Wake, vars, socks, reader
  <2> QED
    BY <1>2, <1>3, <2>1 DEF OwnInv
<1>7. ASSUME NEW e \in End, NEW j, NEW n, Flush(e, j, n), UNCHANGED <<type, sent, pendingfd>>
      PROVE  OwnInv'
  BY <1>1, <1>3, <1>7, FlushOwn DEF OwnInv
<1>8. CASE Connecting
  BY <1>7, <1>8 DEF Connecting, Connected, End, reader
<1>9. ASSUME NEW e \in End, Writing(e) PROVE OwnInv'
  BY <1>7, <1>9 DEF Writing, OnWritable, reader
<1>10. ASSUME NEW e \in End, NEW j, NEW n, DestroySoon(e, j, n) PROVE OwnInv'
  BY <1>7, <1>10 DEF DestroySoon, reader
<1>11. ASSUME NEW e \in End, OnEnd(e) \/ StaleNotification(e) \/ Pause(e) \/ Resume(e) \/ Destroy(e)
       PROVE  OwnInv'
  <2>1. UNCHANGED <<type, sent, sendq, off, pendingfd>>
    BY <1>11 DEF OnEnd, StaleNotification, Pause, Resume, Destroy, socks, reader
  <2> QED
    BY <1>2, <1>3, <2>1 DEF OwnInv
<1>12. ASSUME NEW e \in End, OnReadable(e) \/ RecvThrows(e) PROVE OwnInv'
  <2>1. /\ UNCHANGED <<type, sent, sendq, off>>
        /\ \E got : pendingfd' = [pendingfd EXCEPT ![e] = Received(e, got)]
    BY <1>12 DEF OnReadable, RecvThrows, socks
  <2> QED
    BY <1>2, <1>4, <2>1 DEF OwnInv
<1>13. ASSUME NEW e \in End, FlushThrows(e) PROVE OwnInv'
  <2>1. /\ UNCHANGED <<type, sent, off, pendingfd>>
        /\ sendq[e] # <<>> /\ sendq' = [sendq EXCEPT ![e] = Tail(sendq[e])]
    BY <1>13 DEF FlushThrows, reader
  <2>2. sendq \in [End -> Seq(Msg)] /\ sendq[e] \in Seq(Msg)
    BY DEF SendType
  <2>3. ToSet(Tail(sendq[e])) \subseteq ToSet(sendq[e])
    BY <2>1, <2>2, TailOnce
  <2>4. \A f \in End : ToSet(sendq'[f]) \subseteq ToSet(sendq[f])
    BY <2>1, <2>2, <2>3
  <2> QED
    BY <1>1, <1>3, <2>1, <2>4, KeepOwn DEF OwnInv
<1> QED
  BY <1>5, <1>6, <1>8, <1>9, <1>10, <1>11, <1>12, <1>13 DEF Next, Callback

LEMMA OwnInit == Init => OwnInv
<1> SUFFICES ASSUME Init PROVE OwnInv
  OBVIOUS
<1>1. \A e \in End : sent[e] = <<>> /\ sendq[e] = <<>> /\ pendingfd[e] = Nil
  BY DEF Init
<1>2. \A m \in Msg : off[m] = 0
  BY DEF Init
<1>3. ToSet(<<>>) = {} /\ IsInjective(<<>>)
  <2>1. DOMAIN <<>> = {}
    OBVIOUS
  <2> QED
    BY <2>1 DEF ToSet, IsInjective
<1> QED
  BY <1>1, <1>2, <1>3 DEF OwnInv, Own, Fresh, Plain

-----------------------------------------------------------------------------
(* From the queue over the wire to the reader                              *)

\* The queue holds the last messages sent, and only of the first is part written.
Ahead(e) == Len(sent[e]) - Len(sendq[e])
QueueLast(e) ==
  /\ Len(sendq[e]) <= Len(sent[e])
  /\ \A n \in 1 .. Len(sendq[e]) : sendq[e][n] = sent[e][Ahead(e) + n]
  /\ \A n \in 2 .. Len(sendq[e]) : off[sendq[e][n]] = 0
WriteAt(e) == <<Ahead(e) + 1, IF sendq[e] = <<>> THEN 0 ELSE off[sendq[e][1]]>>

\* What e reads is the message after those it has, its part after those it keeps;
\* its descriptor came with its first byte.
Count(e)  == Len(delivered[e]) + 1
ReadAt(e) == <<Count(e), Len(cache[e]) * (HeaderSize + PayloadMax)>>
Current(e, m) ==
  /\ Len(cache[e]) < Parts(m)
  /\ \A n \in 1 .. Len(cache[e]) : cache[e][n] = <<m, n>>
  /\ cur[e] # NoPart => cur[e] = <<m, Len(cache[e]) + 1>>
  /\ type = "unix" /\ m \in Carrying /\ (buf[e] # <<>> \/ cache[e] # <<>>) => pendingfd[e] = m
Reads(e) ==
  IF Count(e) > Len(sent[Peer(e)]) THEN cache[e] = <<>> /\ cur[e] = NoPart
  ELSE Current(e, sent[Peer(e)][Count(e)])

\* Nothing is missing in between.
Flow(e) ==
  /\ QueueLast(Peer(e)) /\ Reads(e)
  /\ Leads(sent[Peer(e)], ReadAt(e), buf[e] \o wire[e], WriteAt(Peer(e)))

OwedAt(e, i) ==
  [msg |-> sent[Peer(e)][i],
   fd  |-> IF type = "unix" /\ sent[Peer(e)][i] \in Carrying THEN sent[Peer(e)][i] ELSE Nil]
Exact(e) ==
  /\ ~torn[e] /\ Len(delivered[e]) <= Len(sent[Peer(e)])
  /\ \A i \in 1 .. Len(delivered[e]) : delivered[e][i] = OwedAt(e, i)

OrderAt(e) == ~doubled[Peer(e)] => Exact(e) /\ (life[e] # "destroyed" => Flow(e))
OrderInv   == OwnInv /\ \A e \in End : OrderAt(e)

\* Nothing that e reads, or that its peer has for it, changes.
Same(e) ==
  /\ type' = type /\ sent'[Peer(e)] = sent[Peer(e)] /\ sendq'[Peer(e)] = sendq[Peer(e)]
  /\ \A m \in ToSet(sendq[Peer(e)]) : off'[m] = off[m]
  /\ wire'[e] = wire[e] /\ buf'[e] = buf[e] /\ cur'[e] = cur[e] /\ cache'[e] = cache[e]
  /\ delivered'[e] = delivered[e] /\ pendingfd'[e] = pendingfd[e] /\ torn'[e] = torn[e]
  /\ doubled[Peer(e)] => doubled'[Peer(e)]
  /\ life[e] = "destroyed" => life'[e] = "destroyed"

LEMMA SameOrder ==
  ASSUME SendType, NEW e \in End, Same(e), OrderAt(e)
  PROVE  OrderAt(e)'
<1>1. PICK p \in End : p = Peer(e)
  BY PeerOther
<1>2. /\ type' = type /\ sent'[p] = sent[p] /\ sendq'[p] = sendq[p]
      /\ \A m \in ToSet(sendq[p]) : off'[m] = off[m]
      /\ wire'[e] = wire[e] /\ buf'[e] = buf[e] /\ cur'[e] = cur[e] /\ cache'[e] = cache[e]
      /\ delivered'[e] = delivered[e] /\ pendingfd'[e] = pendingfd[e] /\ torn'[e] = torn[e]
      /\ doubled[p] => doubled'[p]
      /\ life[e] = "destroyed" => life'[e] = "destroyed"
  BY <1>1 DEF Same
<1>3. Exact(e) => Exact(e)'
  BY <1>1, <1>2 DEF Exact, OwedAt
<1>4. sendq[p] \in Seq(Msg)
  BY DEF SendType
<1>5. \A n \in 1 .. Len(sendq[p]) : off'[sendq[p][n]] = off[sendq[p][n]]
  <2>1. \A n \in 1 .. Len(sendq[p]) : sendq[p][n] \in ToSet(sendq[p])
    BY <1>4 DEF ToSet
  <2> QED
    BY <1>2, <2>1
<1>6. QueueLast(p) => QueueLast(p)'
  <2>1. \A n \in 2 .. Len(sendq[p]) : n \in 1 .. Len(sendq[p])
    BY <1>4
  <2> QED
    BY <1>2, <1>5, <2>1 DEF QueueLast, Ahead
<1>7. WriteAt(p)' = WriteAt(p)
  <2>1. sendq[p] # <<>> => 1 \in 1 .. Len(sendq[p])
    BY <1>4
  <2> QED
    BY <1>2, <1>5, <2>1 DEF WriteAt, Ahead
<1>8. Reads(e) => Reads(e)'
  BY <1>1, <1>2 DEF Reads, Current, Count
<1>9. ReadAt(e)' = ReadAt(e)
  BY <1>2 DEF ReadAt, Count
<1>10. Flow(e) => Flow(e)'
  BY <1>1, <1>2, <1>6, <1>7, <1>8, <1>9 DEF Flow
<1> QED
  BY <1>1, <1>2, <1>3, <1>10 DEF OrderAt

\* A flush goes on where the one before stopped.
LEMMA FlushFlow ==
  ASSUME SendType, WireType, NEW e \in End, Own(e), QueueLast(e),
         NEW j, NEW n, Flush(e, j, n), UNCHANGED sent, ~Kept(e, sendq[e]), ~eof[e],
         NEW x, NEW b \in Seq(Byte), Leads(sent[e], x, b \o wire[Peer(e)], WriteAt(e))
  PROVE  QueueLast(e)' /\ Leads(sent[e], x, b \o wire'[Peer(e)], WriteAt(e)')
<1>1. PICK q \in Seq(Msg), s \in Seq(Msg) : q = sendq[e] /\ s = sent[e]
  BY DEF SendType
<1>2. PICK k \in Nat, z \in Nat : k = Ahead(e) /\ z = Len(q) /\ k + z = Len(s)
  <2>1. Len(q) \in Nat /\ Len(s) \in Nat /\ Len(q) <= Len(s) /\ Ahead(e) = Len(s) - Len(q)
    BY <1>1 DEF QueueLast, Ahead
  <2>2. Ahead(e) \in Nat /\ Ahead(e) + Len(q) = Len(s)
    BY <2>1
  <2> QED
    BY <2>1, <2>2
<1>3. (\A i \in 1 .. Len(q) : q[i] = s[k + i]) /\ \A i \in 2 .. Len(q) : off[q[i]] = 0
  BY <1>1, <1>2 DEF QueueLast
<1>4. j \in 0 .. Len(q) /\ Transmit(e, q, j, n)
  BY <1>1, FlushQueue DEF Flush
<1>5. n \in IF j = Len(q) THEN {0} ELSE 0 .. Len(Rest(q[j + 1])) - 1
  BY <1>4 DEF Transmit, Reaches
<1>6. n \in Nat /\ (j < Len(q) => n < Len(Rest(q[j + 1]))) /\ (j = Len(q) => n = 0)
  <2>1. CASE j = Len(q)
    BY <1>4, <1>5, <2>1
  <2>2. CASE j # Len(q)
    <3>1. j + 1 \in 1 .. Len(q) /\ q[j + 1] \in Msg
      BY <1>4, <2>2
    <3>2. Len(Rest(q[j + 1])) \in Nat
      BY <3>1, RestBytes
    <3> QED
      BY <1>5, <2>2, <3>2
  <2> QED
    BY <2>1, <2>2
<1>7. PICK y : y = <<k + j + 1, IF j = Len(q) THEN 0 ELSE off[q[j + 1]] + n>>
  OBVIOUS
<1>8. PICK w : w = Bytes(q, j, n) /\ w \in Seq(Byte)
  <2>1. j < Len(q) => n <= Len(Rest(q[j + 1]))
    <3>1. j < Len(q) => Len(Rest(q[j + 1])) \in Nat
      <4>1. j < Len(q) => j + 1 \in 1 .. Len(q) /\ q[j + 1] \in Msg
        BY <1>4
      <4> QED
        BY <4>1, RestBytes
    <3> QED
      BY <1>6, <3>1
  <2> QED
    BY <1>4, <1>6, <2>1, BytesType
<1>9. WriteAt(e) = <<k + 1, IF q = <<>> THEN 0 ELSE off[q[1]]>>
  BY <1>1, <1>2 DEF WriteAt
<1>10. Leads(s, WriteAt(e), w, y)
  <2>1. k + Len(q) <= Len(s)
    BY <1>2
  <2> QED
    BY <1>3, <1>4, <1>6, <1>7, <1>8, <1>9, <2>1, BytesLead, SMTT(30)
<1>11. PICK p \in End, c \in Seq(Byte) : p = Peer(e) /\ c = wire[p] /\ wire \in [End -> Seq(Byte)]
  BY PeerOther DEF WireType
<1>12. wire'[p] = c \o w
  <2>1. wire' = [wire EXCEPT ![p] = wire[p] \o Bytes(q, j, n)]
    BY <1>1, <1>4, <1>11 DEF Transmit
  <2> QED
    BY <1>8, <1>11, <2>1
<1>13. Leads(s, x, b \o wire'[p], y)
  <2>1. Leads(s, x, (b \o c) \o w, y)
    <3>1. Leads(s, x, b \o c, WriteAt(e)) /\ b \o c \in Seq(Byte)
      BY <1>1, <1>11, ConcatType
    <3> QED
      BY <1>8, <1>10, <3>1, LeadsConcat
  <2> QED
    <3>1. (b \o c) \o w = b \o (c \o w)
      BY <1>8, <1>11, ConcatAssoc, SMTT(30)
    <3> QED
      BY <1>12, <2>1, <3>1
<1>14. PICK l, t : /\ l \in Nat /\ l = Len(q) - j /\ t = SubSeq(q, j + 1, Len(q))
                   /\ t \in Seq(Msg) /\ Len(t) = l /\ \A i \in 1 .. l : t[i] = q[j + i]
  <2>1. \E t \in Seq(Msg) : t = SubSeq(q, j + 1, Len(q)) /\ Len(t) = Len(q) - j
                           /\ (t # <<>> <=> j < Len(q))
    BY <1>4, SuffixType
  <2>2. \A i \in 1 .. Len(q) - j : SubSeq(q, j + 1, Len(q))[i] = q[j + i]
    BY <1>4
  <2>3. Len(q) - j \in Nat
    BY <1>4
  <2> QED
    BY <2>1, <2>2, <2>3
<1>15. sendq'[e] = t /\ sent'[e] = s
  BY <1>1, <1>14 DEF Flush, SendType
<1>16. Ahead(e)' = k + j
  <2>1. Ahead(e)' = (k + z) - l /\ l = z - j /\ j \in 0 .. z
    BY <1>2, <1>4, <1>14, <1>15 DEF Ahead
  <2> QED
    BY <2>1
<1>17. \A i \in 1 .. l : j + i \in 1 .. Len(q) /\ k + (j + i) = (k + j) + i
  BY <1>2, <1>4, <1>14
<1>18. ASSUME NEW i \in 2 .. l PROVE off'[t[i]] = 0
  <2>1. i \in 1 .. l /\ j + i \in 2 .. Len(q) /\ j + 1 \in 1 .. Len(q) /\ j < Len(q)
        /\ k + (j + i) \in 1 .. Len(s) /\ k + (j + 1) \in 1 .. Len(s)
        /\ k + (j + i) # k + (j + 1)
    <3>1. l = z - j /\ j \in 0 .. z /\ Len(s) = k + z /\ Len(q) = z
      BY <1>2, <1>4, <1>14
    <3> QED
      BY <3>1
  <2>2. s[k + (j + i)] # s[k + (j + 1)]
    <3>1. IsInjective(s) /\ DOMAIN s = 1 .. Len(s)
      BY <1>1 DEF Own
    <3> QED
      BY <2>1, <3>1 DEF IsInjective
  <2>3. q[j + i] # q[j + 1] /\ off[q[j + i]] = 0 /\ t[i] = q[j + i] /\ q[j + i] \in Msg
    <3>1. q[j + i] = s[k + (j + i)] /\ q[j + 1] = s[k + (j + 1)]
      BY <1>3, <2>1
    <3>2. off[q[j + i]] = 0 /\ t[i] = q[j + i]
      BY <1>3, <1>14, <2>1
    <3>3. j + i \in 1 .. Len(q)
      BY <2>1
    <3> QED
      BY <2>2, <3>1, <3>2, <3>3
  <2>4. off' = [off EXCEPT ![q[j + 1]] = off[q[j + 1]] + n] /\ off \in [Msg -> Nat]
    BY <1>4, <2>1 DEF Transmit, SendType
  <2> QED
    BY <2>3, <2>4
<1>19. QueueLast(e)'
  <2>1. Len(sendq'[e]) <= Len(sent'[e])
    BY <1>2, <1>4, <1>14, <1>15
  <2>2. \A i \in 1 .. Len(sendq'[e]) : sendq'[e][i] = sent'[e][Ahead(e)' + i]
    <3> SUFFICES ASSUME NEW i \in 1 .. l PROVE t[i] = s[(k + j) + i]
      BY <1>14, <1>15, <1>16
    <3>1. q[j + i] = s[k + (j + i)]
      BY <1>3, <1>17
    <3> QED
      BY <1>14, <1>17, <3>1
  <2> QED
    BY <1>14, <1>15, <1>18, <2>1, <2>2 DEF QueueLast
<1>20. WriteAt(e)' = y
  <2>1. CASE j = Len(q)
    <3>1. t = <<>>
      BY <1>4, <1>14, <2>1
    <3> QED
      BY <1>7, <1>15, <1>16, <2>1, <3>1 DEF WriteAt
  <2>2. CASE j # Len(q)
    <3>1. 1 \in 1 .. l /\ t # <<>> /\ j < Len(q) /\ j + 1 \in 1 .. Len(q)
      BY <1>4, <1>14, <2>2
    <3>2. t[1] = q[j + 1] /\ q[j + 1] \in Msg
      BY <1>14, <3>1
    <3>3. off'[q[j + 1]] = off[q[j + 1]] + n
      BY <1>4, <3>1, <3>2 DEF Transmit, SendType
    <3> QED
      BY <1>7, <1>15, <1>16, <2>2, <3>1, <3>2, <3>3 DEF WriteAt
  <2> QED
    BY <2>1, <2>2
<1> QED
  BY <1>1, <1>11, <1>13, <1>19, <1>20

LEMMA LeadsEnd ==
  ASSUME NEW S, NEW s, NEW x, NEW y, NEW w \in Seq(S), Leads(s, x, w, y), x[1] \notin 1 .. Len(s)
  PROVE  w = <<>>
<1>1. PICK f : f[1] = x /\ Path(s, w, f)
  BY DEF Leads
<1>2. ASSUME w # <<>> PROVE FALSE
  <2>1. 1 \in 1 .. Len(w)
    BY <1>2
  <2>2. f[1][1] \in 1 .. Len(s)
    BY <1>1, <2>1 DEF Path
  <2> QED
    BY <1>1, <2>2
<1> QED
  BY <1>2

\* What a reader has, when its peer sends one more message.
LEMMA ReadsLonger ==
  ASSUME SendType, WireType, ReadType, NEW e \in End, NEW m \in Msg,
         sent' = [sent EXCEPT ![e] = Append(sent[e], m)], UNCHANGED <<type, reader>>
  PROVE  /\ Exact(Peer(e)) => Exact(Peer(e))'
         /\ Flow(Peer(e)) =>
              Reads(Peer(e))' /\ Leads(sent'[e], ReadAt(Peer(e))', buf[Peer(e)] \o wire[Peer(e)], WriteAt(e))
<1>1. PICK r \in End : r = Peer(e) /\ Peer(r) = e
  BY PeerOther
<1>2. PICK s \in Seq(Msg), t \in Seq(Msg) : s = sent[e] /\ t = Append(s, m) /\ sent'[e] = t
  <2>1. sent \in [End -> Seq(Msg)]
    BY DEF SendType
  <2>2. sent[e] \in Seq(Msg) /\ Append(sent[e], m) \in Seq(Msg) /\ sent'[e] = Append(sent[e], m)
    BY <2>1
  <2> QED
    BY <2>2
<1>3. Len(t) = Len(s) + 1 /\ Len(s) \in Nat /\ (\A i \in 1 .. Len(s) : t[i] = s[i]) /\ t[Len(s) + 1] = m
  BY <1>2
<1>4. /\ type' = type /\ buf' = buf /\ cur' = cur /\ cache' = cache
      /\ pendingfd' = pendingfd /\ delivered' = delivered /\ torn' = torn
  BY DEF reader
<1>5. Len(delivered[r]) \in Nat
  BY DEF ReadType
<1>6. ASSUME Exact(r) PROVE Exact(r)'
  <2>1. ~torn[r] /\ Len(delivered[r]) <= Len(s)
        /\ \A i \in 1 .. Len(delivered[r]) : delivered[r][i] = OwedAt(r, i)
    BY <1>1, <1>2, <1>6 DEF Exact
  <2>2. \A i \in 1 .. Len(delivered[r]) : i \in 1 .. Len(s)
    BY <1>3, <1>5, <2>1
  <2>3. \A i \in 1 .. Len(delivered[r]) : OwedAt(r, i)' = OwedAt(r, i)
    BY <1>1, <1>2, <1>3, <1>4, <2>2 DEF OwedAt
  <2>4. Len(delivered'[r]) <= Len(sent'[e])
    BY <1>2, <1>3, <1>4, <1>5, <2>1
  <2> QED
    BY <1>1, <1>4, <2>1, <2>3, <2>4 DEF Exact
<1>7. Count(r)' = Count(r) /\ ReadAt(r)' = ReadAt(r) /\ Count(r) \in Nat \ {0}
      /\ ReadAt(r)[1] = Count(r)
  BY <1>4, <1>5 DEF Count, ReadAt
<1>8. ASSUME Flow(r) PROVE Reads(r)'
  <2>1. Reads(r) /\ Leads(s, ReadAt(r), buf[r] \o wire[r], WriteAt(e))
    BY <1>1, <1>2, <1>8 DEF Flow
  <2>2. CASE Count(r) > Len(t)
    BY <1>1, <1>2, <1>3, <1>4, <1>7, <2>1, <2>2 DEF Reads
  <2>3. CASE Count(r) <= Len(s)
    <3>1. t[Count(r)] = s[Count(r)] /\ ~(Count(r) > Len(s)) /\ ~(Count(r) > Len(t))
      BY <1>3, <1>7, <2>3
    <3>2. Current(r, s[Count(r)])
      BY <1>1, <1>2, <2>1, <3>1 DEF Reads
    <3>3. Current(r, t[Count(r)])'
      BY <1>4, <1>2, <1>7, <3>1, <3>2 DEF Current
    <3> QED
      BY <1>1, <1>2, <1>7, <3>1, <3>3 DEF Reads
  <2>4. CASE Count(r) = Len(s) + 1
    <3>1. cache[r] = <<>> /\ cur[r] = NoPart
      <4>1. Count(r) > Len(s)
        BY <1>3, <2>4
      <4> QED
        BY <1>1, <1>2, <2>1, <4>1 DEF Reads
    <3>2. buf[r] \in Seq(Byte) /\ wire[r] \in Seq(Byte)
      BY DEF ReadType, WireType
    <3>3. buf[r] \o wire[r] = <<>>
      <4>1. ReadAt(r)[1] \notin 1 .. Len(s)
        BY <1>3, <1>7, <2>4
      <4>2. buf[r] \o wire[r] \in Seq(Byte)
        BY <3>2, ConcatType
      <4> QED
        BY <2>1, <4>1, <4>2, LeadsEnd
    <3>4. buf[r] = <<>>
      BY <3>2, <3>3
    <3>5. Len(cache[r]) = 0 /\ Len(cache[r]) < Parts(m)
      BY <3>1, PartBounds
    <3>6. Current(r, m)'
      BY <1>4, <3>1, <3>4, <3>5 DEF Current
    <3>7. ~(Count(r) > Len(t)) /\ t[Count(r)] = m
      BY <1>3, <2>4
    <3> QED
      BY <1>1, <1>2, <1>7, <3>6, <3>7 DEF Reads
  <2> QED
    BY <1>3, <1>7, <2>2, <2>3, <2>4
<1>9. ASSUME Flow(r) PROVE Leads(t, ReadAt(r)', buf[r] \o wire[r], WriteAt(e))
  <2>1. Leads(s, ReadAt(r), buf[r] \o wire[r], WriteAt(e))
    BY <1>1, <1>2, <1>9 DEF Flow
  <2>2. Leads(Append(s, m), ReadAt(r), buf[r] \o wire[r], WriteAt(e))
    BY <2>1, LeadsLonger
  <2> QED
    BY <1>2, <1>7, <2>2
<1> QED
  BY <1>1, <1>2, <1>6, <1>8, <1>9

\* A message that is sent comes behind all that was sent before.
LEMMA SendFlow ==
  ASSUME SendType, WireType, ReadType, FlagType, LifeType, OwnInv, \A f \in End : EndTold(f),
         NEW e \in End, NEW m \in Msg, Send(e, m), OrderAt(Peer(e))
  PROVE  OrderAt(Peer(e))'
<1>1. PICK r \in End : r = Peer(e) /\ Peer(r) = e /\ r # e
  BY PeerOther
<1>2. /\ m \notin ToSet(sent[e]) /\ From[type][m] = e
      /\ sent' = [sent EXCEPT ![e] = Append(sent[e], m)] /\ UNCHANGED <<type, reader>>
  BY DEF Send
<1>3. /\ Exact(r) => Exact(r)'
      /\ Flow(r) => Reads(r)' /\ Leads(sent'[e], ReadAt(r)', buf[r] \o wire[r], WriteAt(e))
  BY <1>1, <1>2, ReadsLonger
<1>4. off[m] = 0
  BY <1>2 DEF OwnInv, Fresh
<1>5. /\ sendq \in [End -> Seq(Msg)] /\ sent \in [End -> Seq(Msg)] /\ off \in [Msg -> Nat]
      /\ doubled \in [End -> BOOLEAN]
      /\ life \in [End -> {"none", "connecting", "open", "destroyed"}]
  BY DEF SendType, FlagType, LifeType
<1>6. PICK s \in Seq(Msg), q \in Seq(Msg) : s = sent[e] /\ q = sendq[e]
  BY <1>5
<1>7. PICK t \in Seq(Msg) : t = Append(s, m) /\ sent'[e] = t /\ Len(t) = Len(s) + 1
            /\ Len(s) \in Nat /\ (\A i \in 1 .. Len(s) : t[i] = s[i]) /\ t[Len(s) + 1] = m
  <2>1. sent'[e] = Append(s, m) /\ Len(s) \in Nat
    BY <1>2, <1>5, <1>6
  <2> QED
    BY <2>1, AppendAt
<1>8. buf'[r] = buf[r] /\ buf[r] \in Seq(Byte) /\ wire[r] \in Seq(Byte)
  BY <1>2 DEF reader, ReadType, WireType
<1>9. CASE SendQueued(e, m)
  <2>1. /\ sendq'[e] = Append(q, m) /\ off' = off /\ wire' = wire /\ life' = life /\ doubled' = doubled
    BY <1>5, <1>6, <1>9 DEF SendQueued
  <2>2. ASSUME Flow(r) PROVE Flow(r)'
    <3>1. QueueLast(e)
      BY <1>1, <2>2 DEF Flow
    <3>2. PICK k \in Nat, z \in Nat : k = Ahead(e) /\ z = Len(q) /\ k + z = Len(s)
      <4>1. Len(q) \in Nat /\ Len(q) <= Len(s) /\ Ahead(e) = Len(s) - Len(q)
        BY <1>6, <3>1 DEF QueueLast, Ahead
      <4>2. Ahead(e) \in Nat /\ Ahead(e) + Len(q) = Len(s)
        BY <1>7, <4>1
      <4> QED
        BY <4>1, <4>2
    <3>3. PICK u \in Seq(Msg) : u = Append(q, m) /\ sendq'[e] = u /\ Len(u) = z + 1
               /\ (\A i \in 1 .. z : u[i] = q[i]) /\ u[z + 1] = m
      BY <2>1, <3>2, AppendAt, ZenonT(30)
    <3>4. Ahead(e)' = k
      <4>1. Ahead(e)' = ((k + z) + 1) - (z + 1)
        BY <1>7, <3>2, <3>3 DEF Ahead
      <4> QED
        BY <4>1
    <3>5. ASSUME NEW i \in 1 .. z + 1 PROVE u[i] = t[k + i] /\ (i > 1 => off[u[i]] = 0)
      <4>1. CASE i \in 1 .. z
        <5>1. k + i \in 1 .. Len(s) /\ u[i] = q[i] /\ (i > 1 => i \in 2 .. z)
          BY <3>2, <3>3, <4>1
        <5>2. q[i] = s[k + i] /\ (i > 1 => off[q[i]] = 0)
          BY <1>6, <3>1, <3>2, <4>1, <5>1 DEF QueueLast
        <5> QED
          BY <1>7, <5>1, <5>2
      <4>2. CASE i = z + 1
        <5>1. k + i = Len(s) + 1
          BY <3>2, <4>2
        <5> QED
          BY <1>4, <1>7, <3>3, <4>2, <5>1
      <4> QED
        BY <4>1, <4>2
    <3>6. QueueLast(e)'
      <4>1. Len(sendq'[e]) <= Len(sent'[e])
        BY <1>7, <3>2, <3>3
      <4>2. \A i \in 1 .. Len(sendq'[e]) : sendq'[e][i] = sent'[e][Ahead(e)' + i]
        BY <1>7, <3>3, <3>4, <3>5
      <4>3. \A i \in 2 .. Len(sendq'[e]) : off'[sendq'[e][i]] = 0
        <5>1. \A i \in 2 .. z + 1 : i \in 1 .. z + 1 /\ i > 1
          OBVIOUS
        <5> QED
          BY <2>1, <3>3, <3>5, <5>1
      <4> QED
        BY <4>1, <4>2, <4>3 DEF QueueLast
    <3>7. WriteAt(e)' = WriteAt(e)
      <4>1. sendq'[e] # <<>> /\ (q = <<>> => z = 0 /\ u[1] = m) /\ (q # <<>> => u[1] = q[1])
        <5>1. q = <<>> => z = 0
          BY <3>2
        <5>2. q # <<>> => 1 \in 1 .. z
          BY <3>2
        <5>3. u # <<>>
          BY <3>3
        <5> QED
          BY <3>3, <5>1, <5>2, <5>3
      <4> QED
        BY <1>4, <1>6, <2>1, <3>2, <3>3, <3>4, <4>1 DEF WriteAt
    <3> QED
      BY <1>1, <1>3, <1>8, <2>1, <2>2, <3>6, <3>7 DEF Flow
  <2> QED
    BY <1>1, <1>3, <2>1, <2>2 DEF OrderAt
<1>10. ASSUME eof[e], life'[r] = life[r], doubled[e] => doubled'[e]
       PROVE  OrderAt(r)'
  <2>1. life'[r] = "destroyed"
    BY <1>1, <1>10 DEF EndTold
  <2> QED
    BY <1>1, <1>3, <1>10, <2>1 DEF OrderAt
<1>11. CASE SendThrows(e, m)
  <2>1. life'[r] = life[r] /\ doubled'[e] = doubled[e]
    BY <1>1, <1>5, <1>11 DEF SendThrows, Gone
  <2>2. eof[e]
    BY <1>11 DEF SendThrows
  <2>3. doubled[e] => doubled'[e]
    BY <2>1
  <2>4. OrderAt(r)'
    BY <1>10, <2>1, <2>2, <2>3
  <2> QED
    BY <1>1, <2>4
<1>12. ASSUME NEW j \in 0 .. 1, NEW n \in 0 .. Cap, SendWritten(e, m, j, n) PROVE OrderAt(r)'
  <2>1. /\ q = <<>> /\ Transmit(e, <<m>>, j, n) /\ life' = life
        /\ sendq'[e] = (IF j = 1 THEN <<>> ELSE Requeued(m))
        /\ doubled'[e] = (doubled[e] \/ (j = 0 /\ off'[m] = 0))
    BY <1>5, <1>6, <1>12 DEF SendWritten, Queueing
  <2>2. PICK d \in Seq(Msg) : d = <<m>> /\ Len(d) = 1 /\ d[1] = m /\ d # <<>> /\ Head(d) = m
    BY SingleAt
  <2>3. /\ j \in {0, 1} /\ n \in IF j = 1 THEN {0} ELSE 0 .. Len(Rest(m)) - 1
        /\ off' = (IF j < 1 THEN [off EXCEPT ![m] = off[m] + n] ELSE off)
    <3>1. /\ n \in IF j = Len(d) THEN {0} ELSE 0 .. Len(Rest(d[j + 1])) - 1
          /\ off' = (IF j < Len(d) THEN [off EXCEPT ![d[j + 1]] = off[d[j + 1]] + n] ELSE off)
      BY <2>1, <2>2 DEF Transmit, Reaches
    <3>2. CASE j = 0
      <4>1. d[j + 1] = m /\ j # Len(d) /\ j < Len(d)
        BY <2>2, <3>2
      <4> QED
        BY <3>1, <3>2, <4>1
    <3>3. CASE j = 1
      <4>1. j = Len(d) /\ ~(j < Len(d))
        BY <2>2, <3>3
      <4> QED
        BY <3>1, <3>3, <4>1
    <3>4. j = 0 \/ j = 1
      OBVIOUS
    <3> QED
      BY <3>2, <3>3, <3>4
  <2>4. n \in Nat /\ (j = 0 => n < Len(Rest(m))) /\ (j = 1 => n = 0)
    <3>1. Len(Rest(m)) \in Nat
      BY RestBytes
    <3> QED
      BY <2>3, <3>1
  <2>5. j = 0 => off'[m] = n
    BY <1>4, <1>5, <2>3, <2>4
  <2>6. ASSUME Kept(e, d) PROVE doubled'[e]
    <3>1. j = 0 /\ n = 0
      BY <2>1, <2>2, <2>6 DEF Kept, Transmit, Reaches
    <3> QED
      BY <2>1, <2>5, <3>1
  <2>7. ASSUME ~eof[e], ~doubled'[e], Flow(r) PROVE Flow(r)'
    <3>1. PICK k \in Nat : k = Len(s) /\ Len(t) = k + 1
      BY <1>7
    <3>2. PICK w : w = Bytes(d, j, n) /\ w \in Seq(Byte) /\ wire'[r] = wire[r] \o w
      <4>1. j < Len(d) => n <= Len(Rest(d[j + 1]))
        <5>1. Len(Rest(m)) \in Nat
          BY RestBytes
        <5>2. j < Len(d) => j = 0 /\ d[j + 1] = m
          BY <2>2, <2>3
        <5> QED
          BY <2>4, <5>1, <5>2
      <4>2. Bytes(d, j, n) \in Seq(Byte)
        <5>1. j \in 0 .. Len(d)
          BY <2>2, <2>3
        <5> QED
          BY <2>4, <4>1, <5>1, BytesType
      <4>3. wire' = [wire EXCEPT ![r] = wire[r] \o Bytes(d, j, n)]
        BY <1>1, <2>1, <2>2, <2>6, <2>7 DEF Transmit
      <4> QED
        BY <4>2, <4>3 DEF WireType
    <3>3. PICK y : y = <<k + j + 1, IF j = 1 THEN 0 ELSE n>>
      OBVIOUS
    <3>4. Leads(t, <<k + 1, 0>>, w, y)
      <4>1. /\ k + Len(d) <= Len(t) /\ (\A i \in 1 .. Len(d) : d[i] = t[k + i])
            /\ (\A i \in 2 .. Len(d) : off[d[i]] = 0) /\ j \in 0 .. Len(d)
        BY <1>7, <2>2, <2>3, <3>1
      <4>2. j < Len(d) => n < Len(Rest(d[j + 1]))
        <5>1. j < Len(d) => j = 0 /\ d[j + 1] = m
          BY <2>2, <2>3
        <5> QED
          BY <2>4, <5>1
      <4>3. j = Len(d) => n = 0
        BY <2>2, <2>4
      <4>4. Leads(t, <<k + 1, IF d = <<>> THEN 0 ELSE off[d[1]]>>, Bytes(d, j, n),
                  <<k + j + 1, IF j = Len(d) THEN 0 ELSE off[d[j + 1]] + n>>)
        BY <2>4, <4>1, <4>2, <4>3, BytesLead
      <4>5. (IF j = Len(d) THEN 0 ELSE off[d[j + 1]] + n) = IF j = 1 THEN 0 ELSE n
        <5>1. j # 1 => j = 0 /\ d[j + 1] = m /\ 0 + n = n
          BY <2>2, <2>3, <2>4
        <5> QED
          BY <1>4, <2>2, <5>1
      <4>6. (IF d = <<>> THEN 0 ELSE off[d[1]]) = 0
        BY <1>4, <2>2
      <4> QED
        BY <3>2, <3>3, <4>4, <4>5, <4>6
    <3>5. WriteAt(e) = <<k + 1, 0>>
      <4>1. Ahead(e) = k
        BY <1>6, <2>1, <3>1 DEF Ahead
      <4> QED
        BY <1>6, <2>1, <4>1 DEF WriteAt
    <3>6. Leads(t, ReadAt(r)', buf[r] \o wire'[r], y)
      <4>1. Leads(t, ReadAt(r)', buf[r] \o wire[r], <<k + 1, 0>>)
        BY <1>3, <1>7, <2>7, <3>5
      <4>2. buf[r] \o wire[r] \in Seq(Byte)
        BY <1>8, ConcatType
      <4>3. Leads(t, ReadAt(r)', (buf[r] \o wire[r]) \o w, y)
        BY <3>2, <3>4, <4>1, <4>2, LeadsConcat
      <4>4. (buf[r] \o wire[r]) \o w = buf[r] \o (wire[r] \o w)
        <5>1. PICK b \in Seq(Byte), c \in Seq(Byte) : b = buf[r] /\ c = wire[r]
          BY <1>8
        <5>2. b \in Seq(Byte) /\ c \in Seq(Byte) /\ w \in Seq(Byte)
          BY <3>2
        <5>3. (b \o c) \o w = b \o (c \o w)
          BY <5>2, ConcatAssoc, SMTT(30)
        <5> QED
          BY <5>1, <5>3, Zenon
      <4> QED
        BY <3>2, <4>3, <4>4
    <3>7. QueueLast(e)' /\ WriteAt(e)' = y
      <4>1. CASE j = 1
        <5>1. sendq'[e] = <<>> /\ Len(sendq'[e]) = 0
          BY <2>1, <4>1
        <5>2. Ahead(e)' = k + 1 /\ k + j = k + 1
          BY <1>7, <3>1, <4>1, <5>1 DEF Ahead
        <5>3. QueueLast(e)'
          BY <1>7, <5>1 DEF QueueLast
        <5> QED
          BY <3>3, <4>1, <5>1, <5>2, <5>3 DEF WriteAt
      <4>2. CASE j = 0
        <5>1. sendq'[e] = d
          <6>1. off'[m] # 0
            BY <2>1, <2>7, <4>2
          <6> QED
            BY <2>1, <2>2, <4>2, <6>1 DEF Requeued
        <5>2. Ahead(e)' = k /\ k + j = k
          BY <1>7, <2>2, <3>1, <4>2, <5>1 DEF Ahead
        <5>3. QueueLast(e)'
          BY <1>7, <2>2, <3>1, <5>1, <5>2 DEF QueueLast
        <5> QED
          BY <2>2, <2>5, <3>3, <4>2, <5>1, <5>2, <5>3 DEF WriteAt
      <4> QED
        BY <2>3, <4>1, <4>2
    <3> QED
      BY <1>1, <1>3, <1>7, <1>8, <2>7, <3>6, <3>7 DEF Flow
  <2>8. CASE eof[e]
    BY <1>10, <2>1, <2>8
  <2>9. CASE ~eof[e]
    <3>1. ~doubled'[e] => ~doubled[e]
      BY <2>1
    <3> QED
      BY <1>1, <1>3, <2>1, <2>7, <2>9, <3>1 DEF OrderAt
  <2> QED
    BY <2>8, <2>9
<1> QED
  BY <1>1, <1>9, <1>11, <1>12 DEF Send

\* w is some bytes of m, the first at c.
Run(w, m, c) == w \in Seq(Byte) /\ w # <<>> /\ \A n \in 1 .. Len(w) : w[n] = <<m, c + n - 1>>

\* A descriptor is kept for its message, from the message's first byte on.
LEMMA ReceivedOwn ==
  ASSUME NEW e \in End, NEW m \in Carrying, NEW c \in Nat, NEW got, Run(got, m, c),
         type = "unix", c # 0 => pendingfd[e] = m
  PROVE  Received(e, got) = m
<1> DEFINE First(n) == got[n][1] \in Carrying /\ got[n][2] = 0
<1>1. DOMAIN got = 1 .. Len(got) /\ 1 \in DOMAIN got
  BY DEF Run
<1>2. \A n \in DOMAIN got : got[n][1] = m /\ got[n][2] = c + n - 1
  BY <1>1 DEF Run
<1>3. CASE \E n \in DOMAIN got : First(n)
  <2>1. PICK n : n = CHOOSE l \in DOMAIN got : First(l)
    OBVIOUS
  <2>2. n \in DOMAIN got
    <3> HIDE DEF First
    <3> QED BY <1>3, <2>1
  <2>3. Received(e, got) = got[n][1]
    BY <1>3, <2>1 DEF Received
  <2> QED
    BY <1>2, <2>2, <2>3
<1>4. CASE ~ \E n \in DOMAIN got : First(n)
  <2>1. c # 0
    <3>1. got[1][1] = m /\ got[1][2] = c + 1 - 1
      BY <1>1, <1>2
    <3>2. got[1][1] \in Carrying /\ got[1][2] = c
      BY <3>1
    <3>3. ~First(1)
      BY <1>1, <1>4
    <3> QED
      BY <3>2, <3>3
  <2>2. Received(e, got) = pendingfd[e]
    BY <1>4 DEF Received
  <2> QED
    BY <2>1, <2>2
<1> QED
  BY <1>3, <1>4

\* What a reader has of a part once it has read what arrived.
Progress(e, s, i, m, p, got, all, rest) ==
  /\ i = Count(e) /\ i \in 1 .. Len(s) /\ m = s[i] /\ m \in Msg
  /\ p = Len(cache[e]) + 1 /\ p \in 1 .. Parts(m) /\ Current(e, m)
  /\ ReadAt(e) = <<i, PartStart(m, p)>>
  /\ all \in Seq(Byte) /\ rest \in Seq(Byte)
  /\ Len(all) = Len(buf[e]) + Amount(e) /\ Len(all) <= PartSize(m, p) /\ all # <<>>
  /\ all = Cut(m, PartStart(m, p), PartStart(m, p) + Len(all))
  /\ Leads(s, <<i, PartStart(m, p)>>, all \o rest, WriteAt(Peer(e)))
  /\ Leads(s, Behind(s, i, PartStart(m, p) + Len(all)), rest, WriteAt(Peer(e)))
  /\ type = "unix" /\ m \in Carrying => Received(e, got) = m

\* A read cuts what arrived in two.
Taken(e, s, got, all, rest) ==
  /\ s = sent[Peer(e)] /\ got = SubSeq(wire[e], 1, Amount(e)) /\ all = buf[e] \o got
  /\ rest = SubSeq(wire[e], Amount(e) + 1, Len(wire[e]))

LEMMA ReadBytes ==
  ASSUME SendType, WireType, ReadType, NEW e \in End, Flow(e), wire[e] # <<>>,
         NEW s, NEW got, NEW all, NEW rest, Taken(e, s, got, all, rest)
  PROVE  \E i, m, p : Progress(e, s, i, m, p, got, all, rest)
<1>1. s \in Seq(Msg) /\ Len(s) \in Nat
  BY PeerOther DEF SendType, Taken
<1>2. PICK b \in Seq(Byte), w \in Seq(Byte) : b = buf[e] /\ w = wire[e] /\ w # <<>>
  BY DEF ReadType, WireType
<1>3. PICK k \in Nat : k = Amount(e) /\ k \in 0 .. Len(w) /\ k > 0 /\ k <= Wanted(e) /\ Wanted(e) \in Nat
  BY <1>2, ReadAmount
<1>4. got \in Seq(Byte) /\ Len(got) = k /\ rest \in Seq(Byte) /\ w = got \o rest
  BY <1>2, <1>3, SplitJoin DEF Taken
<1>5. all = b \o got /\ all \in Seq(Byte) /\ Len(all) = Len(b) + k /\ Len(b) \in Nat
  <2>1. all = b \o got
    BY <1>2 DEF Taken
  <2>2. b \o got \in Seq(Byte) /\ Len(b \o got) = Len(b) + Len(got)
    BY <1>4, ConcatType
  <2> QED
    BY <1>4, <2>1, <2>2
<1>6. PICK z : z = WriteAt(Peer(e)) /\ Reads(e) /\ Leads(s, ReadAt(e), b \o w, z)
  BY <1>2 DEF Flow, Taken
<1>7. PICK i : i = Count(e) /\ i \in Nat \ {0} /\ ReadAt(e)[1] = i
  BY DEF ReadType, Count, ReadAt
<1>8. i \in 1 .. Len(s)
  <2>1. b \o w \in Seq(Byte) /\ b \o w # <<>>
    BY <1>2, ConcatType
  <2>2. ReadAt(e)[1] \in 1 .. Len(s)
    BY <1>6, <2>1, LeadsEnd
  <2> QED
    BY <1>7, <2>2
<1>9. PICK m \in Msg : m = s[i] /\ Current(e, m)
  <2>1. ~(Count(e) > Len(s)) /\ s[i] \in Msg
    BY <1>1, <1>7, <1>8
  <2> QED
    BY <1>6, <1>7, <2>1 DEF Reads, Taken
<1>10. PICK p \in 1 .. Parts(m) : p = Len(cache[e]) + 1
  <2>1. Len(cache[e]) \in Nat /\ Parts(m) \in Nat /\ Len(cache[e]) < Parts(m)
    BY <1>9, PartBounds DEF Current, ReadType
  <2>2. Len(cache[e]) + 1 \in 1 .. Parts(m)
    BY <2>1
  <2> QED
    BY <2>2
<1>11. PICK a \in Nat, h \in Nat, g \in Nat :
         /\ a = PartStart(m, p) /\ h = PartSize(m, p) /\ h > LengthSize
         /\ g = BufferSize(m) /\ a + h <= g
  BY BufferBytes, PartPlaces
<1>12. ReadAt(e) = <<i, a>>
  <2>1. p - 1 = Len(cache[e])
    BY <1>10 DEF ReadType
  <2> QED
    BY <1>7, <1>11, <2>1 DEF ReadAt, PartStart
<1>13. Len(all) <= h
  <2>1. Len(b) + Wanted(e) = IF cur[e] = NoPart THEN LengthSize ELSE PartSize(cur[e][1], cur[e][2])
    BY <1>2, ReadAmount
  <2>2. cur[e] # NoPart => cur[e][1] = m /\ cur[e][2] = p
    BY <1>9, <1>10 DEF Current
  <2>3. Len(b) + Wanted(e) <= h
    BY <1>11, <2>1, <2>2 DEF LengthSize
  <2> QED
    BY <1>3, <1>5, <2>3
<1>14. Leads(s, <<i, a>>, all \o rest, z)
  <2>1. (b \o got) \o rest = b \o (got \o rest)
    <3>1. b \in Seq(Byte) /\ got \in Seq(Byte) /\ rest \in Seq(Byte)
      BY <1>4
    <3> QED
      BY <3>1, ConcatAssoc, SMTT(30)
  <2> QED
    BY <1>4, <1>5, <1>6, <1>12, <2>1
<1>15. PICK y : Leads(s, <<i, a>>, all, y) /\ Leads(s, y, rest, z)
  BY <1>4, <1>5, <1>14, LeadsSplit
<1>16. all = Cut(m, a, a + Len(all)) /\ y = Behind(s, i, a + Len(all))
  <2>1. a < BufferSize(s[i]) /\ a + Len(all) <= BufferSize(s[i])
    <3>1. PICK l \in Nat : l = Len(all)
      BY <1>5
    <3>2. l <= h /\ h > 2 /\ a < g /\ a + l <= g
      BY <1>11, <1>13, <3>1 DEF LengthSize
    <3> QED
      BY <1>9, <1>11, <3>1, <3>2
  <2>2. all = Cut(s[i], a, a + Len(all)) /\ y = Behind(s, i, a + Len(all))
    BY <1>1, <1>5, <1>8, <1>15, <2>1, LeadsWithin
  <2> QED
    BY <1>9, <2>2
<1>17. ASSUME type = "unix", m \in Carrying PROVE Received(e, got) = m
  <2>1. PICK c \in Nat : c = a + Len(b)
    BY <1>5
  <2>2. \A n \in 1 .. Len(got) : got[n] = <<m, c + n - 1>>
    <3> SUFFICES ASSUME NEW n \in 1 .. k PROVE got[n] = <<m, c + n - 1>>
      BY <1>4
    <3>1. got[n] = all[Len(b) + n]
      BY <1>2, <1>4, <1>5, ConcatAt
    <3>2. PICK d \in Nat : d = a + Len(all) /\ a <= d /\ d <= BufferSize(m) /\ d - a = Len(all)
      <4>1. PICK l \in Nat : l = Len(all)
        BY <1>5
      <4>2. a + l \in Nat /\ a <= a + l /\ a + l <= g /\ (a + l) - a = l
        BY <1>11, <1>13, <4>1
      <4> QED
        BY <1>11, <4>1, <4>2
    <3>3. \A l \in 1 .. d - a : Cut(m, a, d)[l] = <<m, a + l - 1>>
      BY <3>2, CutBytes
    <3>4. Len(b) + n \in 1 .. d - a /\ a + (Len(b) + n) - 1 = c + n - 1
      BY <1>5, <2>1, <3>2
    <3>5. all = Cut(m, a, d)
      BY <1>16, <3>2
    <3>6. all[Len(b) + n] = <<m, a + (Len(b) + n) - 1>>
      BY <3>3, <3>4, <3>5
    <3> QED
      BY <3>1, <3>4, <3>6
  <2>3. c # 0 => pendingfd[e] = m
    <3> SUFFICES ASSUME c # 0 PROVE pendingfd[e] = m
      OBVIOUS
    <3>1. CASE b # <<>>
      BY <1>2, <1>9, <1>17, <3>1 DEF Current
    <3>2. CASE b = <<>>
      <4>1. a # 0
        BY <2>1, <3>2
      <4>2. cache[e] # <<>>
        <5> SUFFICES ASSUME cache[e] = <<>> PROVE a = 0
          BY <4>1
        <5>1. p - 1 = 0
          BY <1>10
        <5>2. HeaderSize + PayloadMax \in Int
          <6>1. Base * Base \in Int
            BY FramingAssumption
          <6> QED
            BY <6>1 DEF PayloadMax, HeaderSize
        <5> QED
          BY <1>11, <5>1, <5>2 DEF PartStart
      <4> QED
        BY <1>9, <1>17, <4>2 DEF Current
    <3> QED
      BY <3>1, <3>2
  <2>4. got # <<>>
    BY <1>3, <1>4
  <2> QED
    <3>1. Run(got, m, c)
      BY <1>4, <2>2, <2>4 DEF Run
    <3> QED
      BY <1>17, <2>3, <3>1, ReceivedOwn
<1>18. all # <<>>
  BY <1>3, <1>5
<1>19. Progress(e, s, i, m, p, got, all, rest)
  BY <1>2, <1>3, <1>4, <1>5, <1>6, <1>7, <1>8, <1>9, <1>10, <1>11, <1>12, <1>13, <1>14, <1>15, <1>16,
     <1>17, <1>18 DEF Progress
<1> QED
  BY <1>19

\* The length of a part is read, or some of it, or some of the part.
LEMMA SomeRead ==
  ASSUME SendType, WireType, ReadType, LifeType, NEW e \in End, Exact(e), QueueLast(Peer(e)),
         NEW s, NEW i, NEW m, NEW p, NEW got, NEW all, NEW rest,
         s = sent[Peer(e)], Progress(e, s, i, m, p, got, all, rest),
         pendingfd' = [pendingfd EXCEPT ![e] = Received(e, got)], wire'[e] = rest, buf'[e] = all,
         UNCHANGED <<type, sent, sendq, off, cache, delivered>>, ~torn'[e],
         cur'[e] = cur[e] \/ cur'[e] = <<m, p>>
  PROVE  Exact(e)' /\ Flow(e)'
<1>1. Exact(e)'
  BY DEF Exact, OwedAt
<1>2. QueueLast(Peer(e))' /\ WriteAt(Peer(e))' = WriteAt(Peer(e))
  BY DEF QueueLast, WriteAt, Ahead
<1>3. /\ i = Count(e) /\ i \in 1 .. Len(s) /\ m = s[i] /\ p = Len(cache[e]) + 1 /\ Current(e, m)
      /\ ReadAt(e) = <<i, PartStart(m, p)>>
      /\ Leads(s, <<i, PartStart(m, p)>>, all \o rest, WriteAt(Peer(e)))
      /\ (type = "unix" /\ m \in Carrying => Received(e, got) = m)
  BY DEF Progress
<1>4. Count(e)' = i /\ ReadAt(e)' = <<i, PartStart(m, p)>>
  BY <1>3 DEF Count, ReadAt
<1>5. pendingfd'[e] = Received(e, got)
  BY DEF ReadType
<1>6. Current(e, m)'
  BY <1>3, <1>5 DEF Current
<1>7. Len(s) \in Nat
  BY PeerOther DEF SendType
<1>8. Reads(e)'
  <2>1. ~(i > Len(s)) /\ sent'[Peer(e)] = s
    BY <1>3, <1>7
  <2> QED
    BY <1>3, <1>4, <1>6, <2>1 DEF Reads
<1>9. Leads(s, ReadAt(e)', all \o rest, WriteAt(Peer(e))')
  BY <1>2, <1>3, <1>4
<1> QED
  BY <1>1, <1>2, <1>8, <1>9 DEF Flow

\* A whole part is read.
LEMMA PartDone ==
  ASSUME SendType, WireType, ReadType, FlagType, Plain, NEW e \in End, Exact(e), QueueLast(Peer(e)),
         NEW s, NEW i, NEW m, NEW p, NEW got, NEW all, NEW rest,
         s = sent[Peer(e)], Progress(e, s, i, m, p, got, all, rest),
         cur[e] # NoPart, Amount(e) = Wanted(e),
         NextFrame(e, all), Parse(e, cur[e][1], cur[e][2], all),
         pendingfd' = [pendingfd EXCEPT ![e] = Received(e, got)], wire'[e] = rest,
         UNCHANGED <<type, sent, sendq, off>>
  PROVE  Exact(e)' /\ Flow(e)'
<1>1. QueueLast(Peer(e))' /\ WriteAt(Peer(e))' = WriteAt(Peer(e))
  BY DEF QueueLast, WriteAt, Ahead
<1>2. /\ i = Count(e) /\ i \in 1 .. Len(s) /\ m = s[i] /\ m \in Msg
      /\ p = Len(cache[e]) + 1 /\ p \in 1 .. Parts(m) /\ Current(e, m)
      /\ rest \in Seq(Byte) /\ Len(all) = Len(buf[e]) + Amount(e)
      /\ all = Cut(m, PartStart(m, p), PartStart(m, p) + Len(all))
      /\ Leads(s, Behind(s, i, PartStart(m, p) + Len(all)), rest, WriteAt(Peer(e)))
      /\ (type = "unix" /\ m \in Carrying => Received(e, got) = m)
  BY DEF Progress
<1>3. Len(s) \in Nat /\ s \in Seq(Msg) /\ Len(delivered[e]) \in Nat /\ i = Len(delivered[e]) + 1
  BY <1>2, PeerOther, SMTT(30) DEF SendType, ReadType, Count
<1>4. cur[e] = <<m, p>> /\ Parse(e, m, p, all)
  <2>1. cur[e] = <<m, p>>
    BY <1>2 DEF Current
  <2> QED
    BY <2>1
<1>5. PICK a \in Nat, h \in Nat, g \in Nat :
        /\ a = PartStart(m, p) /\ h = PartSize(m, p) /\ g = BufferSize(m)
        /\ a + h = IF p < Parts(m) THEN PartStart(m, p + 1) ELSE g
        /\ p < Parts(m) => PartStart(m, p + 1) < g
  <2>1. m \in Msg /\ p \in 1 .. Parts(m) /\ BufferSize(m) \in Nat
    BY <1>2, BufferBytes
  <2>2. /\ PartStart(m, p) \in Nat /\ PartSize(m, p) \in Nat
        /\ PartStart(m, p) + PartSize(m, p) = IF p < Parts(m) THEN PartStart(m, p + 1) ELSE BufferSize(m)
        /\ p < Parts(m) => PartStart(m, p + 1) < BufferSize(m)
    BY <2>1, PartPlaces
  <2> QED
    BY <2>1, <2>2
<1>6. Len(all) = h
  <2>1. Len(buf[e]) + Wanted(e) = PartSize(m, p)
    <3>1. Len(buf[e]) + Wanted(e) = PartSize(cur[e][1], cur[e][2])
      BY ReadAmount
    <3>2. cur[e][1] = m /\ cur[e][2] = p
      BY <1>4
    <3> QED
      BY <3>1, <3>2
  <2> QED
    BY <1>2, <1>5, <2>1
<1>7. all = Part(m, p)
  BY <1>2, <1>5, <1>6 DEF Part, Cut
<1>8. cache[e] \in Seq(Msg \X Nat) /\ Len(cache[e]) = p - 1 /\ Parts(m) \in Nat \ {0} /\ p \in Nat \ {0}
  BY <1>2, PartBounds DEF ReadType
<1>9. \A n \in 1 .. p - 1 : cache[e][n] = <<m, n>>
  BY <1>2, <1>8 DEF Current
<1>10. Joined(cache[e], m, p)
  <2>1. PICK f : f = [n \in 1 .. p - 1 |-> <<m, n>>]
    OBVIOUS
  <2>2. \A n \in 1 .. p - 1 : <<m, n>> \in Msg \X Nat
    BY <1>2
  <2>3. f \in Seq(Msg \X Nat) /\ Len(f) = p - 1
    BY <1>8, <2>1, <2>2
  <2>4. \A n \in 1 .. Len(cache[e]) : cache[e][n] = f[n]
    BY <1>8, <1>9, <2>1
  <2>5. cache[e] = f
    BY <1>8, <2>3, <2>4, SameSeq
  <2> QED
    BY <2>1, <2>5 DEF Joined
<1>11. /\ cache' = [cache EXCEPT ![e] = Cached(cache[e], m, p)]
       /\ delivered' = IF p = Parts(m)
                       THEN [delivered EXCEPT ![e] = Append(delivered[e], Delivery(m, pendingfd'[e]))]
                       ELSE delivered
       /\ torn' = [torn EXCEPT ![e] = all # Part(m, p) \/ (Completes(m, p) /\ ~Joined(cache[e], m, p))]
  BY <1>4 DEF Parse, Completes
<1>12. ~torn'[e]
  <2>1. ~(all # Part(m, p) \/ (Completes(m, p) /\ ~Joined(cache[e], m, p)))
    BY <1>7, <1>10
  <2>2. torn'[e] = (all # Part(m, p) \/ (Completes(m, p) /\ ~Joined(cache[e], m, p)))
    BY <1>11 DEF FlagType
  <2> QED
    BY <2>1, <2>2
<1>13. cache'[e] = Cached(cache[e], m, p) /\ buf'[e] = <<>> /\ cur'[e] = NoPart
       /\ pendingfd'[e] = Received(e, got)
  BY <1>11 DEF NextFrame, ReadType
<1>14. <<>> \o rest = rest
  BY <1>2, ConcatAssoc, SMTT(30)
<1>15. CASE p < Parts(m)
  <2>1. cache'[e] = Append(cache[e], <<m, p>>) /\ delivered' = delivered
    <3>1. Parts(m) # 1 /\ p # Parts(m)
      BY <1>8, <1>15
    <3> QED
      BY <1>11, <1>13, <3>1 DEF Cached
  <2>2. <<m, p>> \in Msg \X Nat
    BY <1>2, <1>8
  <2>3. Len(cache'[e]) = p /\ \A n \in 1 .. p : cache'[e][n] = <<m, n>>
    <3>1. PICK c \in Seq(Msg \X Nat), l \in Nat : c = cache[e] /\ l = Len(c) /\ p = l + 1
      BY <1>8
    <3>2. /\ Len(Append(c, <<m, p>>)) = l + 1 /\ Append(c, <<m, p>>)[l + 1] = <<m, p>>
          /\ \A n \in 1 .. l : Append(c, <<m, p>>)[n] = c[n]
      BY <2>2, <3>1, AppendAt
    <3>3. \A n \in 1 .. p : n \in 1 .. l \/ n = l + 1
      BY <3>1
    <3>4. \A n \in 1 .. l : c[n] = <<m, n>>
      BY <1>8, <1>9, <3>1
    <3> QED
      BY <2>1, <3>1, <3>2, <3>3, <3>4
  <2>4. Exact(e)'
    BY <1>12, <2>1 DEF Exact, OwedAt
  <2>5. Count(e)' = i /\ ReadAt(e)' = <<i, a + h>>
    <3>1. PartStart(m, p + 1) = p * (HeaderSize + PayloadMax)
      <4>1. (p + 1) - 1 = p
        BY <1>8
      <4> QED
        BY <4>1 DEF PartStart
    <3> QED
      BY <1>2, <1>5, <1>15, <2>1, <2>3, <3>1 DEF Count, ReadAt
  <2>6. Behind(s, i, a + h) = <<i, a + h>>
    BY <1>2, <1>5, <1>15 DEF Behind
  <2>7. Current(e, m)'
    BY <1>2, <1>13, <1>15, <2>3 DEF Current
  <2>8. Reads(e)'
    <3>1. ~(i > Len(s)) /\ sent'[Peer(e)] = s
      BY <1>2, <1>3
    <3> QED
      BY <1>2, <2>5, <2>7, <3>1 DEF Reads
  <2>9. Leads(s, ReadAt(e)', buf'[e] \o wire'[e], WriteAt(Peer(e))')
    BY <1>1, <1>2, <1>5, <1>6, <1>13, <1>14, <2>5, <2>6
  <2> QED
    BY <1>1, <2>4, <2>8, <2>9 DEF Flow
<1>16. CASE p = Parts(m)
  <2>1. cache'[e] = <<>>
    <3>1. Parts(m) = 1 => cache[e] = <<>>
      BY <1>8, <1>16
    <3> QED
      BY <1>13, <1>16, <3>1 DEF Cached
  <2>2. PICK d : d = Delivery(m, pendingfd'[e]) /\ delivered'[e] = Append(delivered[e], d)
    BY <1>11, <1>16 DEF ReadType
  <2>3. d = OwedAt(e, i)
    <3>1. m # Nil
      BY <1>2, FramingAssumption
    <3>2. type # "unix" => Received(e, got) = Nil
      <4>1. type # "unix" => Received(e, got) = pendingfd[e]
        BY DEF Received
      <4> QED
        BY <4>1 DEF Plain
    <3>3. m \in Carrying => pendingfd'[e] = IF type = "unix" THEN m ELSE Nil
      BY <1>2, <1>13, <3>2
    <3>4. (IF Descriptor(m) # Nil THEN pendingfd'[e] ELSE Nil)
            = IF type = "unix" /\ m \in Carrying THEN m ELSE Nil
      BY <3>1, <3>3 DEF Descriptor
    <3>5. OwedAt(e, i) = [msg |-> m, fd |-> IF type = "unix" /\ m \in Carrying THEN m ELSE Nil]
      BY <1>2 DEF OwedAt
    <3> QED
      BY <2>2, <3>4, <3>5 DEF Delivery
  <2>4. /\ Len(delivered'[e]) = i
        /\ \A n \in 1 .. i : delivered'[e][n] = OwedAt(e, n)
    <3>1. PICK R : R = [msg : Msg, fd : Msg \cup {Nil}]
      OBVIOUS
    <3>2. delivered[e] \in Seq(R)
      BY <3>1 DEF ReadType
    <3>3. PICK c \in Seq(R), l \in Nat : c = delivered[e] /\ l = Len(c) /\ i = l + 1
      BY <1>3, <3>2
    <3>4. c \in Seq(R \cup {d}) /\ d \in R \cup {d}
      BY <3>3
    <3>5. /\ Len(Append(c, d)) = l + 1 /\ Append(c, d)[l + 1] = d
          /\ \A n \in 1 .. l : Append(c, d)[n] = c[n]
      BY <3>3, <3>4, AppendAt
    <3>6. \A n \in 1 .. l : c[n] = OwedAt(e, n)
      BY <3>3 DEF Exact
    <3>7. \A n \in 1 .. i : n \in 1 .. l \/ n = l + 1
      BY <3>3
    <3> QED
      BY <2>2, <2>3, <3>3, <3>5, <3>6, <3>7
  <2>5. Exact(e)'
    <3>1. Len(delivered'[e]) <= Len(sent'[Peer(e)])
      BY <1>2, <1>3, <2>4
    <3>2. \A n \in 1 .. Len(delivered'[e]) : delivered'[e][n] = OwedAt(e, n)'
      BY <2>4 DEF OwedAt
    <3> QED
      BY <1>12, <3>1, <3>2 DEF Exact
  <2>6. Count(e)' = i + 1 /\ ReadAt(e)' = <<i + 1, 0>>
    <3>1. Len(<<>>) * (HeaderSize + PayloadMax) = 0
      <4>1. HeaderSize + PayloadMax \in Int
        <5>1. Base * Base \in Int
          BY FramingAssumption
        <5> QED
          BY <5>1 DEF PayloadMax, HeaderSize
      <4> QED
        BY <4>1
    <3> QED
      BY <2>1, <2>4, <3>1 DEF Count, ReadAt
  <2>7. Behind(s, i, a + h) = <<i + 1, 0>>
    <3>1. ~(p < Parts(m))
      BY <1>8, <1>16
    <3>2. a + h = g /\ g = BufferSize(s[i]) /\ ~(g < g)
      BY <1>2, <1>5, <3>1
    <3> QED
      BY <3>2 DEF Behind
  <2>8. Reads(e)'
    <3>1. CASE i + 1 > Len(s)
      BY <1>13, <2>1, <2>6, <3>1 DEF Reads
    <3>2. CASE ~(i + 1 > Len(s))
      <4>1. s[i + 1] \in Msg
        BY <1>2, <1>3, <3>2
      <4>2. 0 < Parts(s[i + 1])
        BY <4>1, PartBounds
      <4>3. Current(e, s[i + 1])'
        BY <1>13, <2>1, <4>2 DEF Current
      <4> QED
        BY <2>6, <3>2, <4>3 DEF Reads
    <3> QED
      BY <3>1, <3>2
  <2>9. Leads(s, ReadAt(e)', buf'[e] \o wire'[e], WriteAt(Peer(e))')
    BY <1>1, <1>2, <1>5, <1>6, <1>13, <1>14, <2>6, <2>7
  <2> QED
    BY <1>1, <2>5, <2>8, <2>9 DEF Flow
<1> QED
  BY <1>2, <1>8, <1>15, <1>16

LEMMA ReadableOrder ==
  ASSUME SendType, WireType, ReadType, LifeType, FlagType, OwnInv, NEW e \in End, OrderAt(e),
         OnReadable(e)
  PROVE  OrderAt(e)'
<1>1. PICK s, got, all, rest : Taken(e, s, got, all, rest)
  BY DEF Taken
<1>2. /\ life[e] = "open" /\ wire[e] # <<>> /\ UNCHANGED <<type, sent, sendq, off, doubled>>
      /\ pendingfd' = [pendingfd EXCEPT ![e] = Received(e, got)]
      /\ wire' = [wire EXCEPT ![e] = rest]
      /\ \/ /\ cur[e] = NoPart /\ Len(all) = LengthSize
            /\ cur' = [cur EXCEPT ![e] = Headed(all)]
            /\ torn' = [torn EXCEPT ![e] = Headed(all) = NoPart]
            /\ buf' = [buf EXCEPT ![e] = IF Headed(all) = NoPart THEN <<>> ELSE all]
            /\ UNCHANGED <<cache, delivered>>
         \/ /\ cur[e] # NoPart /\ Amount(e) = Wanted(e)
            /\ NextFrame(e, all)
            /\ Parse(e, cur[e][1], cur[e][2], all)
         \/ /\ buf' = [buf EXCEPT ![e] = all]
            /\ UNCHANGED <<cur, cache, delivered, torn>>
  BY <1>1 DEF OnReadable, Taken, Readable, socks
<1>3. wire'[e] = rest
  BY <1>2 DEF WireType
<1> SUFFICES ASSUME ~doubled[Peer(e)] PROVE Exact(e)' /\ Flow(e)'
  BY <1>2 DEF OrderAt
<1>4. Exact(e) /\ Flow(e) /\ QueueLast(Peer(e)) /\ ~torn[e]
  BY <1>2 DEF OrderAt, Flow, Exact
<1>5. PICK i, m, p : Progress(e, s, i, m, p, got, all, rest)
  BY <1>1, <1>2, <1>4, ReadBytes
<1>6. s = sent[Peer(e)]
  BY <1>1 DEF Taken
<1>7. CASE /\ cur[e] = NoPart /\ Len(all) = LengthSize
           /\ cur' = [cur EXCEPT ![e] = Headed(all)]
           /\ torn' = [torn EXCEPT ![e] = Headed(all) = NoPart]
           /\ buf' = [buf EXCEPT ![e] = IF Headed(all) = NoPart THEN <<>> ELSE all]
           /\ UNCHANGED <<cache, delivered>>
  <2>1. Headed(all) = <<m, p>>
    <3>1. m \in Msg /\ p \in 1 .. Parts(m) /\ all = Cut(m, PartStart(m, p), PartStart(m, p) + LengthSize)
      BY <1>5, <1>7 DEF Progress
    <3>2. Headed(Cut(m, PartStart(m, p), PartStart(m, p) + LengthSize)) = <<m, p>>
      BY <3>1, HeadedPart
    <3> QED
      BY <3>1, <3>2
  <2>2. Headed(all) # NoPart
    <3>1. m # Nil
      BY <1>5, FramingAssumption DEF Progress
    <3> QED
      BY <2>1, <3>1 DEF NoPart
  <2>3. ~torn'[e] /\ buf'[e] = all /\ cur'[e] = <<m, p>>
    <3>1. ~torn'[e]
      BY <1>7, <2>2 DEF FlagType
    <3> QED
      BY <1>7, <2>1, <2>2, <3>1 DEF ReadType
  <2>4. UNCHANGED <<type, sent, sendq, off, cache, delivered>>
    BY <1>2, <1>7
  <2> QED
    BY <1>2, <1>3, <1>4, <1>5, <1>6, <2>3, <2>4, SomeRead
<1>8. CASE cur[e] # NoPart /\ Amount(e) = Wanted(e) /\ NextFrame(e, all)
           /\ Parse(e, cur[e][1], cur[e][2], all)
  BY <1>2, <1>3, <1>4, <1>5, <1>6, <1>8, PartDone DEF OwnInv
<1>9. CASE buf' = [buf EXCEPT ![e] = all] /\ UNCHANGED <<cur, cache, delivered, torn>>
  <2>1. buf'[e] = all /\ ~torn'[e] /\ cur'[e] = cur[e]
    BY <1>4, <1>9 DEF ReadType
  <2>2. UNCHANGED <<type, sent, sendq, off, cache, delivered>>
    BY <1>2, <1>9
  <2> QED
    BY <1>2, <1>3, <1>4, <1>5, <1>6, <2>1, <2>2, SomeRead
<1> QED
  BY <1>2, <1>7, <1>8, <1>9

LEMMA ThrowsOrder ==
  ASSUME SendType, WireType, ReadType, LifeType, FlagType, OwnInv, NEW e \in End, OrderAt(e),
         RecvThrows(e)
  PROVE  OrderAt(e)'
<1>1. PICK s, got, all, rest : Taken(e, s, got, all, rest)
  BY DEF Taken
<1>2. /\ life[e] = "open" /\ UNCHANGED <<type, sent, sendq, off, doubled>>
      /\ pendingfd' = [pendingfd EXCEPT ![e] = Received(e, got)]
      /\ wire' = [wire EXCEPT ![e] = rest] /\ life' = [life EXCEPT ![e] = "destroyed"]
      /\ cur[e] # NoPart /\ Amount(e) = Wanted(e)
      /\ NextFrame(e, all) /\ Parse(e, cur[e][1], cur[e][2], all)
  BY <1>1 DEF RecvThrows, Taken, Readable, Gone
<1>3. wire'[e] = rest /\ life'[e] = "destroyed"
  BY <1>2 DEF WireType, LifeType
<1> SUFFICES ASSUME ~doubled[Peer(e)] PROVE Exact(e)'
  BY <1>2, <1>3 DEF OrderAt
<1>4. Exact(e) /\ Flow(e) /\ QueueLast(Peer(e))
  BY <1>2 DEF OrderAt, Flow
<1>5. wire[e] # <<>>
  <2>1. Amount(e) \in Nat \ {0} /\ Amount(e) \in 0 .. Len(wire[e])
    BY <1>2, ReadAmount
  <2>2. wire[e] = <<>> => Len(wire[e]) = 0
    OBVIOUS
  <2> QED
    BY <2>1, <2>2
<1>6. PICK i, m, p : Progress(e, s, i, m, p, got, all, rest)
  BY <1>1, <1>4, <1>5, ReadBytes
<1>7. s = sent[Peer(e)]
  BY <1>1 DEF Taken
<1> QED
  BY <1>2, <1>3, <1>4, <1>6, <1>7, PartDone DEF OwnInv

\* What the end that flushes reads is not concerned, and its peer gets what is due.
LEMMA FlushOrder ==
  ASSUME SendType, WireType, ReadType, LifeType, FlagType, OwnInv, \A f \in End : EndTold(f),
         \A f \in End : OrderAt(f), NEW e \in End, NEW j, NEW n, Flush(e, j, n),
         UNCHANGED <<type, sent, reader>>,
         \A f \in End : life[f] = "destroyed" => life'[f] = "destroyed"
  PROVE  \A f \in End : OrderAt(f)'
<1>1. PICK r \in End : r = Peer(e) /\ Peer(r) = e /\ r # e /\ \A f \in End : f = e \/ f = r
  BY PeerOther DEF End
<1>2. /\ sendq \in [End -> Seq(Msg)] /\ sendq[e] \in Seq(Msg) /\ Transmit(e, sendq[e], j, n)
      /\ wire'[e] = wire[e] /\ sendq'[r] = sendq[r]
  <2>1. sendq \in [End -> Seq(Msg)] /\ sendq[e] \in Seq(Msg) /\ Transmit(e, sendq[e], j, n)
    BY DEF SendType, Flush
  <2>2. wire'[e] = wire[e]
    BY <2>1, TransmitWire
  <2> QED
    BY <1>1, <2>1, <2>2, FlushQueue
<1>3. /\ buf' = buf /\ cur' = cur /\ cache' = cache
      /\ pendingfd' = pendingfd /\ delivered' = delivered /\ torn' = torn
  BY DEF reader
<1>4. OrderAt(e)'
  <2>1. \A m \in ToSet(sendq[r]) : off'[m] = off[m]
    <3> TAKE m \in ToSet(sendq[r])
    <3>1. m \in Msg /\ From[type][m] = r
      <4>1. m \in Msg
        BY <1>2 DEF ToSet
      <4> QED
        BY <4>1 DEF OwnInv, Own
    <3>2. m \notin ToSet(sendq[e])
      BY <1>1, <3>1 DEF OwnInv, Own
    <3> QED
      BY <1>2, <3>1, <3>2, TransmitOnly
  <2>2. doubled[r] => doubled'[r]
    <3>1. doubled'[r] = doubled[r]
      BY <1>1 DEF Flush, FlagType
    <3> QED
      BY <3>1
  <2>3. Same(e)
    BY <1>1, <1>2, <1>3, <2>1, <2>2 DEF Same
  <2> QED
    BY <2>3, SameOrder
<1>5. OrderAt(r)'
  <2>1. (doubled[e] => doubled'[e]) /\ (Kept(e, sendq[e]) => doubled'[e])
    <3>1. doubled'[e] = (doubled[e] \/ Kept(e, sendq[e]))
      BY DEF Flush, FlagType
    <3> QED
      BY <3>1
  <2>2. Exact(r) => Exact(r)'
    BY <1>3 DEF Exact, OwedAt
  <2>3. ASSUME ~doubled'[e], life'[r] # "destroyed" PROVE Flow(r)'
    <3>1. life[r] # "destroyed" /\ ~eof[e]
      BY <1>1, <2>3 DEF EndTold
    <3>2. Flow(r) /\ ~Kept(e, sendq[e])
      BY <1>1, <2>1, <2>3, <3>1 DEF OrderAt
    <3>3. PICK x : x = ReadAt(r)
      OBVIOUS
    <3>4. PICK b \in Seq(Byte) : b = buf[r]
      BY DEF ReadType
    <3>5. QueueLast(e) /\ Reads(r) /\ Leads(sent[e], x, b \o wire[Peer(e)], WriteAt(e))
      BY <1>1, <3>2, <3>3, <3>4 DEF Flow
    <3>6. QueueLast(e)' /\ Leads(sent[e], x, b \o wire'[Peer(e)], WriteAt(e)')
      BY <3>1, <3>2, <3>5, FlushFlow DEF OwnInv
    <3>7. Reads(r)' /\ ReadAt(r)' = ReadAt(r)
      BY <1>3, <3>5 DEF Reads, ReadAt, Current, Count
    <3> QED
      BY <1>1, <1>3, <3>3, <3>4, <3>6, <3>7 DEF Flow
  <2> QED
    BY <1>1, <2>1, <2>2, <2>3 DEF OrderAt
<1> QED
  BY <1>1, <1>4, <1>5

LEMMA GoneStays ==
  ASSUME LifeType, NEW e \in End, NEW d,
         \/ Gone(e, d) \/ life' = life
         \/ life[e] # "destroyed" /\ life' = [life EXCEPT ![e] = "open"]
  PROVE  \A f \in End : life[f] = "destroyed" => life'[f] = "destroyed"
<1>1. life \in [End -> {"none", "connecting", "open", "destroyed"}]
  BY DEF LifeType
<1> QED
  BY <1>1 DEF Gone

\* Another end's reading and writing is not concerned by what one reads.
LEMMA OthersOrder ==
  ASSUME SendType, ReadType, WireType, FlagType, NEW e \in End, \A f \in End : OrderAt(f),
         UNCHANGED <<type, sent, sendq, off, doubled>>,
         \A f \in End : f # e => /\ wire'[f] = wire[f] /\ buf'[f] = buf[f] /\ cur'[f] = cur[f]
                                 /\ cache'[f] = cache[f] /\ delivered'[f] = delivered[f]
                                 /\ pendingfd'[f] = pendingfd[f] /\ torn'[f] = torn[f],
         \A f \in End : life[f] = "destroyed" => life'[f] = "destroyed",
         OrderAt(e)'
  PROVE  \A f \in End : OrderAt(f)'
<1> TAKE f \in End
<1>1. CASE f = e
  BY <1>1
<1>2. CASE f # e
  <2>1. Same(f)
    BY <1>2 DEF Same
  <2> QED
    BY <2>1, SameOrder
<1> QED
  BY <1>1, <1>2

LEMMA SendOrder ==
  ASSUME SendType, WireType, ReadType, LifeType, FlagType, OwnInv, \A f \in End : EndTold(f),
         \A f \in End : OrderAt(f), NEW e \in End, NEW m \in Msg, Send(e, m)
  PROVE  \A f \in End : OrderAt(f)'
<1>1. PICK r \in End : r = Peer(e) /\ Peer(r) = e /\ r # e /\ \A f \in End : f = e \/ f = r
  BY PeerOther DEF End
<1>2. OrderAt(r)'
  BY <1>1, SendFlow
<1>3. /\ type' = type /\ buf' = buf /\ cur' = cur /\ cache' = cache
      /\ pendingfd' = pendingfd /\ delivered' = delivered /\ torn' = torn
      /\ From[type][m] = e /\ sent' = [sent EXCEPT ![e] = Append(sent[e], m)]
  BY DEF Send, reader
<1>4. m \notin ToSet(sendq[r])
  BY <1>1, <1>3 DEF OwnInv, Own
<1>5. /\ sendq \in [End -> Seq(Msg)] /\ sent \in [End -> Seq(Msg)] /\ off \in [Msg -> Nat]
      /\ doubled \in [End -> BOOLEAN]
      /\ life \in [End -> {"none", "connecting", "open", "destroyed"}]
  BY DEF SendType, FlagType, LifeType
<1>6. sent'[r] = sent[r]
  BY <1>1, <1>3, <1>5
<1>7. ToSet(sendq[r]) \subseteq Msg
  <2>1. sendq[r] \in Seq(Msg)
    BY <1>5
  <2> QED
    BY <2>1 DEF ToSet
<1>8. /\ sendq'[r] = sendq[r] /\ wire'[e] = wire[e]
      /\ doubled[r] => doubled'[r]
      /\ \A x \in Msg : x # m => off'[x] = off[x]
      /\ \A f \in End : life[f] = "destroyed" => life'[f] = "destroyed"
  <2>1. CASE SendQueued(e, m)
    BY <1>1, <1>5, <2>1 DEF SendQueued
  <2>2. CASE SendThrows(e, m)
    <3>1. /\ sendq' = [sendq EXCEPT ![e] = <<m>>] /\ UNCHANGED <<off, wire, doubled>>
          /\ Gone(e, due)
      BY <2>2 DEF SendThrows
    <3> QED
      BY <1>1, <1>5, <3>1, GoneStays
  <2>3. ASSUME NEW j, NEW n, SendWritten(e, m, j, n)
        PROVE  /\ sendq'[r] = sendq[r] /\ wire'[e] = wire[e]
               /\ doubled[r] => doubled'[r]
               /\ \A x \in Msg : x # m => off'[x] = off[x]
               /\ \A f \in End : life[f] = "destroyed" => life'[f] = "destroyed"
    <3>1. <<m>> \in Seq(Msg) /\ Transmit(e, <<m>>, j, n)
      BY <2>3 DEF SendWritten
    <3>2. \A x \in Msg : x # m => x \notin ToSet(<<m>>)
      <4>1. DOMAIN <<m>> = {1} /\ <<m>>[1] = m
        OBVIOUS
      <4> QED
        BY <4>1 DEF ToSet
    <3>3. \A x \in Msg : x # m => off'[x] = off[x]
      BY <3>1, <3>2, TransmitOnly
    <3>4. wire'[e] = wire[e]
      BY <3>1, TransmitWire
    <3>5. sendq'[r] = sendq[r]
      BY <1>1, <1>5, <2>3 DEF SendWritten
    <3>6. doubled'[r] = doubled[r]
      BY <1>1, <1>5, <2>3 DEF SendWritten
    <3>7. life' = life
      BY <2>3 DEF SendWritten
    <3> QED
      BY <3>3, <3>4, <3>5, <3>6, <3>7
  <2> QED
    BY <2>1, <2>2, <2>3 DEF Send
<1>9. \A x \in ToSet(sendq[r]) : off'[x] = off[x]
  BY <1>4, <1>7, <1>8
<1>10. Same(e)
  BY <1>1, <1>3, <1>6, <1>8, <1>9 DEF Same
<1>11. OrderAt(e)'
  BY <1>10, SameOrder
<1> QED
  BY <1>1, <1>2, <1>11

\* A flush that throws takes a message out of the queue, to a peer that is gone.
LEMMA LostOrder ==
  ASSUME SendType, WireType, ReadType, LifeType, FlagType, \A f \in End : EndTold(f),
         \A f \in End : OrderAt(f), NEW e \in End, FlushThrows(e)
  PROVE  \A f \in End : OrderAt(f)'
<1>1. PICK r \in End : r = Peer(e) /\ Peer(r) = e /\ r # e /\ \A f \in End : f = e \/ f = r
  BY PeerOther DEF End
<1>2. /\ UNCHANGED <<type, off, wire, sent, doubled, buf, cur, cache, pendingfd, delivered, torn>>
      /\ eof[e] /\ Gone(e, due) /\ sendq' = [sendq EXCEPT ![e] = Tail(sendq[e])]
  BY DEF FlushThrows, reader
<1>3. \A f \in End : life[f] = "destroyed" => life'[f] = "destroyed"
  BY <1>2, GoneStays
<1>4. sendq'[r] = sendq[r]
  BY <1>1, <1>2 DEF SendType
<1>5. Same(e)
  BY <1>1, <1>2, <1>3, <1>4 DEF Same
<1>6. OrderAt(e)'
  BY <1>5, SameOrder
<1>7. life'[r] = "destroyed"
  BY <1>1, <1>2, <1>3 DEF EndTold
<1>8. OrderAt(r)'
  <2>1. Exact(r) => Exact(r)'
    BY <1>2 DEF Exact, OwedAt
  <2> QED
    BY <1>2, <1>7, <2>1 DEF OrderAt
<1> QED
  BY <1>1, <1>6, <1>8

LEMMA OrderSteps ==
  TypeInv /\ (\A f \in End : EndTold(f)) /\ OrderInv /\ [Next]_vars => OrderInv'
<1> SUFFICES ASSUME SendType, WireType, ReadType, LifeType, FlagType, \A f \in End : EndTold(f),
                    OwnInv, \A f \in End : OrderAt(f), [Next]_vars
             PROVE  OrderInv'
  BY DEF TypeInv, OrderInv
<1>1. OwnInv'
  BY OwnSteps
<1> SUFFICES \A f \in End : OrderAt(f)'
  BY <1>1 DEF OrderInv
<1>2. ASSUME UNCHANGED <<type, sent, sendq, off, doubled, wire, buf, cur, cache, pendingfd, delivered, torn>>,
             \A f \in End : life[f] = "destroyed" => life'[f] = "destroyed"
      PROVE  \A f \in End : OrderAt(f)'
  <2> TAKE f \in End
  <2>1. Same(f)
    BY <1>2 DEF Same
  <2> QED
    BY <2>1, SameOrder
<1>3. ASSUME NEW m \in Msg, Send(From[type][m], m) PROVE \A f \in End : OrderAt(f)'
  <2>1. PICK e \in End : e = From[type][m] /\ Send(e, m)
    BY <1>3, SenderEnd
  <2> QED
    BY <2>1, SendOrder
<1>4. CASE Dial \/ Wake \/ UNCHANGED vars
  <2>1. UNCHANGED <<type, sent, sendq, off, doubled, wire, buf, cur, cache, pendingfd, delivered, torn, life>>
    BY <1>4 DEF Dial, Wake, vars, socks, reader
  <2> QED
    BY <1>2, <2>1
<1>5. CASE Accept
  <2>1. /\ UNCHANGED <<type, sent, sendq, off, doubled, wire, buf, cur, cache, pendingfd, delivered, torn>>
        /\ "b" \in End /\ life["b"] # "destroyed" /\ life' = [life EXCEPT !["b"] = "open"]
    BY <1>5 DEF Accept, reader, End
  <2>2. \A f \in End : life[f] = "destroyed" => life'[f] = "destroyed"
    BY <2>1, GoneStays
  <2> QED
    BY <1>2, <2>1, <2>2
<1>6. ASSUME NEW j, NEW n, Connected(j, n) PROVE \A f \in End : OrderAt(f)'
  <2>1. /\ "a" \in End /\ life["a"] # "destroyed"
        /\ Flush("a", j, n) /\ UNCHANGED <<type, sent, reader>>
        /\ \/ Gone("a", Notified("b", Listened("a")))
           \/ life' = [life EXCEPT !["a"] = "open"]
    BY <1>6 DEF Connected, End
  <2>2. \A f \in End : life[f] = "destroyed" => life'[f] = "destroyed"
    BY <2>1, GoneStays
  <2> QED
    BY <2>1, <2>2, FlushOrder
<1>7. ASSUME NEW e \in End, NEW j, NEW n, OnWritable(e, j, n) \/ DestroySoon(e, j, n)
      PROVE  \A f \in End : OrderAt(f)'
  <2>1. /\ Flush(e, j, n) /\ UNCHANGED <<type, sent, reader>>
        /\ \/ \E d : Gone(e, d)
           \/ life' = life
    BY <1>7 DEF OnWritable, DestroySoon
  <2>2. \A f \in End : life[f] = "destroyed" => life'[f] = "destroyed"
    BY <2>1, GoneStays
  <2> QED
    BY <2>1, <2>2, FlushOrder
<1>8. ASSUME NEW e \in End, FlushThrows(e) PROVE \A f \in End : OrderAt(f)'
  BY <1>8, LostOrder
<1>9. ASSUME NEW e \in End, OnReadable(e) \/ RecvThrows(e) PROVE \A f \in End : OrderAt(f)'
  <2>1. PICK s, got, all, rest : Taken(e, s, got, all, rest)
    BY DEF Taken
  <2>2. /\ UNCHANGED <<type, sent, sendq, off, doubled>>
        /\ life' = life \/ \E d : Gone(e, d)
        /\ wire' = [wire EXCEPT ![e] = rest]
        /\ pendingfd' = [pendingfd EXCEPT ![e] = Received(e, got)]
        /\ \/ /\ cur' = [cur EXCEPT ![e] = Headed(all)]
              /\ torn' = [torn EXCEPT ![e] = Headed(all) = NoPart]
              /\ buf' = [buf EXCEPT ![e] = IF Headed(all) = NoPart THEN <<>> ELSE all]
              /\ UNCHANGED <<cache, delivered>>
           \/ NextFrame(e, all) /\ Parse(e, cur[e][1], cur[e][2], all)
           \/ buf' = [buf EXCEPT ![e] = all] /\ UNCHANGED <<cur, cache, delivered, torn>>
    <3>1. CASE OnReadable(e)
      BY <2>1, <3>1 DEF OnReadable, Taken, socks
    <3>2. CASE RecvThrows(e)
      BY <2>1, <3>2 DEF RecvThrows, Taken
    <3> QED
      BY <1>9, <3>1, <3>2
  <2>3. /\ cur \in [End -> PartId \cup {NoPart}] /\ buf \in [End -> Seq(Byte)]
        /\ cache \in [End -> Seq(Msg \X Nat)] /\ pendingfd \in [End -> Msg \cup {Nil}]
        /\ delivered \in [End -> Seq([msg : Msg, fd : Msg \cup {Nil}])]
        /\ torn \in [End -> BOOLEAN] /\ wire \in [End -> Seq(Byte)]
    BY DEF ReadType, WireType, FlagType
  <2>4. ASSUME NEW f \in End, f # e
        PROVE  /\ wire'[f] = wire[f] /\ buf'[f] = buf[f] /\ cur'[f] = cur[f]
               /\ cache'[f] = cache[f] /\ delivered'[f] = delivered[f]
               /\ pendingfd'[f] = pendingfd[f] /\ torn'[f] = torn[f]
    <3>1. wire'[f] = wire[f] /\ pendingfd'[f] = pendingfd[f]
      BY <2>2, <2>3, <2>4
    <3>2. buf'[f] = buf[f] /\ cur'[f] = cur[f]
      BY <2>2, <2>3, <2>4 DEF NextFrame
    <3>3. cache'[f] = cache[f] /\ delivered'[f] = delivered[f] /\ torn'[f] = torn[f]
      BY <2>2, <2>3, <2>4 DEF Parse
    <3> QED
      BY <3>1, <3>2, <3>3
  <2>5. \A f \in End : life[f] = "destroyed" => life'[f] = "destroyed"
    BY <2>2, GoneStays
  <2>6. OrderAt(e)'
    BY <1>9, ReadableOrder, ThrowsOrder
  <2> QED
    BY <2>2, <2>4, <2>5, <2>6, OthersOrder
<1>10. ASSUME NEW e \in End, OnEnd(e) \/ StaleNotification(e) \/ Pause(e) \/ Resume(e) \/ Destroy(e)
       PROVE  \A f \in End : OrderAt(f)'
  <2>1. /\ UNCHANGED <<type, sent, sendq, off, doubled, wire, buf, cur, cache, pendingfd, delivered, torn>>
        /\ life' = life \/ \E d : Gone(e, d)
    BY <1>10 DEF OnEnd, StaleNotification, Pause, Resume, Destroy, socks, reader
  <2>2. \A f \in End : life[f] = "destroyed" => life'[f] = "destroyed"
    BY <2>1, GoneStays
  <2> QED
    BY <1>2, <2>1, <2>2
<1> QED
  BY <1>3, <1>4, <1>5, <1>6, <1>7, <1>8, <1>9, <1>10 DEF Next, Callback, Connecting, Writing

LEMMA OrderInit == Init => OrderInv
<1> SUFFICES ASSUME Init PROVE OrderInv
  OBVIOUS
<1>1. OwnInv
  BY OwnInit
<1> SUFFICES ASSUME NEW e \in End PROVE OrderAt(e)
  BY <1>1 DEF OrderInv
<1>2. PICK r \in End : r = Peer(e)
  BY PeerOther
<1>3. /\ sent[r] = <<>> /\ sendq[r] = <<>> /\ delivered[e] = <<>> /\ cache[e] = <<>>
      /\ buf[e] = <<>> /\ wire[e] = <<>> /\ cur[e] = NoPart /\ torn[e] = FALSE
  BY DEF Init, Descriptors
<1>4. Len(<<>>) = 0 /\ 1 .. 0 = {} /\ 2 .. 0 = {}
  OBVIOUS
<1>5. Exact(e)
  BY <1>2, <1>3, <1>4 DEF Exact
<1>6. QueueLast(r) /\ WriteAt(r) = <<1, 0>>
  BY <1>3, <1>4 DEF QueueLast, Ahead, WriteAt
<1>7. Reads(e) /\ ReadAt(e) = <<1, 0>>
  <2>1. HeaderSize + PayloadMax \in Int
    BY FramingAssumption DEF HeaderSize, PayloadMax
  <2>2. 0 * (HeaderSize + PayloadMax) = 0
    BY <2>1
  <2>3. Count(e) = 1 /\ Count(e) > Len(sent[r])
    BY <1>3, <1>4 DEF Count
  <2> QED
    BY <1>2, <1>3, <1>4, <2>2, <2>3 DEF Reads, ReadAt
<1>8. Leads(sent[r], ReadAt(e), buf[e] \o wire[e], WriteAt(r))
  <2>1. buf[e] \o wire[e] = <<>>
    BY <1>3
  <2> QED
    BY <1>6, <1>7, <2>1, LeadsNone
<1> QED
  BY <1>2, <1>5, <1>6, <1>7, <1>8 DEF OrderAt, Flow

LEMMA OrderImplied == TypeInv /\ OrderInv => InOrder
<1> SUFFICES ASSUME TypeInv, OrderInv, NEW e \in End, ~doubled[Peer(e)]
             PROVE  ~torn[e] /\ IsPrefix(delivered[e], Owed(e))
  BY DEF InOrder
<1>1. Exact(e)
  BY DEF OrderInv, OrderAt
<1>2. PICK r \in End : r = Peer(e)
  BY PeerOther
<1>3. PICK d : d = delivered[e] /\ d \in Seq([msg : Msg, fd : Msg \cup {Nil}])
  BY DEF TypeInv, ReadType
<1>4. sent[r] \in Seq(Msg)
  BY DEF TypeInv, SendType
<1>5. PICK o : o = Owed(e) /\ o \in Seq([msg : Msg, fd : Msg \cup {Nil}])
               /\ Len(o) = Len(sent[r]) /\ \A i \in 1 .. Len(sent[r]) : o[i] = OwedAt(e, i)
  <2>1. DOMAIN sent[r] = 1 .. Len(sent[r]) /\ Len(sent[r]) \in Nat
    BY <1>4
  <2>2. PICK n \in Nat : n = Len(sent[r])
    BY <2>1
  <2>3. Owed(e) = [i \in 1 .. n |-> OwedAt(e, i)]
    BY <1>2, <2>1, <2>2 DEF Owed, OwedAt
  <2>4. \A i \in 1 .. n : OwedAt(e, i) \in [msg : Msg, fd : Msg \cup {Nil}]
    BY <1>2, <1>4, <2>2 DEF OwedAt
  <2>5. PICK f : f = [i \in 1 .. n |-> OwedAt(e, i)]
    OBVIOUS
  <2>6. f \in [1 .. n -> [msg : Msg, fd : Msg \cup {Nil}]] /\ \A i \in 1 .. n : f[i] = OwedAt(e, i)
    BY <2>4, <2>5
  <2>7. f \in Seq([msg : Msg, fd : Msg \cup {Nil}]) /\ Len(f) = n
    BY <2>6, FunctionSeq
  <2> QED
    BY <2>2, <2>3, <2>5, <2>6, <2>7
<1>6. Len(d) <= Len(o) /\ \A i \in 1 .. Len(d) : d[i] = o[i]
  <2>1. Len(d) \in Nat /\ Len(o) \in Nat /\ Len(d) <= Len(o)
    BY <1>1, <1>2, <1>3, <1>5 DEF Exact
  <2> QED
    BY <1>1, <1>2, <1>3, <1>5, <2>1 DEF Exact
<1>7. SubSeq(d, 1, Len(d)) = SubSeq(o, 1, Len(d))
  <2>1. PICK v : v = SubSeq(d, 1, Len(d)) /\ v \in Seq([msg : Msg, fd : Msg \cup {Nil}])
                 /\ Len(v) = Len(d) /\ \A i \in 1 .. Len(d) : v[i] = d[i]
    BY <1>3
  <2>2. SubSeq(o, 1, Len(d)) \in Seq([msg : Msg, fd : Msg \cup {Nil}])
        /\ Len(SubSeq(o, 1, Len(d))) = Len(d) /\ \A i \in 1 .. Len(d) : SubSeq(o, 1, Len(d))[i] = o[i]
    <3>1. PICK k \in 0 .. Len(o) : k = Len(d)
      BY <1>3, <1>5, <1>6
    <3>2. SubSeq(o, 1, k) \in Seq([msg : Msg, fd : Msg \cup {Nil}])
          /\ Len(SubSeq(o, 1, k)) = k /\ \A i \in 1 .. k : SubSeq(o, 1, k)[i] = o[i]
      BY <1>5, PrefixAt
    <3> QED
      BY <3>1, <3>2
  <2>3. PICK w : w = SubSeq(o, 1, Len(d)) /\ w \in Seq([msg : Msg, fd : Msg \cup {Nil}])
                 /\ Len(w) = Len(d) /\ \A i \in 1 .. Len(d) : w[i] = o[i]
    BY <2>2
  <2>4. v = w
    BY <1>6, <2>1, <2>3, SameSeq
  <2> QED
    BY <2>1, <2>3, <2>4
<1> QED
  BY <1>1, <1>3, <1>5, <1>6, <1>7 DEF Exact, IsPrefix

\* Each end gets whole messages, each once, in the order they were sent, with
\* their own descriptors, however the bytes are cut on their way, for any
\* messages, sizes and capacity (_onReadable, parseMessage, _sendmsg, flush).
THEOREM InOrderCorrect == Spec => []InOrder
<1>1. Init => TypeInv /\ (\A e \in End : EndTold(e)) /\ OrderInv
  BY TypeInit, StallInit, OrderInit DEF StallInv
<1>2. TypeInv /\ (\A e \in End : EndTold(e)) /\ OrderInv /\ [Next]_vars
        => TypeInv' /\ (\A e \in End : EndTold(e)') /\ OrderInv'
  BY TypeSteps, EndSteps, OrderSteps DEF TypeInv
<1>3. TypeInv /\ OrderInv => InOrder
  BY OrderImplied
<1>4. (\A e \in End : EndTold(e))' <=> \A e \in End : EndTold(e)'
  OBVIOUS
<1> QED
  BY <1>1, <1>2, <1>3, <1>4, PTL DEF Spec
=============================================================================
