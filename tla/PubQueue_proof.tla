---------------------------- MODULE PubQueue_proof ----------------------------
(***************************************************************************)
(* The types of PubQueue, and that its sockets get the channel's messages  *)
(* in order, for every value of its constants.                             *)
(***************************************************************************)
EXTENDS PubQueue, SequenceLemmas

-----------------------------------------------------------------------------
(* Writing                                                                 *)

OffSteps(w, o) ==
  /\ o[0] = 0
  /\ \A k \in 1 .. Len(w) : o[k] = IF w[k] = Throws THEN o[k - 1] ELSE Moved(o[k - 1], w[k])

\* OffAt reads off one function: what _off is after each write.
LEMMA OffExists ==
  ASSUME NEW w \in Seq(Int)
  PROVE  \E o : OffSteps(w, o) /\ \A i : OffAt(w, i) = o[i - 1]
<1> DEFINE J(o) == o = [k \in 0 .. Len(w) |->
                     IF k = 0 THEN 0 ELSE IF w[k] = Throws THEN o[k - 1] ELSE Moved(o[k - 1], w[k])]
<1>1. PICK n \in Nat : n = Len(w) /\ \A k \in 1 .. n : w[k] \in Int
  OBVIOUS
<1>2. PICK F : F = [k \in 1 .. n |-> [x \in Int |-> IF w[k] = Throws THEN x ELSE Moved(x, w[k])]]
  OBVIOUS
<1>3. F \in [1 .. n -> [Int -> Int]]
  <2>1. \A k \in 1 .. n : \A x \in Int : Moved(x, w[k]) \in Int
    BY <1>1 DEF Moved
  <2> QED
    BY <1>2, <2>1
<1>4. PICK g \in [0 .. n -> Int] : Iterates(g, 0, F, n)
  <2>1. 0 \in Int
    OBVIOUS
  <2>2. \E g \in [0 .. n -> Int] : Iterates(g, 0, F, n)
    BY <1>3, <2>1, IterExists, Zenon
  <2> QED
    BY <2>2
<1>5. \A k \in 1 .. n : g[k] = IF w[k] = Throws THEN g[k - 1] ELSE Moved(g[k - 1], w[k])
  <2>1. \A k \in 1 .. n : k - 1 \in 0 .. n
    OBVIOUS
  <2> QED
    BY <1>2, <1>4, <2>1 DEF Iterates
<1>6. J(g)
  <2>1. g = [k \in 0 .. n |-> g[k]]
    OBVIOUS
  <2>2. \A k \in 0 .. n : k = 0 \/ k \in 1 .. n
    OBVIOUS
  <2> QED
    BY <1>1, <1>4, <1>5, <2>1, <2>2 DEF Iterates
<1>7. PICK o : o = CHOOSE h : J(h)
  OBVIOUS
<1>8. J(o)
  <2> HIDE DEF J
  <2> QED BY <1>6, <1>7
<1>9. \A i : OffAt(w, i) = o[i - 1]
  BY <1>7 DEF OffAt
<1>10. \A k \in 0 .. Len(w) :
         o[k] = IF k = 0 THEN 0 ELSE IF w[k] = Throws THEN o[k - 1] ELSE Moved(o[k - 1], w[k])
  BY <1>8, Zenon
<1> HIDE DEF J
<1>11. 0 \in 0 .. Len(w) /\ \A k \in 1 .. Len(w) : k \in 0 .. Len(w) /\ k # 0
  BY <1>1
<1>12. OffSteps(w, o)
  BY <1>10, <1>11 DEF OffSteps
<1> QED
  BY <1>9, <1>12

-----------------------------------------------------------------------------
(* Who a message is written to                                             *)

\* The types that the queue job relies on.
ListType == conns \in Seq(Sock) /\ hits \in [Sock -> Nat]

Block(i) == IF life[conns[i]] = "open" THEN [k \in 1 .. hits[conns[i]] |-> conns[i]] ELSE <<>>

\* q has the targets among the first k sockets: those that are open and picked,
\* and one that is picked once, once.
Picked(k, q) ==
  /\ q \in Seq(Sock)
  /\ \A t \in 1 .. Len(q) : \E i \in 1 .. k :
       q[t] = conns[i] /\ life[conns[i]] = "open" /\ hits[conns[i]] # 0
  /\ \A i \in 1 .. k : life[conns[i]] = "open" /\ hits[conns[i]] = 1
                         => \E t \in 1 .. Len(q) : q[t] = conns[i]
  /\ \A t, u \in 1 .. Len(q) : q[t] = q[u] /\ hits[q[t]] = 1 => t = u

\* A socket's part of the targets is a sequence of sockets.
LEMMA BlockType ==
  ASSUME ListType, NEW i \in 1 .. Len(conns)
  PROVE  /\ conns[i] \in Sock /\ Block(i) \in Seq(Sock)
         /\ Len(Block(i)) = IF life[conns[i]] = "open" THEN hits[conns[i]] ELSE 0
         /\ \A k \in 1 .. Len(Block(i)) : Block(i)[k] = conns[i]
<1>1. PICK s \in Sock, h \in Nat : s = conns[i] /\ h = hits[s]
  BY DEF ListType
<1>2. CASE life[s] = "open"
  <2>1. PICK f : f = [k \in 1 .. h |-> s]
    OBVIOUS
  <2>2. f \in [1 .. h -> Sock] /\ \A k \in 1 .. h : f[k] = s
    BY <2>1
  <2>3. f \in Seq(Sock) /\ Len(f) = h
    BY <2>2, FunctionSeq
  <2>4. Block(i) = f
    BY <1>1, <1>2, <2>1 DEF Block
  <2> QED
    BY <1>1, <1>2, <2>2, <2>3, <2>4
<1>3. CASE life[s] # "open"
  <2>1. Block(i) = <<>>
    BY <1>1, <1>3 DEF Block
  <2>2. <<>> \in Seq(Sock) /\ Len(<<>>) = 0 /\ 1 .. 0 = {}
    OBVIOUS
  <2>3. Block(i) \in Seq(Sock) /\ Len(Block(i)) = 0
    BY <2>1, <2>2
  <2>4. \A k \in 1 .. Len(Block(i)) : FALSE
    BY <2>2, <2>3
  <2> QED
    BY <1>1, <1>3, <2>3, <2>4
<1> QED
  BY <1>2, <1>3

\* The targets among one socket more.
LEMMA PickedMore ==
  ASSUME ListType, IsInjective(conns), NEW k \in 1 .. Len(conns), NEW q, Picked(k - 1, q)
  PROVE  Picked(k, q \o Block(k))
<1>1. PICK s \in Sock, b \in Seq(Sock) : s = conns[k] /\ b = Block(k)
                /\ Len(b) = (IF life[s] = "open" THEN hits[s] ELSE 0)
                /\ \A i \in 1 .. Len(b) : b[i] = s
  BY BlockType
<1>2. hits[s] \in Nat /\ k \in Nat \ {0} /\ q \in Seq(Sock)
  BY DEF ListType, Picked
<1>3. PICK p : p = q \o b
  OBVIOUS
<1>4. PICK n : n = Len(q)
  OBVIOUS
<1>5. PICK m : m = Len(b)
  OBVIOUS
<1>6. /\ p \in Seq(Sock) /\ Len(p) = n + m /\ n = Len(q) /\ m = Len(b)
      /\ (\A t \in 1 .. n : p[t] = q[t]) /\ \A t \in 1 .. m : p[n + t] = s
  <2>1. q \o b \in Seq(Sock) /\ Len(q \o b) = Len(q) + Len(b)
    BY <1>1, <1>2, ConcatType
  <2>2. (\A t \in 1 .. Len(q) : (q \o b)[t] = q[t]) /\ \A t \in 1 .. Len(b) : (q \o b)[Len(q) + t] = b[t]
    BY <1>1, <1>2, ConcatAt
  <2>3. \A t \in 1 .. Len(b) : p[Len(q) + t] = s
    BY <1>1, <1>3, <2>2
  <2> QED
    BY <1>3, <1>4, <1>5, <2>1, <2>2, <2>3
<1>7. n \in Nat /\ m \in Nat
  BY <1>1, <1>2, <1>6
<1>8. \A t \in 1 .. n + m : t \in 1 .. n \/ (t - n \in 1 .. m /\ n + (t - n) = t)
  BY <1>7
<1>9. \A t \in 1 .. n : p[t] # s
  <2> SUFFICES ASSUME NEW t \in 1 .. n, p[t] = s PROVE FALSE
    OBVIOUS
  <2>1. PICK i \in 1 .. k - 1 : q[t] = conns[i]
    BY <1>6 DEF Picked
  <2>2. conns[i] = conns[k] /\ i # k /\ i \in 1 .. Len(conns)
    <3>1. k - 1 <= Len(conns) /\ k \in Nat /\ Len(conns) \in Nat
      BY <1>2 DEF ListType
    <3> QED
      BY <1>1, <1>2, <1>6, <2>1, <3>1
  <2>3. DOMAIN conns = 1 .. Len(conns)
    BY DEF ListType
  <2> QED
    BY <2>2, <2>3 DEF IsInjective
<1>10. ASSUME NEW t \in 1 .. n + m
      PROVE  \E i \in 1 .. k : p[t] = conns[i] /\ life[conns[i]] = "open" /\ hits[conns[i]] # 0
  <2>1. CASE t \in 1 .. n
    <3>1. PICK i \in 1 .. k - 1 : q[t] = conns[i] /\ life[conns[i]] = "open" /\ hits[conns[i]] # 0
      BY <1>6, <2>1 DEF Picked
    <3>2. i \in 1 .. k /\ p[t] = q[t]
      BY <1>2, <1>6, <2>1
    <3> QED
      BY <3>1, <3>2
  <2>2. CASE t - n \in 1 .. m /\ n + (t - n) = t
    <3>1. p[t] = s
      BY <1>6, <2>2
    <3>2. m # 0
      BY <1>7, <2>2
    <3>3. life[s] = "open" /\ hits[s] # 0 /\ k \in 1 .. k
      BY <1>1, <1>2, <1>6, <3>2
    <3> QED
      BY <1>1, <3>1, <3>3
  <2> QED
    BY <1>8, <2>1, <2>2
<1>11. ASSUME NEW i \in 1 .. k, life[conns[i]] = "open", hits[conns[i]] = 1
      PROVE  \E t \in 1 .. n + m : p[t] = conns[i]
  <2>1. CASE i = k
    <3>1. m = 1
      BY <1>1, <1>6, <1>11, <2>1
    <3>2. n + 1 \in 1 .. n + m /\ p[n + 1] = s
      BY <1>6, <1>7, <3>1
    <3> QED
      BY <1>1, <2>1, <3>2
  <2>2. CASE i # k
    <3>1. i \in 1 .. k - 1
      BY <1>2, <2>2
    <3>2. PICK t \in 1 .. n : q[t] = conns[i]
      BY <1>6, <1>11, <3>1 DEF Picked
    <3>3. t \in 1 .. n + m /\ p[t] = q[t]
      BY <1>6, <1>7
    <3> QED
      BY <3>2, <3>3
  <2> QED
    BY <2>1, <2>2
<1>12. ASSUME NEW t \in 1 .. n + m, NEW u \in 1 .. n + m, p[t] = p[u], hits[p[t]] = 1
      PROVE  t = u
  <2>1. CASE p[t] = s
    <3>1. t - n \in 1 .. m /\ u - n \in 1 .. m
      BY <1>8, <1>9, <1>12, <2>1
    <3>2. m = 1
      <4>1. m # 0 /\ hits[s] = 1
        BY <1>7, <1>12, <2>1, <3>1
      <4> QED
        BY <1>1, <1>6, <4>1
    <3> QED
      BY <1>7, <3>1, <3>2
  <2>2. CASE p[t] # s
    <3>1. t \in 1 .. n /\ u \in 1 .. n
      BY <1>6, <1>8, <1>12, <2>2
    <3> QED
      BY <1>6, <1>12, <3>1 DEF Picked
  <2> QED
    BY <2>1, <2>2
<1>13. Picked(k, p)
  <2>1. p \in Seq(Sock) /\ Len(p) = n + m
    BY <1>6
  <2> QED
    BY <1>10, <1>11, <1>12, <2>1 DEF Picked
<1> QED
  BY <1>1, <1>3, <1>13

\* The targets are those among all that the channel lists.
LEMMA TargetsPicked ==
  ASSUME ListType, IsInjective(conns)
  PROVE  Picked(Len(conns), Targets)
<1>1. PICK n \in Nat : n = Len(conns) /\ DOMAIN conns = 1 .. n
  BY DEF ListType
<1>2. PICK b : b = [i \in 1 .. n |-> Block(i)]
  OBVIOUS
<1>3. b \in Seq(Seq(Sock)) /\ Len(b) = n /\ \A i \in 1 .. n : b[i] = Block(i)
  <2>1. \A i \in 1 .. n : Block(i) \in Seq(Sock)
    BY <1>1, BlockType
  <2>2. b \in [1 .. n -> Seq(Sock)]
    BY <1>2, <2>1
  <2> QED
    BY <1>2, <2>2, FunctionSeq
<1>4. Targets = FlattenSeq(b)
  BY <1>1, <1>2 DEF Targets, Block
<1>5. Picked(0, <<>>)
  <2>1. <<>> \in Seq(Sock) /\ Len(<<>>) = 0 /\ 1 .. 0 = {}
    OBVIOUS
  <2> QED
    BY <2>1 DEF Picked
<1>6. CASE n = 0
  <2>1. b = <<>>
    BY <1>3, <1>6
  <2>2. FlattenSeq(b) = <<>>
    BY <1>3, <2>1, FlattenType
  <2> QED
    BY <1>1, <1>4, <1>5, <1>6, <2>2
<1>7. CASE n # 0
  <2>1. b # <<>>
    BY <1>3, <1>7
  <2>2. PICK f : FlattenSeq(b) = f[n] /\ Joins(b, n, f)
    BY <1>3, <2>1, FlattenJoins
  <2>3. PICK T : T = {k \in 0 .. n : k = 0 \/ Picked(k, f[k])}
    OBVIOUS
  <2>4. ASSUME NEW k \in 1 .. n, k - 1 \in T PROVE k \in T
    <3>1. f[k] = IF k = 1 THEN Block(k) ELSE f[k - 1] \o Block(k)
      BY <1>3, <2>2 DEF Joins
    <3>2. CASE k = 1
      <4>1. <<>> \o Block(k) = Block(k) /\ k - 1 = 0
        <5>1. Block(k) \in Seq(Sock)
          BY <1>1, BlockType
        <5> QED
          BY <3>2, <5>1, ConcatAssoc
      <4>2. Picked(k, <<>> \o Block(k))
        BY <1>1, <1>5, <4>1, PickedMore
      <4> QED
        BY <2>3, <3>1, <3>2, <4>1, <4>2
    <3>3. CASE k # 1
      <4>1. Picked(k - 1, f[k - 1])
        BY <2>3, <2>4, <3>3
      <4>2. Picked(k, f[k - 1] \o Block(k))
        BY <1>1, <4>1, PickedMore
      <4>3. Picked(k, f[k])
        BY <3>1, <3>3, <4>2
      <4> QED
        BY <2>3, <4>3
    <3> QED
      BY <3>2, <3>3
  <2>5. 0 \in T /\ T \in SUBSET (0 .. n)
    BY <2>3
  <2>6. T = 0 .. n
    BY <2>4, <2>5, Upwards
  <2>7. Picked(n, f[n])
    <3>1. n \in T
      BY <2>6
    <3> QED
      BY <1>7, <2>3, <3>1
  <2> QED
    BY <1>1, <1>4, <2>2, <2>7
<1> QED
  BY <1>6, <1>7

\* What may have been written to a socket.
Strm == [at : {Boundary} \cup (Msg \X (1 .. Size - 1)), got : Seq(Msg), torn : Msg \cup {0}]

\* Put keeps the types of a stream.
LEMMA PutType ==
  ASSUME NEW st \in Strm, NEW m \in Msg, NEW o \in 0 .. Size - 1, NEW n \in 0 .. Size, o + n <= Size
  PROVE  Put(st, m, o, n) \in Strm
<1>1. Size \in Nat \ {0}
  BY PubQueueAssumption
<1>2. PICK x, g, t : /\ st = [at |-> x, got |-> g, torn |-> t] /\ x \in {Boundary} \cup (Msg \X (1 .. Size - 1))
                     /\ g \in Seq(Msg) /\ t \in Msg \cup {0}
  BY DEF Strm
<1>3. [st EXCEPT !.torn = m] \in Strm
  BY DEF Strm
<1>4. [st EXCEPT !.at = Boundary, !.got = Append(@, m)] \in Strm
  <2>1. Append(st.got, m) \in Seq(Msg)
    BY AppendAt DEF Strm
  <2> QED
    BY <2>1 DEF Strm
<1>5. o + n # Size /\ n # 0 => [st EXCEPT !.at = <<m, o + n>>] \in Strm
  <2>1. o + n # Size /\ n # 0 => o + n \in 1 .. Size - 1
    BY <1>1
  <2> QED
    BY <2>1 DEF Strm
<1> QED
  BY <1>3, <1>4, <1>5 DEF Put

\* What the writes to the targets take.
LEMMA WritesType ==
  ASSUME ListType, IsInjective(conns), NEW w \in Writes
  PROVE  /\ w \in Seq(Int) /\ Len(w) = Len(Targets) /\ Len(w) \in Nat
         /\ DOMAIN w = 1 .. Len(w) /\ DOMAIN Targets = 1 .. Len(w)
         /\ \A i \in 1 .. Len(w) : /\ Targets[i] \in Sock /\ w[i] \in Int /\ w[i] <= Size
                                   /\ w[i] # Throws => w[i] >= 0
                                   /\ OffAt(w, i) + w[i] <= Size
<1>1. Targets \in Seq(Sock)
  BY TargetsPicked DEF Picked
<1>2. PICK n \in Nat : n = Len(Targets) /\ DOMAIN Targets = 1 .. n /\ \A i \in 1 .. n : Targets[i] \in Sock
  BY <1>1
<1>3. w \in [1 .. n -> Throws .. Size] /\ Takes(w)
  BY <1>2 DEF Writes
<1>4. Throws .. Size \subseteq Int /\ \A x \in Throws .. Size : x <= Size /\ (x # Throws => x >= 0)
  BY PubQueueAssumption DEF Throws
<1>5. w \in [1 .. n -> Int] /\ DOMAIN w = 1 .. n
  BY <1>3, <1>4
<1>6. w \in Seq(Int) /\ Len(w) = n
  BY <1>5, FunctionSeq
<1> QED
  BY <1>2, <1>3, <1>4, <1>5, <1>6 DEF Takes

\* The offset that writes leave is never that of the message's end.
LEMMA OffRange ==
  ASSUME ListType, IsInjective(conns), NEW w \in Writes
  PROVE  OffAt(w, 1) = 0 /\ \A i \in 1 .. Len(w) + 1 : OffAt(w, i) \in 0 .. Size - 1
<1>1. /\ w \in Seq(Int) /\ Len(w) \in Nat
      /\ \A i \in 1 .. Len(w) : /\ w[i] \in Int /\ w[i] <= Size
                                /\ w[i] # Throws => w[i] >= 0
                                /\ OffAt(w, i) + w[i] <= Size
  BY WritesType
<1>2. PICK o : OffSteps(w, o) /\ \A i : OffAt(w, i) = o[i - 1]
  BY <1>1, OffExists
<1>3. Size \in Nat \ {0}
  BY PubQueueAssumption
<1>4. PICK n \in Nat : n = Len(w)
  BY <1>1
<1>5. PICK T : T = {k \in 0 .. n : o[k] \in 0 .. Size - 1}
  OBVIOUS
<1>6. ASSUME NEW k \in 1 .. n, k - 1 \in T PROVE k \in T
  <2>1. o[k - 1] \in 0 .. Size - 1
    BY <1>5, <1>6
  <2>2. o[k] = IF w[k] = Throws THEN o[k - 1] ELSE Moved(o[k - 1], w[k])
    BY <1>2, <1>4 DEF OffSteps
  <2>3. w[k] \in Int /\ w[k] <= Size /\ o[k - 1] + w[k] <= Size /\ (w[k] # Throws => w[k] >= 0)
    <3>1. OffAt(w, k) = o[k - 1]
      BY <1>2
    <3> QED
      BY <1>1, <1>4, <3>1
  <2>4. w[k] # Throws => Moved(o[k - 1], w[k]) \in 0 .. Size - 1
    BY <1>3, <2>1, <2>3 DEF Moved
  <2>5. o[k] \in 0 .. Size - 1
    BY <2>1, <2>2, <2>4
  <2> QED
    BY <1>5, <2>5
<1>7. 0 \in T /\ T \in SUBSET (0 .. n)
  BY <1>2, <1>3, <1>5 DEF OffSteps
<1>8. T = 0 .. n
  BY <1>6, <1>7, Upwards
<1>9. \A i \in 1 .. n + 1 : OffAt(w, i) \in 0 .. Size - 1
  <2>1. \A i \in 1 .. n + 1 : i - 1 \in T
    BY <1>8
  <2> QED
    BY <1>2, <1>5, <2>1
<1>10. OffAt(w, 1) = 0
  BY <1>2 DEF OffSteps
<1> QED
  BY <1>4, <1>9, <1>10

\* The streams after each write to a target.
StreamSteps(st, m, w, acc) ==
  /\ acc[0] = st
  /\ \A k \in 1 .. Len(w) :
       acc[k] = IF w[k] = Throws THEN acc[k - 1]
                ELSE [acc[k - 1] EXCEPT ![Targets[k]] = Put(@, m, OffAt(w, k), w[k])]

\* Streams reads off one function: the streams after each write.
LEMMA StreamsExist ==
  ASSUME ListType, IsInjective(conns), NEW w \in Writes, NEW m \in Msg, NEW st \in [Sock -> Strm]
  PROVE  \E acc \in [0 .. Len(w) -> [Sock -> Strm]] :
            StreamSteps(st, m, w, acc) /\ Streams(st, m, w) = acc[Len(w)]
<1> DEFINE J(f) == f = [k \in 0 .. Len(w) |->
                     IF k = 0 THEN st ELSE IF w[k] = Throws THEN f[k - 1]
                     ELSE [f[k - 1] EXCEPT ![Targets[k]] = Put(@, m, OffAt(w, k), w[k])]]
<1>1. PICK n \in Nat : n = Len(w)
  BY WritesType
<1>2. \A i \in 1 .. n : /\ Targets[i] \in Sock /\ w[i] \in Int /\ w[i] <= Size
                        /\ w[i] # Throws => w[i] >= 0
                        /\ OffAt(w, i) + w[i] <= Size /\ OffAt(w, i) \in 0 .. Size - 1
  <2>1. \A i \in 1 .. n : i \in 1 .. n + 1
    OBVIOUS
  <2> QED
    BY <1>1, <2>1, WritesType, OffRange
<1>3. ASSUME NEW k \in 1 .. n, NEW x \in [Sock -> Strm]
      PROVE  (IF w[k] = Throws THEN x ELSE [x EXCEPT ![Targets[k]] = Put(@, m, OffAt(w, k), w[k])])
               \in [Sock -> Strm]
  <2>1. CASE w[k] = Throws
    BY <2>1
  <2>2. CASE w[k] # Throws
    <3>1. w[k] \in 0 .. Size /\ OffAt(w, k) + w[k] <= Size /\ OffAt(w, k) \in 0 .. Size - 1
      BY <1>2, <2>2, PubQueueAssumption
    <3>2. x[Targets[k]] \in Strm
      BY <1>2
    <3>3. Put(x[Targets[k]], m, OffAt(w, k), w[k]) \in Strm
      BY <3>1, <3>2, PutType
    <3> QED
      BY <2>2, <3>3
  <2> QED
    BY <2>1, <2>2
<1>4. PICK F : F = [k \in 1 .. n |-> [x \in [Sock -> Strm] |->
                     IF w[k] = Throws THEN x ELSE [x EXCEPT ![Targets[k]] = Put(@, m, OffAt(w, k), w[k])]]]
  OBVIOUS
<1>5. F \in [1 .. n -> [[Sock -> Strm] -> [Sock -> Strm]]]
  BY <1>3, <1>4
<1>6. PICK g \in [0 .. n -> [Sock -> Strm]] : Iterates(g, st, F, n)
  <2>1. \E g \in [0 .. n -> [Sock -> Strm]] : Iterates(g, st, F, n)
    BY <1>5, IterExists, Zenon
  <2> QED
    BY <2>1
<1>7. \A k \in 1 .. n : g[k] = IF w[k] = Throws THEN g[k - 1]
                               ELSE [g[k - 1] EXCEPT ![Targets[k]] = Put(@, m, OffAt(w, k), w[k])]
  <2> TAKE k \in 1 .. n
  <2>1. k - 1 \in 0 .. n
    OBVIOUS
  <2>2. g[k - 1] \in [Sock -> Strm]
    BY <2>1
  <2>3. F[k][g[k - 1]] = IF w[k] = Throws THEN g[k - 1]
                         ELSE [g[k - 1] EXCEPT ![Targets[k]] = Put(@, m, OffAt(w, k), w[k])]
    BY <1>4, <2>2
  <2> QED
    BY <1>6, <2>3 DEF Iterates
<1>8. J(g)
  <2>1. g = [k \in 0 .. n |-> g[k]]
    OBVIOUS
  <2>2. \A k \in 0 .. n : k = 0 \/ k \in 1 .. n
    OBVIOUS
  <2> QED
    BY <1>1, <1>6, <1>7, <2>1, <2>2 DEF Iterates
<1>9. PICK f : f = CHOOSE h : J(h)
  OBVIOUS
<1>10. J(f)
  <2> HIDE DEF J
  <2> QED BY <1>8, <1>9
<1>11. Streams(st, m, w) = f[n]
  BY <1>1, <1>9 DEF Streams
<1>12. \A k \in 0 .. n : f[k] = IF k = 0 THEN st ELSE IF w[k] = Throws THEN f[k - 1]
                               ELSE [f[k - 1] EXCEPT ![Targets[k]] = Put(@, m, OffAt(w, k), w[k])]
  BY <1>1, <1>10, Zenon
<1> HIDE DEF J
<1>13. 0 \in 0 .. n /\ \A k \in 1 .. n : k \in 0 .. n /\ k # 0
  OBVIOUS
<1>14. StreamSteps(st, m, w, f)
  BY <1>1, <1>12, <1>13 DEF StreamSteps
<1>15. PICK T : T = {k \in 0 .. n : f[k] \in [Sock -> Strm]}
  OBVIOUS
<1>16. ASSUME NEW k \in 1 .. n, k - 1 \in T PROVE k \in T
  <2>1. f[k - 1] \in [Sock -> Strm]
    BY <1>15, <1>16
  <2>2. f[k] = IF w[k] = Throws THEN f[k - 1] ELSE [f[k - 1] EXCEPT ![Targets[k]] = Put(@, m, OffAt(w, k), w[k])]
    BY <1>12, <1>13
  <2>3. f[k] \in [Sock -> Strm]
    BY <1>3, <2>1, <2>2
  <2> QED
    BY <1>15, <1>13, <2>3
<1>17. 0 \in T /\ T \in SUBSET (0 .. n)
  BY <1>12, <1>13, <1>15
<1>18. T = 0 .. n
  BY <1>16, <1>17, Upwards
<1>19. \A k \in 0 .. n : f[k] \in [Sock -> Strm]
  BY <1>15, <1>18
<1>20. f = [k \in 0 .. n |-> f[k]]
  <2>1. \E e : f = [k \in 0 .. n |-> e[k]]
    <3> DEFINE body == [k \in 0 .. n |-> IF k = 0 THEN st ELSE IF w[k] = Throws THEN f[k - 1]
                               ELSE [f[k - 1] EXCEPT ![Targets[k]] = Put(@, m, OffAt(w, k), w[k])]]
    <3>1. f = body
      BY <1>1, <1>10 DEF J
    <3>2. body = [k \in 0 .. n |-> body[k]]
      OBVIOUS
    <3> QED
      BY <3>1, <3>2
  <2> QED
    BY <2>1
<1>21. f \in [0 .. n -> [Sock -> Strm]]
  BY <1>19, <1>20
<1> QED
  BY <1>1, <1>11, <1>14, <1>21

\* The writes of a message keep the types of the streams.
LEMMA StreamsType ==
  ASSUME ListType, IsInjective(conns), NEW w \in Writes, NEW m \in Msg, NEW st \in [Sock -> Strm]
  PROVE  Streams(st, m, w) \in [Sock -> Strm]
<1>1. \E acc \in [0 .. Len(w) -> [Sock -> Strm]] :
         StreamSteps(st, m, w, acc) /\ Streams(st, m, w) = acc[Len(w)]
  BY StreamsExist, Zenon
<1>2. PICK acc \in [0 .. Len(w) -> [Sock -> Strm]] : Streams(st, m, w) = acc[Len(w)]
  BY <1>1
<1>3. Len(w) \in 0 .. Len(w)
  BY WritesType
<1> QED
  BY <1>2, <1>3

\* What the writes of a message do to a socket that is a target once at most.
LEMMA StreamsAt ==
  ASSUME ListType, IsInjective(conns), NEW w \in Writes, NEW m \in Msg, NEW st \in [Sock -> Strm],
         NEW s \in Sock, NEW t \in 1 .. Len(w) + 1,
         \A k \in 1 .. Len(w) : Targets[k] = s => k = t
  PROVE  Streams(st, m, w)[s] =
           IF t \in 1 .. Len(w) /\ Targets[t] = s /\ w[t] # Throws
           THEN Put(st[s], m, OffAt(w, t), w[t]) ELSE st[s]
<1>1. PICK n \in Nat : n = Len(w)
  BY WritesType
<1>2. \E acc \in [0 .. Len(w) -> [Sock -> Strm]] :
         StreamSteps(st, m, w, acc) /\ Streams(st, m, w) = acc[Len(w)]
  BY StreamsExist, Zenon
<1>3. PICK acc \in [0 .. n -> [Sock -> Strm]] :
         StreamSteps(st, m, w, acc) /\ Streams(st, m, w) = acc[n]
  BY <1>1, <1>2
<1>4. PICK x : x = IF t \in 1 .. n /\ Targets[t] = s /\ w[t] # Throws
                   THEN Put(st[s], m, OffAt(w, t), w[t]) ELSE st[s]
  OBVIOUS
<1>5. PICK T : T = {k \in 0 .. n : acc[k][s] = IF k < t THEN st[s] ELSE x}
  OBVIOUS
<1>6. ASSUME NEW k \in 1 .. n, k - 1 \in T PROVE k \in T
  <2>1. k - 1 \in 0 .. n /\ k \in 0 .. n /\ t \in Nat /\ t >= 1 /\ (t = k => t \in 1 .. n)
    BY <1>1
  <2>2. acc[k - 1] \in [Sock -> Strm] /\ acc[k - 1][s] = IF k - 1 < t THEN st[s] ELSE x
    BY <1>5, <1>6, <2>1
  <2>3. acc[k] = IF w[k] = Throws THEN acc[k - 1]
                 ELSE [acc[k - 1] EXCEPT ![Targets[k]] = Put(@, m, OffAt(w, k), w[k])]
    BY <1>1, <1>3 DEF StreamSteps
  <2>4. Targets[k] \in Sock
    BY <1>1, WritesType
  <2>5. acc[k][s] = IF w[k] # Throws /\ Targets[k] = s
                    THEN Put(acc[k - 1][s], m, OffAt(w, k), w[k]) ELSE acc[k - 1][s]
    BY <2>2, <2>3, <2>4
  <2>6. CASE k = t
    <3>1. acc[k - 1][s] = st[s]
      BY <2>1, <2>2, <2>6
    <3>2. acc[k][s] = x
      BY <1>4, <2>1, <2>5, <2>6, <3>1
    <3> QED
      BY <1>5, <2>1, <2>6, <3>2
  <2>7. CASE k # t
    <3>1. Targets[k] # s
      BY <1>1, <2>7
    <3>2. acc[k][s] = acc[k - 1][s]
      BY <2>5, <3>1
    <3>3. k - 1 < t <=> k < t
      BY <2>1, <2>7
    <3> QED
      BY <1>5, <2>1, <2>2, <3>2, <3>3
  <2> QED
    BY <2>6, <2>7
<1>7. 0 \in T /\ T \in SUBSET (0 .. n)
  BY <1>1, <1>3, <1>5 DEF StreamSteps
<1>8. T = 0 .. n
  BY <1>6, <1>7, Upwards
<1>9. acc[n][s] = IF n < t THEN st[s] ELSE x
  BY <1>5, <1>8
<1>10. n < t => x = st[s]
  BY <1>4
<1> QED
  BY <1>1, <1>3, <1>4, <1>9, <1>10

\* The values of Flushed.
FlushSteps(s, j, f) ==
  /\ f[0] = stream[s]
  /\ \A k \in 1 .. j : f[k] = Put(f[k - 1], sendq[s][k], off[sendq[s][k]], Size - off[sendq[s][k]])

\* Flushed reads off one function: the stream after each message.
LEMMA FlushedExist ==
  ASSUME NEW s \in Sock, NEW j \in Nat, stream \in [Sock -> Strm], off \in [Msg -> 0 .. Size - 1],
         sendq \in [Sock -> Seq(Msg)], j <= Len(sendq[s])
  PROVE  \E f \in [0 .. j -> Strm] : FlushSteps(s, j, f) /\ Flushed(s, j) = f[j]
<1> DEFINE J(f) == f = [k \in 0 .. j |->
                     IF k = 0 THEN stream[s]
                     ELSE Put(f[k - 1], sendq[s][k], off[sendq[s][k]], Size - off[sendq[s][k]])]
<1>1. Size \in Nat \ {0}
  BY PubQueueAssumption
<1>2. stream[s] \in Strm
  OBVIOUS
<1>3. ASSUME NEW k \in 1 .. j, NEW x \in Strm
      PROVE  Put(x, sendq[s][k], off[sendq[s][k]], Size - off[sendq[s][k]]) \in Strm
  <2>1. sendq[s][k] \in Msg
    <3>1. sendq[s] \in Seq(Msg) /\ k \in 1 .. Len(sendq[s])
      OBVIOUS
    <3> QED
      BY <3>1
  <2>2. PICK o : o = off[sendq[s][k]]
    OBVIOUS
  <2>3. o \in 0 .. Size - 1 /\ Size - o \in 0 .. Size /\ o + (Size - o) <= Size
    BY <1>1, <2>1, <2>2
  <2> QED
    BY <2>1, <2>2, <2>3, PutType
<1>4. PICK F : F = [k \in 1 .. j |-> [x \in Strm |->
                 Put(x, sendq[s][k], off[sendq[s][k]], Size - off[sendq[s][k]])]]
  OBVIOUS
<1>5. F \in [1 .. j -> [Strm -> Strm]]
  BY <1>3, <1>4
<1>6. \E g \in [0 .. j -> Strm] : Iterates(g, stream[s], F, j)
  BY <1>2, <1>5, IterExists, Zenon
<1>7. PICK g \in [0 .. j -> Strm] : Iterates(g, stream[s], F, j)
  BY <1>6
<1>8. \A k \in 1 .. j : g[k] = Put(g[k - 1], sendq[s][k], off[sendq[s][k]], Size - off[sendq[s][k]])
  <2> TAKE k \in 1 .. j
  <2>1. k - 1 \in 0 .. j
    OBVIOUS
  <2>2. g[k - 1] \in Strm
    BY <2>1
  <2>3. F[k][g[k - 1]] = Put(g[k - 1], sendq[s][k], off[sendq[s][k]], Size - off[sendq[s][k]])
    BY <1>4, <2>2
  <2> QED
    BY <1>7, <2>3 DEF Iterates
<1>9. J(g)
  <2>1. g = [k \in 0 .. j |-> g[k]]
    OBVIOUS
  <2>2. \A k \in 0 .. j : k = 0 \/ k \in 1 .. j
    OBVIOUS
  <2> QED
    BY <1>7, <1>8, <2>1, <2>2 DEF Iterates
<1>10. PICK f : f = CHOOSE h : J(h)
  OBVIOUS
<1>11. J(f)
  <2> HIDE DEF J
  <2> QED BY <1>9, <1>10
<1>12. Flushed(s, j) = f[j]
  BY <1>10 DEF Flushed
<1>13. \A k \in 0 .. j : f[k] = IF k = 0 THEN stream[s]
                     ELSE Put(f[k - 1], sendq[s][k], off[sendq[s][k]], Size - off[sendq[s][k]])
  BY <1>11, Zenon
<1>14. f = [k \in 0 .. j |-> f[k]]
  <2>1. PICK body : body = [k \in 0 .. j |->
                     IF k = 0 THEN stream[s]
                     ELSE Put(f[k - 1], sendq[s][k], off[sendq[s][k]], Size - off[sendq[s][k]])]
    OBVIOUS
  <2>2. f = body
    BY <1>11, <2>1
  <2>3. body = [k \in 0 .. j |-> body[k]]
    BY <2>1
  <2> QED
    BY <2>2, <2>3
<1> HIDE DEF J
<1>15. 0 \in 0 .. j /\ \A k \in 1 .. j : k \in 0 .. j /\ k # 0
  OBVIOUS
<1>16. FlushSteps(s, j, f)
  BY <1>13, <1>15 DEF FlushSteps
<1>17. PICK T : T = {k \in 0 .. j : f[k] \in Strm}
  OBVIOUS
<1>18. ASSUME NEW k \in 1 .. j, k - 1 \in T PROVE k \in T
  <2>1. f[k - 1] \in Strm
    BY <1>17, <1>18
  <2>2. f[k] \in Strm
    BY <1>3, <1>16, <2>1 DEF FlushSteps
  <2> QED
    BY <1>15, <1>17, <2>2
<1>19. 0 \in T /\ T \in SUBSET (0 .. j)
  BY <1>2, <1>15, <1>16, <1>17 DEF FlushSteps
<1>20. T = 0 .. j
  BY <1>18, <1>19, Upwards
<1>21. f \in [0 .. j -> Strm]
  <2>1. \A k \in 0 .. j : f[k] \in Strm
    BY <1>17, <1>20
  <2> QED
    BY <1>14, <2>1
<1> QED
  BY <1>12, <1>16, <1>21

\* A flush keeps the types of a stream.
LEMMA FlushedType ==
  ASSUME NEW s \in Sock, NEW j \in Nat, stream \in [Sock -> Strm], off \in [Msg -> 0 .. Size - 1],
         sendq \in [Sock -> Seq(Msg)], j <= Len(sendq[s])
  PROVE  Flushed(s, j) \in Strm
<1>1. \E f \in [0 .. j -> Strm] : FlushSteps(s, j, f) /\ Flushed(s, j) = f[j]
  BY FlushedExist, Zenon
<1>2. j \in 0 .. j
  OBVIOUS
<1> QED
  BY <1>1, <1>2

\* A flush of one message.
LEMMA FlushedOne ==
  ASSUME NEW s \in Sock, stream \in [Sock -> Strm], off \in [Msg -> 0 .. Size - 1],
         sendq \in [Sock -> Seq(Msg)], 1 <= Len(sendq[s])
  PROVE  Flushed(s, 1) = Put(stream[s], sendq[s][1], off[sendq[s][1]], Size - off[sendq[s][1]])
<1>1. 1 \in Nat
  OBVIOUS
<1>2. \E f \in [0 .. 1 -> Strm] : FlushSteps(s, 1, f) /\ Flushed(s, 1) = f[1]
  BY <1>1, FlushedExist, Zenon
<1>3. PICK f : FlushSteps(s, 1, f) /\ Flushed(s, 1) = f[1]
  BY <1>2
<1>4. 1 \in 1 .. 1 /\ 1 - 1 = 0
  OBVIOUS
<1> QED
  BY <1>3, <1>4 DEF FlushSteps

\* Messages that are written whole keep the types of the streams.
LEMMA WholeType ==
  ASSUME ListType, IsInjective(conns), stream \in [Sock -> Strm], queue \in Seq(Msg),
         NEW k \in 1 .. Len(queue) + 1
  PROVE  Whole(k) \in [Sock -> Strm]
<1> SUFFICES ASSUME NEW s \in Sock
             PROVE  [stream[s] EXCEPT !.got = @ \o FlattenSeq([j \in 1 .. k - 1 |->
                      [i \in 1 .. Cardinality({t \in DOMAIN Targets : Targets[t] = s}) |-> queue[j]]])] \in Strm
  BY DEF Whole
<1>1. PICK c : c = Cardinality({t \in DOMAIN Targets : Targets[t] = s})
  OBVIOUS
<1>2. c \in Nat
  <2>1. PICK n \in Nat : DOMAIN Targets = 1 .. n
    BY TargetsPicked DEF Picked
  <2>2. IsFiniteSet(1 .. n)
    BY FS_Interval
  <2>3. {t \in 1 .. n : Targets[t] = s} \subseteq 1 .. n
    OBVIOUS
  <2>4. IsFiniteSet({t \in 1 .. n : Targets[t] = s})
    BY <2>2, <2>3, FS_Subset
  <2> QED
    BY <1>1, <2>1, <2>4, FS_CardinalityType
<1>3. PICK b : b = [j \in 1 .. k - 1 |-> [i \in 1 .. c |-> queue[j]]]
  OBVIOUS
<1>4. k - 1 \in Nat /\ \A j \in 1 .. k - 1 : queue[j] \in Msg
  OBVIOUS
<1>5. \A j \in 1 .. k - 1 : [i \in 1 .. c |-> queue[j]] \in Seq(Msg)
  BY <1>2, <1>4, FunctionSeq
<1>6. b \in Seq(Seq(Msg))
  <2>1. b \in [1 .. k - 1 -> Seq(Msg)]
    BY <1>3, <1>5
  <2> QED
    BY <1>4, <2>1, FunctionSeq
<1>7. FlattenSeq(b) \in Seq(Msg)
  BY <1>6, FlattenType
<1>8. stream[s] \in Strm
  OBVIOUS
<1>9. stream[s].got \o FlattenSeq(b) \in Seq(Msg)
  BY <1>7, <1>8, ConcatType DEF Strm
<1>10. [stream[s] EXCEPT !.got = @ \o FlattenSeq(b)] \in Strm
  BY <1>8, <1>9 DEF Strm
<1> QED
  BY <1>1, <1>3, <1>10

\* A socket that is not a target gets none of them.
LEMMA WholeNone ==
  ASSUME ListType, IsInjective(conns), stream \in [Sock -> Strm], queue \in Seq(Msg),
         NEW k \in 1 .. Len(queue) + 1, NEW s \in Sock,
         \A t \in DOMAIN Targets : Targets[t] # s
  PROVE  Whole(k)[s] = stream[s]
<1>1. {t \in DOMAIN Targets : Targets[t] = s} = {}
  OBVIOUS
<1>2. Cardinality({t \in DOMAIN Targets : Targets[t] = s}) = 0
  BY <1>1, FS_EmptySet
<1>3. PICK n \in Nat : n = k - 1
  OBVIOUS
<1>4. [j \in 1 .. k - 1 |-> [i \in 1 .. 0 |-> queue[j]]] = [j \in 1 .. n |-> <<>>]
  <2>1. \A j : [i \in 1 .. 0 |-> queue[j]] = <<>>
    OBVIOUS
  <2> QED
    BY <1>3, <2>1
<1>5. FlattenSeq([j \in 1 .. k - 1 |-> [i \in 1 .. 0 |-> queue[j]]]) = <<>>
  BY <1>4, FlattenNone
<1>6. Whole(k)[s] = [stream[s] EXCEPT !.got = @ \o <<>>]
  BY <1>2, <1>5 DEF Whole
<1>7. stream[s] \in Strm
  OBVIOUS
<1>8. stream[s].got \o <<>> = stream[s].got
  BY <1>7, ConcatAssoc DEF Strm
<1> QED
  BY <1>6, <1>7, <1>8 DEF Strm

\* A socket that is a target once gets each of them once.
LEMMA WholeOnce ==
  ASSUME ListType, IsInjective(conns), stream \in [Sock -> Strm], queue \in Seq(Msg),
         NEW k \in 1 .. Len(queue) + 1, NEW s \in Sock,
         NEW t \in DOMAIN Targets, \A u \in DOMAIN Targets : Targets[u] = s <=> u = t
  PROVE  /\ Whole(k)[s].at = stream[s].at /\ Whole(k)[s].torn = stream[s].torn
         /\ Whole(k)[s].got \in Seq(Msg) /\ Len(Whole(k)[s].got) = Len(stream[s].got) + (k - 1)
         /\ \A i \in 1 .. Len(stream[s].got) : Whole(k)[s].got[i] = stream[s].got[i]
         /\ \A j \in 1 .. k - 1 : Whole(k)[s].got[Len(stream[s].got) + j] = queue[j]
<1>1. {u \in DOMAIN Targets : Targets[u] = s} = {t}
  OBVIOUS
<1>2. Cardinality({u \in DOMAIN Targets : Targets[u] = s}) = 1
  BY <1>1, FS_Singleton
<1>3. PICK n \in 0 .. Len(queue) : n = k - 1
  OBVIOUS
<1>4. [j \in 1 .. k - 1 |-> [i \in 1 .. 1 |-> queue[j]]] = [j \in 1 .. n |-> <<queue[j]>>]
  <2>1. \A j : [i \in 1 .. 1 |-> queue[j]] = <<queue[j]>>
    OBVIOUS
  <2> QED
    BY <1>3, <2>1
<1>5. PICK r : r = FlattenSeq([j \in 1 .. n |-> <<queue[j]>>])
  OBVIOUS
<1>6. r \in Seq(Msg) /\ Len(r) = n /\ \A i \in 1 .. n : r[i] = queue[i]
  BY <1>5, FlattenSingles
<1>7. Whole(k)[s] = [stream[s] EXCEPT !.got = @ \o r]
  BY <1>2, <1>4, <1>5 DEF Whole
<1>8. stream[s] \in Strm
  OBVIOUS
<1>9. PICK g : g = stream[s].got /\ g \in Seq(Msg)
  BY <1>8 DEF Strm
<1>10. /\ Whole(k)[s].at = stream[s].at /\ Whole(k)[s].torn = stream[s].torn
       /\ Whole(k)[s].got = g \o r
  BY <1>7, <1>8, <1>9 DEF Strm
<1>11. /\ Len(g) \in Nat /\ Len(r) \in Nat /\ DOMAIN g = 1 .. Len(g) /\ DOMAIN r = 1 .. Len(r)
       /\ \A i \in 1 .. Len(g) : (g \o r)[i] = g[i]
       /\ \A i \in 1 .. Len(r) : (g \o r)[Len(g) + i] = r[i]
  BY <1>6, <1>9, ConcatAt
<1>12. g \o r \in Seq(Msg) /\ Len(g \o r) = Len(g) + Len(r)
  BY <1>6, <1>9, ConcatType
<1> QED
  BY <1>3, <1>6, <1>9, <1>10, <1>11, <1>12

\* A socket that a message is for twice at most once.
LEMMA TargetNone ==
  ASSUME ListType, IsInjective(conns), NEW s \in Sock, life[s] # "open" \/ hits[s] = 0
  PROVE  \A t \in DOMAIN Targets : Targets[t] # s
<1>1. Picked(Len(conns), Targets)
  BY TargetsPicked
<1>2. DOMAIN Targets = 1 .. Len(Targets)
  BY <1>1 DEF Picked
<1> QED
  BY <1>1, <1>2 DEF Picked

LEMMA TargetOnce ==
  ASSUME ListType, IsInjective(conns), NEW s \in Sock, life[s] = "open", hits[s] = 1, s \in ToSet(conns)
  PROVE  \E t \in DOMAIN Targets : \A u \in DOMAIN Targets : Targets[u] = s <=> u = t
<1>1. Picked(Len(conns), Targets)
  BY TargetsPicked
<1>2. DOMAIN Targets = 1 .. Len(Targets)
  BY <1>1 DEF Picked
<1>3. PICK i \in 1 .. Len(conns) : conns[i] = s
  BY DEF ToSet, ListType
<1>4. PICK t \in 1 .. Len(Targets) : Targets[t] = s
  BY <1>1, <1>3 DEF Picked
<1>5. \A u \in 1 .. Len(Targets) : Targets[u] = s => u = t
  BY <1>1, <1>4 DEF Picked
<1> QED
  BY <1>2, <1>4, <1>5

-----------------------------------------------------------------------------
(* The frees that are to come                                              *)

\* The calls of `free' that are to come when f[s] of them listen to the close
\* of s.
FreesOf(f) == {p \in Sock \X (Nat \ {0}) : p[2] <= f[p[1]]}

\* A socket more, and frees of it.
LEMMA FreesMore ==
  ASSUME NEW f \in [Sock -> Nat], NEW s \in Sock, IsFiniteSet(FreesOf(f)),
         NEW g, g = [f EXCEPT ![s] = f[s] + 1]
  PROVE  /\ g \in [Sock -> Nat] /\ IsFiniteSet(FreesOf(g))
         /\ Cardinality(FreesOf(f)) \in Nat
         /\ Cardinality(FreesOf(g)) = Cardinality(FreesOf(f)) + 1
<1>1. PICK p : p = <<s, f[s] + 1>>
  OBVIOUS
<1>2. g \in [Sock -> Nat] /\ \A u \in Sock : g[u] = IF u = s THEN f[s] + 1 ELSE f[u]
  OBVIOUS
<1>3. p \notin FreesOf(f) /\ p \in FreesOf(g)
  BY <1>1, <1>2 DEF FreesOf
<1>4. FreesOf(g) = FreesOf(f) \cup {p}
  <2>1. ASSUME NEW u \in Sock, NEW k \in Nat \ {0}
        PROVE  k <= g[u] <=> k <= f[u] \/ (u = s /\ k = f[s] + 1)
    BY <1>2
  <2>2. ASSUME NEW x \in Sock \X (Nat \ {0})
        PROVE  x[2] <= g[x[1]] <=> x[2] <= f[x[1]] \/ x = p
    <3>1. PICK u \in Sock, k \in Nat \ {0} : x = <<u, k>> /\ x[1] = u /\ x[2] = k
      OBVIOUS
    <3> QED
      BY <1>1, <2>1, <3>1
  <2>3. p \in Sock \X (Nat \ {0})
    BY <1>1
  <2> QED
    BY <2>2, <2>3 DEF FreesOf
<1>5. PICK F : F = FreesOf(f)
  OBVIOUS
<1>6. IsFiniteSet(F \cup {p}) /\ Cardinality(F) \in Nat /\ Cardinality(F \cup {p}) = Cardinality(F) + 1
  BY <1>3, <1>5, FS_AddElement, FS_CardinalityType
<1> QED
  BY <1>2, <1>4, <1>5, <1>6

\* No socket has frees: there are none.
LEMMA FreesNone ==
  ASSUME NEW f \in [Sock -> Nat], IsFiniteSet(FreesOf(f)), Cardinality(FreesOf(f)) = 0
  PROVE  \A s \in Sock : f[s] = 0
<1>1. FreesOf(f) = {}
  BY FS_EmptySet
<1>2. ASSUME NEW s \in Sock, f[s] # 0 PROVE FALSE
  <2>1. <<s, f[s]>> \in FreesOf(f)
    BY <1>2 DEF FreesOf
  <2> QED
    BY <1>1, <2>1
<1> QED
  BY <1>2

\* f counts the places of D by what t has there.
Counts(f, D, t) == f = [s \in Sock |-> Cardinality({i \in D : t[i] = s})]

\* There are as many frees as places that are counted.
LEMMA FreesCounted ==
  ASSUME NEW n \in Nat, NEW t \in [1 .. n -> Sock], NEW D \in SUBSET (1 .. n),
         NEW f, Counts(f, D, t)
  PROVE  /\ f \in [Sock -> Nat] /\ IsFiniteSet(FreesOf(f)) /\ IsFiniteSet(D)
         /\ Cardinality(FreesOf(f)) = Cardinality(D)
<1> DEFINE E(k) == {i \in D : i <= k}
           h(k) == [s \in Sock |-> Cardinality({i \in E(k) : t[i] = s})]
           Good(k) == /\ h(k) \in [Sock -> Nat] /\ IsFiniteSet(FreesOf(h(k)))
                      /\ Cardinality(FreesOf(h(k))) = Cardinality(E(k))
<1>1. \A U \in SUBSET (1 .. n) : IsFiniteSet(U) /\ Cardinality(U) \in Nat
  <2>1. IsFiniteSet(1 .. n)
    BY FS_Interval
  <2>2. ASSUME NEW U \in SUBSET (1 .. n) PROVE IsFiniteSet(U)
    BY <2>1, FS_Subset
  <2> QED
    BY <2>2, FS_CardinalityType
<1>0. /\ E(0) = {} /\ E(n) = D
      /\ \A k \in 1 .. n : /\ E(k) = (IF k \in D THEN E(k - 1) \cup {k} ELSE E(k - 1))
                           /\ k \notin E(k - 1) /\ E(k - 1) \in SUBSET (1 .. n)
  <2>1. \A i \in D : i \in Int /\ i >= 1 /\ i <= n
    OBVIOUS
  <2>2. E(0) = {} /\ E(n) = D
    <3>1. \A i \in D : ~(i <= 0) /\ i <= n
      BY <2>1
    <3> QED
      BY <3>1
  <2>3. ASSUME NEW k \in 1 .. n
        PROVE  /\ E(k) = (IF k \in D THEN E(k - 1) \cup {k} ELSE E(k - 1))
               /\ k \notin E(k - 1) /\ E(k - 1) \in SUBSET (1 .. n)
    <3>1. \A i \in D : i <= k <=> i <= k - 1 \/ i = k
      BY <2>1
    <3>2. k \notin E(k - 1) /\ E(k - 1) \in SUBSET (1 .. n)
      <4>1. ~(k <= k - 1) /\ \A i \in D : i \in 1 .. n
        OBVIOUS
      <4> QED
        BY <4>1
    <3> QED
      BY <3>1, <3>2
  <2> QED
    BY <2>2, <2>3
<1> HIDE DEF E
<1>2. PICK T : T = {k \in 0 .. n : Good(k)}
  OBVIOUS
<1>3. Good(0)
  <2>1. E(0) = {} /\ \A s : {i \in E(0) : t[i] = s} = {}
    BY <1>0
  <2>2. h(0) = [s \in Sock |-> 0]
    BY <2>1, FS_EmptySet
  <2>3. PICK z : z = h(0) /\ z \in [Sock -> Nat] /\ \A s \in Sock : z[s] = 0
    BY <2>2
  <2>4. FreesOf(z) = {}
    BY <2>3 DEF FreesOf
  <2> QED
    BY <2>1, <2>3, <2>4, FS_EmptySet
<1>4. ASSUME NEW k \in 1 .. n, k - 1 \in T PROVE k \in T
  <2>1. Good(k - 1) /\ k \in 0 .. n
    BY <1>2, <1>4
  <2>2. PICK a, b : a = h(k - 1) /\ b = h(k)
    OBVIOUS
  <2>3. CASE k \notin D
    <3>1. E(k) = E(k - 1)
      BY <1>0, <2>3
    <3> QED
      BY <1>2, <2>1, <3>1
  <2>4. CASE k \in D
    <3>1. PICK s \in Sock : s = t[k]
      OBVIOUS
    <3>2. /\ E(k) = E(k - 1) \cup {k} /\ k \notin E(k - 1)
          /\ E(k - 1) \in SUBSET (1 .. n)
      BY <1>0, <2>4
    <3>3. Cardinality(E(k)) = Cardinality(E(k - 1)) + 1
      BY <1>1, <3>2, FS_AddElement
    <3>4. ASSUME NEW u \in Sock PROVE b[u] = IF u = s THEN a[s] + 1 ELSE a[u]
      <4>1. a[u] = Cardinality({i \in E(k - 1) : t[i] = u}) /\ b[u] = Cardinality({i \in E(k) : t[i] = u})
        BY <2>2
      <4>2. CASE u = s
        <5>1. {i \in E(k) : t[i] = u} = {i \in E(k - 1) : t[i] = u} \cup {k}
          BY <3>1, <3>2, <4>2
        <5>2. PICK U : U = {i \in E(k - 1) : t[i] = u}
          OBVIOUS
        <5>3. IsFiniteSet(U) /\ k \notin U
          BY <1>1, <3>2, <5>2
        <5>4. Cardinality(U \cup {k}) = Cardinality(U) + 1
          BY <5>3, FS_AddElement
        <5> QED
          BY <4>1, <4>2, <5>1, <5>2, <5>4
      <4>3. CASE u # s
        <5>1. {i \in E(k) : t[i] = u} = {i \in E(k - 1) : t[i] = u}
          BY <3>1, <3>2, <4>3
        <5> QED
          BY <4>1, <4>3, <5>1
      <4> QED
        BY <4>2, <4>3
    <3>5. a \in [Sock -> Nat] /\ IsFiniteSet(FreesOf(a)) /\ Cardinality(FreesOf(a)) = Cardinality(E(k - 1))
      BY <2>1, <2>2
    <3>6. DOMAIN b = Sock /\ b = [u \in Sock |-> b[u]]
      BY <2>2
    <3>7. b = [a EXCEPT ![s] = a[s] + 1]
      BY <3>4, <3>5, <3>6
    <3>8. /\ b \in [Sock -> Nat] /\ IsFiniteSet(FreesOf(b))
          /\ Cardinality(FreesOf(b)) = Cardinality(FreesOf(a)) + 1
      BY <3>5, <3>7, FreesMore
    <3>9. Good(k)
      BY <2>2, <3>3, <3>5, <3>8
    <3> QED
      BY <1>2, <2>1, <3>9
  <2> QED
    BY <2>3, <2>4
<1>5. T = 0 .. n
  <2> HIDE DEF Good
  <2>1. 0 \in T /\ T \in SUBSET (0 .. n)
    BY <1>2, <1>3
  <2> QED
    BY <1>4, <2>1, Upwards
<1>6. Good(n)
  <2> HIDE DEF Good
  <2> QED
    BY <1>2, <1>5
<1>7. h(n) = f
  BY <1>0 DEF Counts
<1> QED
  BY <1>1, <1>6, <1>7, <1>0

\* A close calls every free that listens to it.
LEMMA FreesClosed ==
  ASSUME NEW f \in [Sock -> Nat], NEW s \in Sock, IsFiniteSet(FreesOf(f)), NEW c \in 0 .. f[s],
         NEW g, g = [f EXCEPT ![s] = f[s] - c]
  PROVE  /\ IsFiniteSet(FreesOf(g)) /\ Cardinality(FreesOf(f)) \in Nat
         /\ Cardinality(FreesOf(g)) = Cardinality(FreesOf(f)) - c
         /\ c <= Cardinality(FreesOf(f))
<1> DEFINE h(k) == [f EXCEPT ![s] = f[s] - k]
           Good(k) == /\ IsFiniteSet(FreesOf(h(k))) /\ Cardinality(FreesOf(h(k))) \in Nat
                      /\ Cardinality(FreesOf(f)) = Cardinality(FreesOf(h(k))) + k
<1>1. PICK T : T = {k \in 0 .. c : Good(k)}
  OBVIOUS
<1>2. Good(0)
  <2>1. PICK z : z = h(0)
    OBVIOUS
  <2>2. z = f
    BY <2>1
  <2>3. Cardinality(FreesOf(f)) \in Nat
    BY FS_CardinalityType
  <2>4. IsFiniteSet(FreesOf(z)) /\ Cardinality(FreesOf(z)) \in Nat /\ Cardinality(FreesOf(f)) = Cardinality(FreesOf(z)) + 0
    BY <2>2, <2>3
  <2> QED
    BY <2>1, <2>4
<1>3. ASSUME NEW k \in 1 .. c, k - 1 \in T PROVE k \in T
  <2>1. Good(k - 1) /\ k \in 0 .. c
    BY <1>1, <1>3
  <2>2. PICK a, b : a = h(k - 1) /\ b = h(k)
    OBVIOUS
  <2>3. b \in [Sock -> Nat] /\ a = [b EXCEPT ![s] = b[s] + 1]
    BY <2>2
  <2>4. FreesOf(b) \subseteq FreesOf(a)
    <3>1. \A u \in Sock : \A i \in Nat : i <= b[u] => i <= a[u]
      BY <2>3
    <3> QED
      BY <3>1 DEF FreesOf
  <2>5. IsFiniteSet(FreesOf(b))
    BY <2>1, <2>2, <2>4, FS_Subset
  <2>6. Cardinality(FreesOf(b)) \in Nat /\ Cardinality(FreesOf(a)) = Cardinality(FreesOf(b)) + 1
    BY <2>3, <2>5, FreesMore
  <2>7. Good(k)
    BY <2>1, <2>2, <2>5, <2>6
  <2> QED
    BY <1>1, <2>1, <2>7
<1> HIDE DEF Good
<1>4. 0 \in T /\ T \in SUBSET (0 .. c) /\ c \in Nat
  BY <1>1, <1>2
<1>5. T = 0 .. c
  BY <1>3, <1>4, Upwards
<1>6. Good(c)
  BY <1>1, <1>4, <1>5
<1>7. IsFiniteSet(FreesOf(g)) /\ Cardinality(FreesOf(g)) \in Nat /\ Cardinality(FreesOf(f)) = Cardinality(FreesOf(g)) + c
  BY <1>6 DEF Good
<1> QED
  BY <1>4, <1>7

-----------------------------------------------------------------------------
(* TypeOK                                                                  *)

\* The handle counts the frees that are to come, and a socket whose ondrain is
\* one of them has its close listen too.  The job waits for a handle only while
\* it runs.
Waits ==
  /\ IsFiniteSet(FreesOf(onclose)) /\ count = Cardinality(FreesOf(onclose))
  /\ \A s \in Sock : ondrain[s] => onclose[s] > 0
  /\ count > 0 => running

\* The channel lists the sockets that connected and did not close.
Lists ==
  /\ hits \in [Sock -> Nat]
  /\ \A s \in Sock : s \in ToSet(conns) <=> life[s] \in {"open", "closing"}

TypeInv == TypeOK /\ Waits /\ Lists

\* The types by themselves.
LEMMA TypeParts ==
  ASSUME TypeInv
  PROVE  /\ ListType /\ IsInjective(conns) /\ stream \in [Sock -> Strm] /\ off \in [Msg -> 0 .. Size - 1]
         /\ sendq \in [Sock -> Seq(Msg)] /\ queue \in Seq(Msg) /\ accepted \in Seq(Msg)
         /\ onclose \in [Sock -> Nat] /\ IsFiniteSet(FreesOf(onclose)) /\ count = Cardinality(FreesOf(onclose))
         /\ count \in Nat /\ MaxMsg \in Nat /\ Size \in Nat \ {0} /\ cut \subseteq Msg
BY PubQueueAssumption DEF TypeInv, TypeOK, Waits, Lists, ListType, Strm

\* The invariant of the types holds at first, and is kept by each action.
LEMMA TypeStart ==
  ASSUME Init
  PROVE  TypeInv
<1>1. TypeOK
  <2>1. <<>> \in Seq(Sock) /\ IsInjective(<<>>) /\ <<>> \in Seq(Msg)
    BY DEF IsInjective
  <2>2. off \in [Msg -> 0 .. Size - 1]
    BY PubQueueAssumption DEF Init
  <2>3. \A s \in Sock : hits[s] \in 0 .. MaxHits[s]
    BY PubQueueAssumption DEF Init
  <2>4. stream \in [Sock -> Strm]
    BY DEF Init, Strm
  <2>5. /\ ondrain \in [Sock -> BOOLEAN] /\ onclose \in [Sock -> Nat] /\ sendq \in [Sock -> Seq(Msg)]
        /\ life \in [Sock -> {"new", "open", "closing", "closed"}]
    BY <2>1 DEF Init
  <2>6. /\ conns = <<>> /\ queue = <<>> /\ running = FALSE /\ count = 0 /\ accepted = <<>> /\ cut = {}
        /\ ticks = 0
    BY DEF Init
  <2> QED
    BY <2>1, <2>2, <2>3, <2>4, <2>5, <2>6 DEF TypeOK, Strm
<1>2. Waits
  <2>1. onclose \in [Sock -> Nat] /\ \A s \in Sock : onclose[s] = 0
    BY DEF Init
  <2>2. FreesOf(onclose) = {}
    BY <2>1 DEF FreesOf
  <2>3. IsFiniteSet(FreesOf(onclose)) /\ Cardinality(FreesOf(onclose)) = 0
    BY <2>2, FS_EmptySet
  <2>4. count = 0 /\ \A s \in Sock : ondrain[s] = FALSE
    BY DEF Init
  <2> QED
    BY <2>3, <2>4 DEF Waits
<1>3. Lists
  <2>1. ToSet(<<>>) = {}
    BY DEF ToSet
  <2> QED
    BY <2>1 DEF Init, Lists
<1> QED
  BY <1>1, <1>2, <1>3 DEF TypeInv

LEMMA AttachType ==
  ASSUME TypeInv, NEW s \in Sock, Attach(s)
  PROVE  TypeInv'
<1>1. /\ life[s] = "new" /\ life' = [life EXCEPT ![s] = "open"] /\ conns' = Append(conns, s)
      /\ UNCHANGED <<queue, running, ticks, count, sendq, ondrain, onclose, off, accepted, stream, cut>>
  BY DEF Attach, handle
<1>2. PICK h \in 0 .. MaxHits[s] : hits' = [hits EXCEPT ![s] = h]
  BY DEF Attach
<1>3. TypeOK /\ Lists /\ Waits
  BY DEF TypeInv
<1>4. conns \in Seq(Sock) /\ IsInjective(conns) /\ life \in [Sock -> {"new", "open", "closing", "closed"}]
  BY <1>3 DEF TypeOK
<1>5. s \notin ToSet(conns)
  BY <1>1, <1>3 DEF Lists
<1>6. conns' \in Seq(Sock) /\ IsInjective(conns') /\ ToSet(conns') = ToSet(conns) \cup {s}
  BY <1>1, <1>4, <1>5, AppendOnce
<1>7. hits' \in [Sock -> Nat] /\ \A u \in Sock : hits'[u] \in 0 .. MaxHits[u]
  <2>1. hits \in [Sock -> Nat] /\ \A u \in Sock : hits[u] \in 0 .. MaxHits[u]
    BY <1>3 DEF TypeOK, Lists
  <2>2. MaxHits[s] \in Nat
    BY PubQueueAssumption
  <2> QED
    BY <1>2, <2>1, <2>2
<1>8. life' \in [Sock -> {"new", "open", "closing", "closed"}]
  BY <1>1, <1>4
<1>9. TypeOK'
  BY <1>1, <1>3, <1>6, <1>7, <1>8 DEF TypeOK
<1>10. Waits'
  BY <1>1, <1>3 DEF Waits, FreesOf
<1>11. Lists'
  <2>1. \A u \in Sock : u \in ToSet(conns') <=> life'[u] \in {"open", "closing"}
    BY <1>1, <1>3, <1>4, <1>6 DEF Lists
  <2> QED
    BY <1>7, <2>1 DEF Lists
<1> QED
  BY <1>9, <1>10, <1>11 DEF TypeInv

LEMMA SendMsgType ==
  ASSUME TypeInv, NEW m \in Msg, SendMsg(m)
  PROVE  TypeInv'
<1>1. /\ queue' = Append(queue, m) /\ accepted' = Append(accepted, m) /\ running' = TRUE
      /\ ticks' = IF running THEN ticks ELSE ticks + 1
      /\ UNCHANGED <<conns, count, life, hits, sendq, ondrain, onclose, off, stream, cut>>
  BY DEF SendMsg, StartSendQueueJob, handle
<1>2. TypeOK /\ Lists /\ Waits
  BY DEF TypeInv
<1>3. queue' \in Seq(Msg) /\ accepted' \in Seq(Msg)
  <2>1. queue \in Seq(Msg) /\ accepted \in Seq(Msg)
    BY <1>2 DEF TypeOK
  <2> QED
    BY <1>1, <2>1, AppendAt
<1>4. ticks' = IF running' /\ count' = 0 THEN 1 ELSE 0
  <2>1. ticks = (IF running /\ count = 0 THEN 1 ELSE 0) /\ (count > 0 => running) /\ count \in Nat
    BY <1>2 DEF TypeOK, Waits
  <2>2. CASE running
    BY <1>1, <2>1, <2>2
  <2>3. CASE ~running
    BY <1>1, <2>1, <2>3
  <2> QED
    BY <2>2, <2>3
<1>5. TypeOK'
  BY <1>1, <1>2, <1>3, <1>4 DEF TypeOK
<1>6. Waits'
  BY <1>1, <1>2 DEF Waits, FreesOf
<1>7. Lists'
  BY <1>1, <1>2 DEF Lists
<1> QED
  BY <1>5, <1>6, <1>7 DEF TypeInv

LEMMA DestroyType ==
  ASSUME TypeInv, NEW s \in Sock, Destroy(s)
  PROVE  TypeInv'
<1>1. /\ life[s] = "open" /\ life' = [life EXCEPT ![s] = "closing"]
      /\ UNCHANGED <<conns, queue, running, ticks, count, hits, sendq, ondrain, onclose, off, accepted, stream, cut>>
  BY DEF Destroy, channel, handle
<1>2. TypeOK /\ Lists /\ Waits
  BY DEF TypeInv
<1>3. life \in [Sock -> {"new", "open", "closing", "closed"}]
  BY <1>2 DEF TypeOK
<1>4. TypeOK'
  <2>1. life' \in [Sock -> {"new", "open", "closing", "closed"}]
    BY <1>1, <1>3
  <2> QED
    BY <1>1, <1>2, <2>1 DEF TypeOK
<1>5. Waits'
  BY <1>1, <1>2 DEF Waits, FreesOf
<1>6. Lists'
  <2>1. \A u \in Sock : life'[u] \in {"open", "closing"} <=> life[u] \in {"open", "closing"}
    BY <1>1, <1>3
  <2> QED
    BY <1>1, <1>2, <2>1 DEF Lists
<1> QED
  BY <1>4, <1>5, <1>6 DEF TypeInv

LEMMA OnWritablePartType ==
  ASSUME TypeInv, NEW s \in Sock, NEW n, OnWritablePart(s, n)
  PROVE  TypeInv'
<1>1. PICK m : m = Head(sendq[s])
  OBVIOUS
<1>2. /\ sendq[s] # <<>> /\ n \in 1 .. Size - off[m] - 1 /\ off' = [off EXCEPT ![m] = @ + n]
      /\ stream' = [stream EXCEPT ![s] = Put(@, m, off[m], n)]
      /\ UNCHANGED <<conns, queue, running, ticks, count, life, hits, sendq, ondrain, onclose, accepted, cut>>
  BY <1>1 DEF OnWritablePart, channel, handle
<1>3. TypeOK /\ Lists /\ Waits
  BY DEF TypeInv
<1>4. m \in Msg /\ off[m] \in 0 .. Size - 1 /\ Size \in Nat \ {0}
  <2>1. sendq[s] \in Seq(Msg)
    BY TypeParts
  <2> QED
    BY <1>1, <1>2, <2>1, TypeParts
<1>5. n \in 0 .. Size /\ off[m] + n \in 0 .. Size - 1 /\ off[m] + n <= Size
  BY <1>2, <1>4
<1>6. off' \in [Msg -> 0 .. Size - 1]
  BY <1>2, <1>4, <1>5, TypeParts
<1>7. stream' \in [Sock -> Strm]
  <2>1. stream[s] \in Strm
    BY TypeParts
  <2>2. Put(stream[s], m, off[m], n) \in Strm
    BY <1>4, <1>5, <2>1, PutType
  <2> QED
    BY <1>2, <2>2, TypeParts
<1>8. TypeOK'
  BY <1>2, <1>3, <1>6, <1>7 DEF TypeOK, Strm
<1>9. Waits'
  BY <1>2, <1>3 DEF Waits, FreesOf
<1>10. Lists'
  BY <1>2, <1>3 DEF Lists
<1> QED
  BY <1>8, <1>9, <1>10 DEF TypeInv

LEMMA RunToEndType ==
  ASSUME TypeInv, RunToEnd
  PROVE  TypeInv'
<1>1. /\ ticks > 0 /\ ticks' = ticks - 1 /\ queue' = <<>> /\ running' = FALSE
      /\ stream' = Whole(Len(queue) + 1)
      /\ UNCHANGED <<conns, count, life, hits, sendq, ondrain, onclose, off, accepted, cut>>
  BY DEF RunToEnd, handle
<1>2. TypeOK /\ Lists /\ Waits
  BY DEF TypeInv
<1>3. ticks = 1 /\ count = 0
  BY <1>1, <1>2 DEF TypeOK
<1>4. stream' \in [Sock -> Strm]
  <2>1. Len(queue) + 1 \in 1 .. Len(queue) + 1
    BY TypeParts
  <2>2. Whole(Len(queue) + 1) \in [Sock -> Strm]
    BY <2>1, TypeParts, WholeType
  <2> QED
    BY <1>1, <2>2
<1>5. TypeOK'
  <2>1. <<>> \in Seq(Msg) /\ FALSE \in BOOLEAN
    OBVIOUS
  <2>2. ticks' = (IF running' /\ count' = 0 THEN 1 ELSE 0)
    BY <1>1, <1>3
  <2>3. queue' \in Seq(Msg) /\ running' \in BOOLEAN
    BY <1>1, <2>1
  <2> QED
    BY <1>1, <1>2, <1>4, <2>2, <2>3 DEF TypeOK, Strm
<1>6. Waits'
  BY <1>1, <1>2, <1>3 DEF Waits, FreesOf
<1>7. Lists'
  BY <1>1, <1>2 DEF Lists
<1> QED
  BY <1>5, <1>6, <1>7 DEF TypeInv

\* How many of the writes to s were not complete, and how many of them are kept.
LEMMA WaitingType ==
  ASSUME ListType, IsInjective(conns), NEW w \in Writes, NEW s \in Sock
  PROVE  /\ Waiting(w, s) \in Nat /\ Keeping(w, s) \in Nat
         /\ Waiting(w, s) > 0 => \E i \in 1 .. Len(w) : Targets[i] = s
         /\ Keeping(w, s) > 0 => \E i \in 1 .. Len(w) : Targets[i] = s
<1>1. DOMAIN w = 1 .. Len(w) /\ Len(w) \in Nat
  BY WritesType
<1>2. PICK W : W = {i \in DOMAIN w : Targets[i] = s /\ ~Written(w, i)}
  OBVIOUS
<1>3. PICK K : K = {i \in DOMAIN w : Targets[i] = s /\ ~Written(w, i) /\ w[i] # Throws}
  OBVIOUS
<1>4. W \in SUBSET (1 .. Len(w)) /\ K \in SUBSET (1 .. Len(w))
  BY <1>1, <1>2, <1>3
<1>5. IsFiniteSet(1 .. Len(w))
  BY <1>1, FS_Interval
<1>6. IsFiniteSet(W) /\ IsFiniteSet(K)
  BY <1>4, <1>5, FS_Subset
<1>7. /\ Cardinality(W) \in Nat /\ Cardinality(K) \in Nat
      /\ Cardinality(W) = 0 <=> W = {}
      /\ Cardinality(K) = 0 <=> K = {}
  BY <1>6, FS_CardinalityType, FS_EmptySet
<1>8. (W # {} => \E i \in 1 .. Len(w) : Targets[i] = s) /\ (K # {} => \E i \in 1 .. Len(w) : Targets[i] = s)
  BY <1>1, <1>2, <1>3
<1>9. Waiting(w, s) = Cardinality(W) /\ Keeping(w, s) = Cardinality(K)
  BY <1>2, <1>3 DEF Waiting, Keeping
<1> QED
  BY <1>7, <1>8, <1>9

\* A cut message makes the job wait for as many frees as writes were cut.
LEMMA PushedWaits ==
  ASSUME TypeInv, count = 0, NEW w \in Writes, Pushed(w), running,
         UNCHANGED running
  PROVE  /\ Waits' /\ onclose' \in [Sock -> Nat] /\ ondrain' \in [Sock -> BOOLEAN] /\ count' \in Nat
         /\ (\E i \in DOMAIN w : ~Written(w, i)) => count' > 0
<1>1. PICK n \in Nat : n = Len(w) /\ DOMAIN w = 1 .. n
  BY TypeParts, WritesType
<1>2. PICK D : D = {i \in 1 .. n : ~Written(w, i)}
  OBVIOUS
<1>3. \A s \in Sock : onclose[s] = 0
  BY TypeParts, FreesNone
<1>4. \A s \in Sock : Waiting(w, s) \in Nat
  BY TypeParts, WaitingType
<1>5. PICK t : t = Targets
  OBVIOUS
<1>6. t \in [1 .. n -> Sock]
  <2>1. Targets \in Seq(Sock) /\ DOMAIN Targets = 1 .. n
    BY <1>1, TypeParts, TargetsPicked, WritesType DEF Picked
  <2> QED
    BY <1>5, <2>1
<1>7. onclose' = [s \in Sock |-> Cardinality({i \in D : t[i] = s})]
  <2>1. \A s \in Sock : {i \in D : t[i] = s} = {i \in DOMAIN w : Targets[i] = s /\ ~Written(w, i)}
    BY <1>1, <1>2, <1>5
  <2>2. ASSUME NEW s \in Sock PROVE onclose[s] + Waiting(w, s) = Cardinality({i \in D : t[i] = s})
    <3>1. Waiting(w, s) = Cardinality({i \in D : t[i] = s})
      BY <2>1 DEF Waiting
    <3> QED
      BY <1>3, <1>4, <3>1
  <2>3. onclose' = [s \in Sock |-> onclose[s] + Waiting(w, s)]
    BY DEF Pushed
  <2> QED
    BY <2>2, <2>3
<1>8. D \in SUBSET (1 .. n)
  BY <1>2
<1>9. /\ onclose' \in [Sock -> Nat] /\ IsFiniteSet(FreesOf(onclose')) /\ IsFiniteSet(D)
      /\ Cardinality(FreesOf(onclose')) = Cardinality(D)
  <2>1. PICK f : f = onclose'
    OBVIOUS
  <2>2. Counts(f, D, t)
    BY <1>7, <2>1 DEF Counts
  <2>3. /\ f \in [Sock -> Nat] /\ IsFiniteSet(FreesOf(f)) /\ IsFiniteSet(D)
        /\ Cardinality(FreesOf(f)) = Cardinality(D)
    BY <1>6, <1>8, <2>2, FreesCounted
  <2> QED
    BY <2>1, <2>3
<1>10. Cardinality(D) \in Nat /\ (D # {} => Cardinality(D) > 0)
  BY <1>9, FS_CardinalityType, FS_EmptySet
<1>11. count' = Cardinality(D)
  <2>1. D = {i \in DOMAIN w : ~Written(w, i)}
    BY <1>1, <1>2
  <2>2. count' = count + Cardinality({i \in DOMAIN w : ~Written(w, i)})
    BY DEF Pushed
  <2> QED
    BY <1>10, <2>1, <2>2
<1>12. ondrain' \in [Sock -> BOOLEAN]
  <2>1. ondrain' = [s \in Sock |-> ondrain[s] \/ Waiting(w, s) > 0]
    BY DEF Pushed
  <2>2. ondrain \in [Sock -> BOOLEAN]
    BY DEF TypeInv, TypeOK
  <2> QED
    BY <2>1, <2>2, Zenon
<1>13. ASSUME NEW s \in Sock, ondrain'[s] PROVE onclose'[s] > 0
  <2>1. ondrain'[s] = (ondrain[s] \/ Waiting(w, s) > 0) /\ onclose'[s] = onclose[s] + Waiting(w, s)
    BY DEF Pushed
  <2>2. ~ondrain[s]
    BY <1>3 DEF TypeInv, Waits
  <2>3. Waiting(w, s) > 0
    BY <1>13, <2>1, <2>2, Zenon
  <2> QED
    BY <1>3, <1>4, <2>1, <2>3
<1>14. FreesOf(onclose') = FreesOf(onclose)'
  BY DEF FreesOf
<1>15. Waits'
  BY <1>9, <1>11, <1>13, <1>14 DEF Waits
<1> QED
  BY <1>1, <1>2, <1>9, <1>10, <1>11, <1>12, <1>15

LEMMA RunUntilCutType ==
  ASSUME TypeInv, NEW k \in DOMAIN queue, NEW w \in Writes, RunUntilCut(k, w)
  PROVE  TypeInv'
<1>1. /\ ticks > 0 /\ (\E i \in DOMAIN w : ~Written(w, i)) /\ ticks' = ticks - 1
      /\ queue' = SubSeq(queue, k + 1, Len(queue)) /\ Pushed(w)
      /\ life' = [s \in Sock |-> IF s \in Failed(w) THEN "closing" ELSE life[s]]
      /\ sendq' = [s \in Sock |-> [i \in 1 .. Keeping(w, s) |-> queue[k]] \o sendq[s]]
      /\ off' = [off EXCEPT ![queue[k]] = OffAt(w, Len(w) + 1)]
      /\ stream' = Streams(Whole(k), queue[k], w)
      /\ cut' = IF Len(Targets) > 1 THEN cut \cup {queue[k]} ELSE cut
      /\ UNCHANGED <<conns, running, hits, accepted>>
  BY DEF RunUntilCut
<1>2. TypeOK /\ Lists /\ Waits
  BY DEF TypeInv
<1>3. ticks = 1 /\ count = 0 /\ running
  BY <1>1, <1>2 DEF TypeOK
<1>4. Waits' /\ onclose' \in [Sock -> Nat] /\ ondrain' \in [Sock -> BOOLEAN] /\ count' \in Nat /\ count' > 0
  BY <1>1, <1>3, PushedWaits
<1>5. k \in 1 .. Len(queue) /\ queue[k] \in Msg
  BY TypeParts
<1>6. queue' \in Seq(Msg)
  <2>1. k \in 0 .. Len(queue)
    BY <1>5
  <2>2. SubSeq(queue, k + 1, Len(queue)) \in Seq(Msg)
    BY <2>1, TypeParts, SplitJoin
  <2> QED
    BY <1>1, <2>2
<1>7. \A s \in Failed(w) : s \in Sock /\ life[s] = "open"
  <2>1. Picked(Len(conns), Targets) /\ DOMAIN w = 1 .. Len(w) /\ Len(w) = Len(Targets)
    BY TypeParts, TargetsPicked, WritesType
  <2>2. \A i \in 1 .. Len(w) : Targets[i] \in Sock
    BY TypeParts, WritesType
  <2> QED
    BY <2>1, <2>2 DEF Failed, Picked
<1>8. life' \in [Sock -> {"new", "open", "closing", "closed"}]
  BY <1>1, <1>2 DEF TypeOK
<1>9. sendq' \in [Sock -> Seq(Msg)]
  <2>1. ASSUME NEW s \in Sock
        PROVE  [i \in 1 .. Keeping(w, s) |-> queue[k]] \o sendq[s] \in Seq(Msg)
    <3>1. Keeping(w, s) \in Nat
      BY TypeParts, WaitingType
    <3>2. [i \in 1 .. Keeping(w, s) |-> queue[k]] \in Seq(Msg)
      BY <1>5, <3>1, FunctionSeq
    <3>3. sendq[s] \in Seq(Msg)
      BY TypeParts
    <3> QED
      BY <3>2, <3>3, ConcatType
  <2> QED
    BY <1>1, <2>1
<1>10. off' \in [Msg -> 0 .. Size - 1]
  <2>1. Len(w) + 1 \in 1 .. Len(w) + 1
    BY TypeParts, WritesType
  <2>2. OffAt(w, Len(w) + 1) \in 0 .. Size - 1
    BY <2>1, TypeParts, OffRange
  <2> QED
    BY <1>1, <1>5, <2>2, TypeParts
<1>11. stream' \in [Sock -> Strm]
  <2>1. k \in 1 .. Len(queue) + 1
    BY <1>5
  <2>2. Whole(k) \in [Sock -> Strm]
    BY <2>1, TypeParts, WholeType
  <2>3. Streams(Whole(k), queue[k], w) \in [Sock -> Strm]
    BY <1>5, <2>2, TypeParts, StreamsType
  <2> QED
    BY <1>1, <2>3
<1>12. cut' \subseteq Msg
  BY <1>1, <1>5, TypeParts
<1>13. ticks' = (IF running' /\ count' = 0 THEN 1 ELSE 0)
  BY <1>1, <1>3, <1>4
<1>14. TypeOK'
  <2>1. /\ conns' \in Seq(Sock) /\ IsInjective(conns') /\ running' \in BOOLEAN
        /\ (\A s \in Sock : hits'[s] \in 0 .. MaxHits[s]) /\ accepted' \in Seq(Msg)
    BY <1>1, <1>2 DEF TypeOK
  <2> QED
    BY <1>4, <1>6, <1>8, <1>9, <1>10, <1>11, <1>12, <1>13, <2>1 DEF TypeOK, Strm
<1>15. Lists'
  <2>1. \A s \in Sock : life'[s] \in {"open", "closing"} <=> life[s] \in {"open", "closing"}
    BY <1>1, <1>7
  <2> QED
    BY <1>1, <1>2, <2>1 DEF Lists
<1> QED
  BY <1>4, <1>14, <1>15 DEF TypeInv

\* What a free does to the handle, and to the job.
LEMMA FreeWaits ==
  ASSUME TypeInv, NEW s \in Sock, NEW n \in 0 .. onclose[s], Free(n),
         onclose' = [onclose EXCEPT ![s] = onclose[s] - n],
         ondrain' \in [Sock -> BOOLEAN], \A u \in Sock : ondrain'[u] => onclose'[u] > 0,
         UNCHANGED running
  PROVE  /\ Waits' /\ onclose' \in [Sock -> Nat] /\ count' \in Nat
         /\ ticks' = (IF running' /\ count' = 0 THEN 1 ELSE 0)
<1>1. PICK a : a = onclose /\ a \in [Sock -> Nat] /\ IsFiniteSet(FreesOf(a)) /\ count = Cardinality(FreesOf(a))
  BY TypeParts
<1>2. n \in 0 .. a[s] /\ onclose' = [a EXCEPT ![s] = a[s] - n]
  BY <1>1
<1>3. /\ IsFiniteSet(FreesOf(onclose')) /\ Cardinality(FreesOf(a)) \in Nat
      /\ Cardinality(FreesOf(onclose')) = Cardinality(FreesOf(a)) - n
      /\ n <= Cardinality(FreesOf(a))
  <2>1. PICK g : g = onclose'
    OBVIOUS
  <2>2. g = [a EXCEPT ![s] = a[s] - n]
    BY <1>2, <2>1
  <2>3. /\ IsFiniteSet(FreesOf(g)) /\ Cardinality(FreesOf(a)) \in Nat
        /\ Cardinality(FreesOf(g)) = Cardinality(FreesOf(a)) - n
        /\ n <= Cardinality(FreesOf(a))
    <3>1. a \in [Sock -> Nat] /\ IsFiniteSet(FreesOf(a)) /\ n \in 0 .. a[s]
      BY <1>1, <1>2
    <3> QED
      BY <2>2, <3>1, FreesClosed, Zenon
  <2> QED
    BY <2>1, <2>3
<1>4. n \in Nat /\ onclose' \in [Sock -> Nat]
  BY <1>1, <1>2
<1>5. count' = count - n /\ (ticks' = IF n > 0 /\ count = n THEN ticks + 1 ELSE ticks)
  BY DEF Free
<1>6. count' = Cardinality(FreesOf(onclose')) /\ count' \in Nat
  BY <1>1, <1>3, <1>4, <1>5
<1>7. count > 0 => running
  BY DEF TypeInv, Waits
<1>8. ticks = (IF running /\ count = 0 THEN 1 ELSE 0)
  BY DEF TypeInv, TypeOK
<1>9. ticks' = (IF running' /\ count' = 0 THEN 1 ELSE 0) /\ (count' > 0 => running')
  <2>1. count \in Nat /\ n <= count
    BY <1>1, <1>3
  <2>2. CASE running
    BY <1>4, <1>5, <1>8, <2>1, <2>2
  <2>3. CASE ~running
    BY <1>4, <1>5, <1>7, <1>8, <2>1, <2>3
  <2> QED
    BY <2>2, <2>3
<1>10. FreesOf(onclose') = FreesOf(onclose)'
  BY DEF FreesOf
<1>11. Waits'
  BY <1>3, <1>6, <1>9, <1>10 DEF Waits
<1> QED
  BY <1>4, <1>6, <1>9, <1>11

LEMMA OnWritableType ==
  ASSUME TypeInv, NEW s \in Sock, NEW j \in 1 .. Len(sendq[s]), NEW n, OnWritable(s, j, n)
  PROVE  TypeInv'
<1>1. TypeOK /\ Lists /\ Waits
  BY DEF TypeInv
<1>2. /\ sendq' = [sendq EXCEPT ![s] = SubSeq(@, j + 1, Len(@))]
      /\ UNCHANGED <<conns, queue, running, life, hits, accepted, cut>>
  BY DEF OnWritable
<1>3. PICK q \in Seq(Msg) : q = sendq[s]
  BY TypeParts
<1>4. j \in 0 .. Len(q) /\ j \in Nat /\ j <= Len(q)
  BY <1>3
<1>5. sendq' \in [Sock -> Seq(Msg)]
  <2>1. SubSeq(q, j + 1, Len(q)) \in Seq(Msg)
    BY <1>4, SplitJoin
  <2> QED
    BY <1>2, <1>3, <2>1, TypeParts
<1>6. PICK f \in Strm : f = Flushed(s, j)
  BY <1>3, <1>4, TypeParts, FlushedType
<1>7. Lists'
  BY <1>1, <1>2 DEF Lists
<1>8. CASE j = Len(sendq[s])
  <2>1. /\ stream' = [stream EXCEPT ![s] = f]
        /\ ondrain' = [ondrain EXCEPT ![s] = FALSE]
        /\ onclose' = [onclose EXCEPT ![s] = IF ondrain[s] THEN @ - 1 ELSE @]
        /\ Free(IF ondrain[s] THEN 1 ELSE 0)
        /\ UNCHANGED off
    BY <1>6, <1>8 DEF OnWritable
  <2>2. PICK c : c = IF ondrain[s] THEN 1 ELSE 0
    OBVIOUS
  <2>3. onclose[s] \in Nat /\ (ondrain[s] => onclose[s] > 0)
    BY <1>1, TypeParts DEF Waits
  <2>4. c \in 0 .. onclose[s] /\ Free(c) /\ onclose' = [onclose EXCEPT ![s] = onclose[s] - c]
    <3>1. CASE ondrain[s]
      BY <2>1, <2>2, <2>3, <3>1
    <3>2. CASE ~ondrain[s]
      <4>1. c = 0 /\ Free(c) /\ onclose' = [onclose EXCEPT ![s] = onclose[s]]
        BY <2>1, <2>2, <3>2, Zenon
      <4>2. onclose[s] - c = onclose[s] /\ c \in 0 .. onclose[s]
        BY <2>3, <4>1
      <4> QED
        BY <4>1, <4>2
    <3> QED
      BY <3>1, <3>2
  <2>5. ondrain \in [Sock -> BOOLEAN]
    BY <1>1 DEF TypeOK
  <2>6. ondrain' \in [Sock -> BOOLEAN]
    BY <2>1, <2>5, Zenon
  <2>7. ASSUME NEW u \in Sock, ondrain'[u] PROVE onclose'[u] > 0
    <3>1. u # s
      BY <2>1, <2>5, <2>7, Zenon
    <3>2. ondrain[u]
      BY <2>1, <2>5, <2>7, <3>1, Zenon
    <3>3. onclose'[u] = onclose[u]
      BY <2>4, <3>1, TypeParts
    <3> QED
      BY <1>1, <3>2, <3>3 DEF Waits
  <2>8. /\ Waits' /\ onclose' \in [Sock -> Nat] /\ count' \in Nat
        /\ ticks' = (IF running' /\ count' = 0 THEN 1 ELSE 0)
    BY <1>2, <2>4, <2>6, <2>7, FreeWaits
  <2>9. stream' \in [Sock -> Strm]
    BY <2>1, TypeParts
  <2>10. TypeOK'
    BY <1>1, <1>2, <1>5, <2>1, <2>6, <2>8, <2>9 DEF TypeOK, Strm
  <2> QED
    BY <1>7, <2>8, <2>10 DEF TypeInv
<1>9. CASE j # Len(sendq[s])
  <2>1. PICK m : m = sendq[s][j + 1]
    OBVIOUS
  <2>2. /\ n \in 0 .. Size - off[m] - 1
        /\ stream' = [stream EXCEPT ![s] = Put(f, m, off[m], n)]
        /\ off' = [off EXCEPT ![m] = @ + n]
        /\ UNCHANGED <<ondrain, onclose, count, ticks>>
    BY <1>6, <1>9, <2>1 DEF OnWritable, handle
  <2>3. m \in Msg /\ off[m] \in 0 .. Size - 1 /\ Size \in Nat \ {0}
    <3>1. j + 1 \in 1 .. Len(q)
      BY <1>3, <1>4, <1>9
    <3> QED
      BY <1>3, <2>1, <3>1, TypeParts
  <2>4. n \in 0 .. Size /\ off[m] + n \in 0 .. Size - 1 /\ off[m] + n <= Size
    BY <2>2, <2>3
  <2>5. off' \in [Msg -> 0 .. Size - 1]
    BY <2>2, <2>3, <2>4, TypeParts
  <2>6. Put(f, m, off[m], n) \in Strm
    BY <2>3, <2>4, PutType
  <2>7. stream' \in [Sock -> Strm]
    BY <2>2, <2>6, TypeParts
  <2>8. TypeOK'
    BY <1>1, <1>2, <1>5, <2>2, <2>5, <2>7 DEF TypeOK, Strm
  <2>9. Waits'
    BY <1>1, <1>2, <2>2 DEF Waits, FreesOf
  <2> QED
    BY <1>7, <2>8, <2>9 DEF TypeInv
<1> QED
  BY <1>8, <1>9

LEMMA OnCloseType ==
  ASSUME TypeInv, NEW s \in Sock, OnClose(s)
  PROVE  TypeInv'
<1>1. /\ life[s] = "closing" /\ life' = [life EXCEPT ![s] = "closed"]
      /\ Free(onclose[s]) /\ onclose' = [onclose EXCEPT ![s] = 0]
      /\ ondrain' = [ondrain EXCEPT ![s] = @ /\ onclose[s] = 0]
      /\ UNCHANGED <<queue, running, hits, sendq, off, accepted, stream, cut>>
  BY DEF OnClose, CloseFrees
<1>2. PICK i \in DOMAIN conns : conns[i] = s /\ conns' = RemoveAt(conns, i)
  BY DEF OnClose
<1>3. TypeOK /\ Lists /\ Waits
  BY DEF TypeInv
<1>4. conns \in Seq(Sock) /\ IsInjective(conns) /\ life \in [Sock -> {"new", "open", "closing", "closed"}]
  BY <1>3 DEF TypeOK
<1>5. IsInjective(conns') /\ ToSet(conns') = ToSet(conns) \ {s}
  BY <1>2, <1>4, RemoveOnce
<1>6. conns' \in Seq(Sock)
  BY <1>2, <1>4 DEF RemoveAt
<1>7. onclose[s] \in 0 .. onclose[s] /\ onclose' = [onclose EXCEPT ![s] = onclose[s] - onclose[s]]
  <2>1. onclose[s] \in Nat
    BY TypeParts
  <2>2. onclose[s] - onclose[s] = 0 /\ onclose[s] \in 0 .. onclose[s]
    BY <2>1
  <2>3. onclose' = [onclose EXCEPT ![s] = 0]
    BY <1>1
  <2> QED
    BY <2>2, <2>3, Zenon
<1>8. ondrain \in [Sock -> BOOLEAN]
  BY <1>3 DEF TypeOK
<1>9. ondrain' \in [Sock -> BOOLEAN]
  BY <1>1, <1>8, Zenon
<1>10. ASSUME NEW u \in Sock, ondrain'[u] PROVE onclose'[u] > 0
  <2>1. CASE u = s
    <3>1. ondrain[s] /\ onclose[s] = 0
      BY <1>1, <1>8, <1>10, <2>1, Zenon
    <3>2. ondrain[s] => onclose[s] > 0
      BY <1>3 DEF Waits
    <3> QED
      BY <3>1, <3>2
  <2>2. CASE u # s
    <3>1. ondrain[u]
      BY <1>1, <1>8, <1>10, <2>2, Zenon
    <3>2. onclose'[u] = onclose[u]
      BY <1>1, <2>2, TypeParts
    <3> QED
      BY <1>3, <3>1, <3>2 DEF Waits
  <2> QED
    BY <2>1, <2>2
<1>11. /\ Waits' /\ onclose' \in [Sock -> Nat] /\ count' \in Nat
       /\ ticks' = (IF running' /\ count' = 0 THEN 1 ELSE 0)
  BY <1>1, <1>7, <1>9, <1>10, FreeWaits
<1>12. life' \in [Sock -> {"new", "open", "closing", "closed"}]
  BY <1>1, <1>4
<1>13. TypeOK'
  BY <1>1, <1>3, <1>5, <1>6, <1>9, <1>11, <1>12 DEF TypeOK
<1>14. Lists'
  <2>1. \A u \in Sock : life'[u] \in {"open", "closing"} <=> life[u] \in {"open", "closing"} /\ u # s
    BY <1>1, <1>4
  <2> QED
    BY <1>1, <1>3, <1>5, <2>1 DEF Lists
<1> QED
  BY <1>11, <1>13, <1>14 DEF TypeInv

LEMMA TypeStep ==
  ASSUME TypeInv, [Next]_vars
  PROVE  TypeInv'
<1>1. CASE UNCHANGED vars
  <2>1. UNCHANGED <<conns, queue, running, ticks, count, life, hits, sendq, ondrain, onclose, off,
                    accepted, stream, cut>>
    BY <1>1 DEF vars, channel, handle
  <2> QED
    BY <2>1 DEF TypeInv, TypeOK, Waits, Lists, FreesOf
<1>2. ASSUME NEW m \in Msg, SendMsg(m) PROVE TypeInv'
  BY <1>2, SendMsgType
<1>3. ASSUME Run PROVE TypeInv'
  BY <1>3, RunToEndType, RunUntilCutType DEF Run
<1>4. ASSUME NEW s \in Sock, Attach(s) \/ Drain(s) \/ Destroy(s) \/ OnClose(s) PROVE TypeInv'
  BY <1>4, AttachType, OnWritableType, DestroyType, OnCloseType DEF Drain
<1>5. ASSUME NEW s \in Sock, NEW n \in 1 .. Size, OnWritablePart(s, n) PROVE TypeInv'
  BY <1>5, OnWritablePartType
<1> QED
  BY <1>1, <1>2, <1>3, <1>4, <1>5 DEF Next

\* TypeOK: every variable keeps its type, the channel lists no socket twice, and
\* its queue is run by one job at most, that is due when it waits for no socket.
THEOREM TypeCorrect == Spec => []TypeOK
<1>1. Init => TypeInv
  BY TypeStart
<1>2. TypeInv /\ [Next]_vars => TypeInv'
  BY TypeStep
<1>3. TypeInv => TypeOK
  BY DEF TypeInv
<1> QED
  BY <1>1, <1>2, <1>3, PTL DEF Spec

-----------------------------------------------------------------------------
(***************************************************************************)
(* InOrder.                                                                *)
(***************************************************************************)

\* The messages are numbered, and the queue has the last of them.
Numbered ==
  /\ \A i \in 1 .. Len(accepted) : accepted[i] = i
  /\ Len(queue) <= Len(accepted)
  /\ \A j \in 1 .. Len(queue) : queue[j] = Len(accepted) - Len(queue) + j
  /\ \A s \in Sock : \A j \in 1 .. Len(sendq[s]) : sendq[s][j] <= Len(accepted) - Len(queue)

\* Only a cut message is kept by two sockets.
Alone ==
  \A s, t \in Sock : \A j \in 1 .. Len(sendq[s]), l \in 1 .. Len(sendq[t]) :
    s # t /\ sendq[s][j] = sendq[t][l] => sendq[s][j] \in cut

\* Nothing was written to s.
Idle(s) == sendq[s] = <<>> /\ stream[s].at = Boundary /\ stream[s].got = <<>> /\ stream[s].torn = 0

\* s has the messages after i, and gets the next ones while it is open: first
\* the one it keeps, then what is queued.
Runs(s, i) ==
  /\ \A j \in 1 .. Len(stream[s].got) : stream[s].got[j] = i + j
  /\ i + Len(stream[s].got) <= Len(accepted)
  /\ life[s] = "open" /\ hits[s] = 1 =>
       i + Len(stream[s].got) + Len(sendq[s]) + Len(queue) = Len(accepted)
  /\ life[s] = "open" /\ hits[s] = 1 /\ sendq[s] # <<>> => sendq[s][1] = i + Len(stream[s].got) + 1

\* What was written of the message that s keeps, which no one else has.
Begun(s) ==
  /\ sendq[s] = <<>> => stream[s].at = Boundary
  /\ sendq[s] # <<>> /\ sendq[s][1] \notin cut =>
       stream[s].at = (IF off[sendq[s][1]] = 0 THEN Boundary ELSE <<sendq[s][1], off[sendq[s][1]]>>)

\* A socket that is picked once at most keeps one message at most, and the job
\* waits for it then.
Single(s) ==
  /\ Len(sendq[s]) <= 1
  /\ hits[s] = 0 => Idle(s)
  /\ life[s] = "open" /\ sendq[s] # <<>> => onclose[s] > 0
  /\ stream[s].torn \in {0} \cup cut
  /\ stream[s].torn = 0 => \E i \in Nat : Runs(s, i)
  /\ stream[s].torn = 0 /\ life[s] = "open" => Begun(s)

Singles == \A s \in Sock : /\ life[s] = "new" => hits[s] = 0
                           /\ hits[s] <= 1 => Single(s)

OrderInv == TypeInv /\ Numbered /\ Alone /\ Singles

\* It is stronger than InOrder.
LEMMA OrderInvInOrder ==
  ASSUME OrderInv
  PROVE  InOrder
<1> SUFFICES ASSUME NEW s \in Sock, hits[s] <= 1
             PROVE  /\ stream[s].torn \in {0} \cup cut
                    /\ stream[s].torn = 0 => \E i \in 0 .. Len(accepted) :
                         stream[s].got = SubSeq(accepted, i + 1, i + Len(stream[s].got))
  BY DEF InOrder
<1>1. Single(s) /\ TypeInv /\ Numbered
  BY DEF OrderInv, Singles
<1>2. ASSUME stream[s].torn = 0
      PROVE  \E i \in 0 .. Len(accepted) : stream[s].got = SubSeq(accepted, i + 1, i + Len(stream[s].got))
  <2>1. PICK i \in Nat : Runs(s, i)
    BY <1>1, <1>2 DEF Single
  <2>2. PICK g \in Seq(Msg) : g = stream[s].got
    <3>1. stream[s] \in Strm
      BY <1>1, TypeParts
    <3> QED
      BY <3>1 DEF Strm
  <2>3. (\A j \in 1 .. Len(g) : g[j] = i + j) /\ i + Len(g) <= Len(accepted)
    BY <2>1, <2>2 DEF Runs
  <2>4. accepted \in Seq(Msg) /\ \A j \in 1 .. Len(accepted) : accepted[j] = j
    BY <1>1, TypeParts DEF Numbered
  <2>5. PICK a : a = SubSeq(accepted, i + 1, i + Len(g))
    OBVIOUS
  <2>6. /\ a \in Seq(Msg) /\ Len(a) = Len(g)
        /\ \A j \in 1 .. Len(g) : a[j] = accepted[i + j]
    BY <2>3, <2>4, <2>5
  <2>7. \A j \in 1 .. Len(g) : i + j \in 1 .. Len(accepted)
    BY <2>3, <2>4
  <2>8. \A j \in 1 .. Len(g) : a[j] = g[j]
    BY <2>3, <2>4, <2>6, <2>7
  <2>9. a = g
    BY <2>6, <2>8, SameSeq
  <2>10. i \in 0 .. Len(accepted)
    BY <2>3, <2>4
  <2> QED
    BY <2>2, <2>5, <2>9, <2>10
<1> QED
  BY <1>1, <1>2 DEF Single

\* What Put does to each field.
LEMMA PutAt ==
  ASSUME NEW st \in Strm, NEW m \in Msg, NEW o \in 0 .. Size - 1, NEW n \in 0 .. Size, o + n <= Size,
         NEW p, p = Put(st, m, o, n)
  PROVE  /\ p.torn = st.torn \/ p.torn = m
         /\ st.torn # 0 => p.torn = st.torn
         /\ st.torn = 0 /\ (st.at = <<m, o>> \/ (st.at = Boundary /\ o = 0)) => p.torn = 0
         /\ p.torn = 0 => st.torn = 0
         /\ p.torn = 0 /\ n = 0 => p.at = st.at /\ p.got = st.got
         /\ p.torn = 0 /\ n # 0 /\ o + n = Size => p.at = Boundary /\ p.got = Append(st.got, m)
         /\ p.torn = 0 /\ n # 0 /\ o + n # Size => p.at = <<m, o + n>> /\ p.got = st.got
<1>1. m # 0
  BY PubQueueAssumption DEF Msg
<1>2. PICK fits : fits = (st.at = <<m, o>> \/ (st.at = Boundary /\ o = 0))
  OBVIOUS
<1>3. CASE n = 0 \/ st.torn # 0
  <2>1. p = st
    BY <1>3 DEF Put
  <2> QED
    BY <1>3, <2>1
<1>4. CASE ~(n = 0 \/ st.torn # 0) /\ ~(st.at = <<m, o>> \/ (st.at = Boundary /\ o = 0))
  <2>1. p = [st EXCEPT !.torn = m]
    BY <1>4 DEF Put
  <2>2. p.torn = m
    BY <2>1 DEF Strm
  <2> QED
    BY <1>1, <1>4, <2>2
<1>5. CASE ~(n = 0 \/ st.torn # 0) /\ (st.at = <<m, o>> \/ (st.at = Boundary /\ o = 0)) /\ o + n = Size
  <2>1. p = [st EXCEPT !.at = Boundary, !.got = Append(@, m)]
    BY <1>5 DEF Put
  <2>2. p.torn = st.torn /\ p.at = Boundary /\ p.got = Append(st.got, m)
    BY <2>1 DEF Strm
  <2> QED
    BY <1>5, <2>2
<1>6. CASE ~(n = 0 \/ st.torn # 0) /\ (st.at = <<m, o>> \/ (st.at = Boundary /\ o = 0)) /\ o + n # Size
  <2>1. p = [st EXCEPT !.at = <<m, o + n>>]
    BY <1>6 DEF Put
  <2>2. p.torn = st.torn /\ p.at = <<m, o + n>> /\ p.got = st.got
    BY <2>1 DEF Strm
  <2> QED
    BY <1>6, <2>2
<1> QED
  BY <1>3, <1>4, <1>5, <1>6

\* A step that is about other sockets.
Same(s) ==
  /\ sendq'[s] = sendq[s] /\ stream'[s] = stream[s] /\ life'[s] = life[s] /\ hits'[s] = hits[s]
  /\ onclose'[s] = onclose[s]

\* What is known of a socket is kept by a step about others.
LEMMA OtherSocket ==
  ASSUME NEW s \in Sock, Single(s), Same(s), Len(accepted') = Len(accepted), Len(queue') = Len(queue),
         cut \subseteq cut',
         sendq[s] # <<>> => off'[sendq[s][1]] = off[sendq[s][1]] \/ sendq[s][1] \in cut
  PROVE  Single(s)'
<1>1. PICK q, st : q = sendq[s] /\ st = stream[s] /\ q = sendq'[s] /\ st = stream'[s]
  BY DEF Same
<1>2. \A i \in Nat : Runs(s, i) => Runs(s, i)'
  BY DEF Runs, Same
<1>3. Idle(s) => Idle(s)'
  BY DEF Idle, Same
<1>4. Begun(s) => Begun(s)'
  BY DEF Begun, Same
<1>5. st.torn \in {0} \cup cut => st.torn \in {0} \cup cut'
  OBVIOUS
<1>6. st.torn = 0 => ((\E i \in Nat : Runs(s, i)) => \E i \in Nat : Runs(s, i)')
  BY <1>2
<1> QED
  BY <1>1, <1>3, <1>4, <1>5, <1>6 DEF Single, Same

\* The invariant of the order holds at first, and is kept by each action.
LEMMA OrderStart ==
  ASSUME Init
  PROVE  Numbered /\ Alone /\ Singles
<1>1. /\ accepted = <<>> /\ queue = <<>> /\ cut = {} /\ hits = [s \in Sock |-> 0]
      /\ sendq = [s \in Sock |-> <<>>] /\ life = [s \in Sock |-> "new"]
      /\ stream = [s \in Sock |-> [at |-> Boundary, got |-> <<>>, torn |-> 0]]
  BY DEF Init
<1>2. Numbered
  BY <1>1 DEF Numbered
<1>3. Alone
  BY <1>1 DEF Alone
<1>4. ASSUME NEW s \in Sock PROVE Single(s)
  <2>1. /\ sendq[s] = <<>> /\ life[s] = "new" /\ Len(<<>>) = 0 /\ stream[s].at = Boundary
        /\ stream[s].got = <<>> /\ stream[s].torn = 0
    BY <1>1
  <2>2. Runs(s, 0) /\ 0 \in Nat
    BY <1>1, <2>1 DEF Runs
  <2>3. \E i \in Nat : Runs(s, i)
    BY <2>2
  <2> QED
    BY <2>1, <2>3 DEF Single, Idle
<1>5. Singles
  BY <1>1, <1>4 DEF Singles
<1> QED
  BY <1>2, <1>3, <1>5

LEMMA AttachOrder ==
  ASSUME OrderInv, NEW s \in Sock, Attach(s)
  PROVE  Numbered' /\ Alone' /\ Singles'
<1>1. /\ life[s] = "new" /\ life' = [life EXCEPT ![s] = "open"]
      /\ UNCHANGED <<queue, running, ticks, count, sendq, ondrain, onclose, off, accepted, stream, cut>>
  BY DEF Attach, handle
<1>2. PICK h \in 0 .. MaxHits[s] : hits' = [hits EXCEPT ![s] = h]
  BY DEF Attach
<1>3. TypeInv /\ Numbered /\ Alone /\ Singles
  BY DEF OrderInv
<1>4. Numbered' /\ Alone'
  BY <1>1, <1>3 DEF Numbered, Alone
<1>5. life \in [Sock -> {"new", "open", "closing", "closed"}] /\ hits \in [Sock -> Nat]
  BY <1>3 DEF TypeInv, TypeOK, Lists
<1>6. ASSUME NEW u \in Sock, u # s PROVE (life'[u] = "new" => hits'[u] = 0) /\ (hits'[u] <= 1 => Single(u)')
  <2>1. Same(u)
    BY <1>1, <1>2, <1>5, <1>6 DEF Same
  <2>2. hits[u] <= 1 => Single(u)'
    BY <1>1, <1>3, <2>1, OtherSocket DEF Singles
  <2> QED
    BY <1>3, <2>1, <2>2 DEF Singles, Same
<1>7. life'[s] = "open"
  BY <1>1, <1>5
<1>8. Single(s)'
  <2>1. hits[s] = 0 /\ Single(s) /\ Idle(s)
    BY <1>1, <1>3 DEF Singles, Single
  <2>2. /\ sendq'[s] = <<>> /\ Len(<<>>) = 0 /\ stream'[s].at = Boundary
        /\ stream'[s].got = <<>> /\ stream'[s].torn = 0
    BY <1>1, <2>1 DEF Idle
  <2>3. PICK a, u \in Nat : a = Len(accepted) /\ u = Len(queue)
    BY <1>3, TypeParts
  <2>4. PICK i \in Nat : i = a - u
    <3>1. u <= a
      BY <1>3, <2>3 DEF Numbered
    <3> QED
      BY <3>1
  <2>5. Runs(s, i)'
    <3>1. i + 0 <= a /\ i + 0 + 0 + u = a
      BY <2>4
    <3> QED
      BY <1>1, <2>2, <2>3, <3>1 DEF Runs
  <2>6. (\E x \in Nat : Runs(s, x))'
    BY <2>5
  <2> QED
    BY <2>2, <2>6 DEF Single, Begun, Idle
<1> QED
  BY <1>4, <1>6, <1>7, <1>8 DEF Singles

LEMMA SendMsgOrder ==
  ASSUME OrderInv, NEW m \in Msg, SendMsg(m)
  PROVE  Numbered' /\ Alone' /\ Singles'
<1>1. /\ queue' = Append(queue, m) /\ accepted' = Append(accepted, m) /\ m = Len(accepted) + 1
      /\ UNCHANGED <<conns, count, life, hits, sendq, ondrain, onclose, off, stream, cut>>
  BY DEF SendMsg, handle
<1>2. TypeInv /\ Numbered /\ Alone /\ Singles
  BY DEF OrderInv
<1>3. PICK a, u \in Nat : a = Len(accepted) /\ u = Len(queue)
  BY <1>2, TypeParts
<1>4. /\ Len(accepted') = a + 1 /\ accepted'[a + 1] = a + 1
      /\ \A i \in 1 .. a : accepted'[i] = accepted[i]
  BY <1>1, <1>2, <1>3, TypeParts, AppendAt
<1>5. /\ Len(queue') = u + 1 /\ queue'[u + 1] = a + 1
      /\ \A i \in 1 .. u : queue'[i] = queue[i]
  BY <1>1, <1>2, <1>3, TypeParts, AppendAt
<1>6. Numbered'
  <2>1. \A i \in 1 .. a + 1 : accepted'[i] = i
    BY <1>2, <1>3, <1>4 DEF Numbered
  <2>2. u <= a /\ \A j \in 1 .. u : queue[j] = a - u + j
    BY <1>2, <1>3 DEF Numbered
  <2>3. \A j \in 1 .. u + 1 : queue'[j] = (a + 1) - (u + 1) + j
    <3> TAKE j \in 1 .. u + 1
    <3>1. CASE j = u + 1
      BY <1>5, <3>1
    <3>2. CASE j # u + 1
      <4>1. j \in 1 .. u
        BY <3>2
      <4> QED
        BY <1>5, <2>2, <4>1
    <3> QED
      BY <3>1, <3>2
  <2>4. a - u = (a + 1) - (u + 1) /\ u + 1 <= a + 1
    BY <1>3, <2>2
  <2>5. \A s \in Sock : \A j \in 1 .. Len(sendq[s]) : sendq[s][j] <= a - u
    BY <1>2, <1>3 DEF Numbered
  <2> QED
    BY <1>1, <1>4, <1>5, <2>1, <2>3, <2>4, <2>5 DEF Numbered
<1>7. Alone'
  BY <1>1, <1>2 DEF Alone
<1>8. ASSUME NEW s \in Sock, Single(s) PROVE Single(s)'
  <2>1. stream[s] \in Strm /\ sendq[s] \in Seq(Msg)
    BY <1>2, TypeParts
  <2>2. Len(stream[s].got) \in Nat /\ Len(sendq[s]) \in Nat
    BY <2>1 DEF Strm
  <2>3. ASSUME NEW i \in Nat, Runs(s, i) PROVE Runs(s, i)'
    <3>1. i + Len(stream[s].got) <= a + 1
      BY <1>3, <2>2, <2>3 DEF Runs
    <3>2. life[s] = "open" /\ hits[s] = 1 =>
             i + Len(stream[s].got) + Len(sendq[s]) + (u + 1) = a + 1
      <4>1. PICK g, l \in Nat : g = Len(stream[s].got) /\ l = Len(sendq[s])
        BY <2>2
      <4>2. life[s] = "open" /\ hits[s] = 1 => i + g + l + u = a
        BY <1>3, <2>3, <4>1 DEF Runs
      <4>3. life[s] = "open" /\ hits[s] = 1 => i + g + l + (u + 1) = a + 1
        BY <4>2
      <4> QED
        BY <4>1, <4>3
    <3> QED
      BY <1>1, <1>4, <1>5, <2>3, <3>1, <3>2 DEF Runs
  <2>4. (\E i \in Nat : Runs(s, i)) => \E i \in Nat : Runs(s, i)'
    BY <2>3
  <2>5. Begun(s) => Begun(s)'
    BY <1>1 DEF Begun
  <2>6. Idle(s) => Idle(s)'
    BY <1>1 DEF Idle
  <2> QED
    BY <1>1, <1>8, <2>4, <2>5, <2>6 DEF Single
<1>9. Singles'
  BY <1>1, <1>2, <1>8 DEF Singles
<1> QED
  BY <1>6, <1>7, <1>9

\* A socket that is no longer open has no more to get.
LEMMA LeavesOrder ==
  ASSUME OrderInv, NEW s \in Sock, Single(s), life'[s] \notin {"open", "new"},
         sendq'[s] = sendq[s] /\ stream'[s] = stream[s] /\ hits'[s] = hits[s],
         UNCHANGED <<accepted, cut>>
  PROVE  Single(s)'
<1>1. \A i \in Nat : Runs(s, i) => Runs(s, i)'
  BY DEF Runs
<1>2. (\E i \in Nat : Runs(s, i)) => \E i \in Nat : Runs(s, i)'
  BY <1>1
<1>3. Idle(s) => Idle(s)'
  BY DEF Idle
<1> QED
  BY <1>2, <1>3 DEF Single

LEMMA DestroyOrder ==
  ASSUME OrderInv, NEW s \in Sock, Destroy(s)
  PROVE  Numbered' /\ Alone' /\ Singles'
<1>1. /\ life' = [life EXCEPT ![s] = "closing"]
      /\ UNCHANGED <<conns, queue, running, ticks, count, hits, sendq, ondrain, onclose, off, accepted, stream, cut>>
  BY DEF Destroy, channel, handle
<1>2. TypeInv /\ Numbered /\ Alone /\ Singles
  BY DEF OrderInv
<1>3. Numbered' /\ Alone'
  BY <1>1, <1>2 DEF Numbered, Alone
<1>4. life \in [Sock -> {"new", "open", "closing", "closed"}]
  BY <1>2 DEF TypeInv, TypeOK
<1>5. ASSUME NEW u \in Sock, u # s PROVE (life'[u] = "new" => hits'[u] = 0) /\ (hits'[u] <= 1 => Single(u)')
  <2>1. Same(u)
    BY <1>1, <1>4, <1>5 DEF Same
  <2>2. hits[u] <= 1 => Single(u)'
    BY <1>1, <1>2, <2>1, OtherSocket DEF Singles
  <2> QED
    BY <1>2, <2>1, <2>2 DEF Singles, Same
<1>6. life'[s] = "closing" /\ hits'[s] = hits[s]
  BY <1>1, <1>4
<1>7. hits[s] <= 1 => Single(s)'
  BY <1>1, <1>2, <1>6, LeavesOrder DEF Singles
<1> QED
  BY <1>3, <1>5, <1>6, <1>7 DEF Singles

LEMMA OnCloseOrder ==
  ASSUME OrderInv, NEW s \in Sock, OnClose(s)
  PROVE  Numbered' /\ Alone' /\ Singles'
<1>1. /\ life' = [life EXCEPT ![s] = "closed"] /\ onclose' = [onclose EXCEPT ![s] = 0]
      /\ UNCHANGED <<queue, running, hits, sendq, off, accepted, stream, cut>>
  BY DEF OnClose, CloseFrees
<1>2. TypeInv /\ Numbered /\ Alone /\ Singles
  BY DEF OrderInv
<1>3. Numbered' /\ Alone'
  BY <1>1, <1>2 DEF Numbered, Alone
<1>4. life \in [Sock -> {"new", "open", "closing", "closed"}] /\ onclose \in [Sock -> Nat]
  BY <1>2 DEF TypeInv, TypeOK
<1>5. ASSUME NEW u \in Sock, u # s PROVE (life'[u] = "new" => hits'[u] = 0) /\ (hits'[u] <= 1 => Single(u)')
  <2>1. Same(u)
    BY <1>1, <1>4, <1>5 DEF Same
  <2>2. hits[u] <= 1 => Single(u)'
    BY <1>1, <1>2, <2>1, OtherSocket DEF Singles
  <2> QED
    BY <1>2, <2>1, <2>2 DEF Singles, Same
<1>6. life'[s] = "closed" /\ hits'[s] = hits[s]
  BY <1>1, <1>4
<1>7. hits[s] <= 1 => Single(s)'
  BY <1>1, <1>2, <1>6, LeavesOrder DEF Singles
<1> QED
  BY <1>3, <1>5, <1>6, <1>7 DEF Singles

\* p is what was written to s after n more bytes of the message m that it keeps.
Continues(s, m, n, p) == m = sendq[s][1] /\ p = Put(stream[s], m, off[m], n)

\* What a flush adds to a socket that keeps one message, at most, goes on where
\* it was cut, unless the message is for others too.
LEMMA KeptWrite ==
  ASSUME OrderInv, NEW s \in Sock, Single(s), life[s] = "open", sendq[s] # <<>>,
         NEW m, NEW n \in 1 .. Size, off[m] + n <= Size, NEW p, Continues(s, m, n, p)
  PROVE  /\ Len(sendq[s]) = 1 /\ hits[s] # 0 /\ m \in Msg /\ off[m] \in 0 .. Size - 1
         /\ p.torn \in {0} \cup cut
         /\ p.torn = 0 => stream[s].torn = 0
         /\ p.torn = 0 /\ off[m] + n = Size => p.at = Boundary /\ p.got = Append(stream[s].got, m)
         /\ p.torn = 0 /\ off[m] + n # Size => p.at = <<m, off[m] + n>> /\ p.got = stream[s].got
<1>1. TypeInv /\ m = sendq[s][1] /\ p = Put(stream[s], m, off[m], n)
  BY DEF OrderInv, Continues
<1>2. stream[s] \in Strm /\ sendq[s] \in Seq(Msg)
  BY <1>1, TypeParts
<1>3. Len(sendq[s]) = 1 /\ hits[s] # 0
  <2>1. Len(sendq[s]) <= 1 /\ (hits[s] = 0 => Idle(s))
    BY DEF Single
  <2>2. ~Idle(s)
    BY DEF Idle
  <2>3. PICK l \in Nat : l = Len(sendq[s]) /\ l # 0
    BY <1>2
  <2>4. l <= 1
    BY <2>1, <2>3
  <2>5. \A x \in Nat : x # 0 /\ x <= 1 => x = 1
    OBVIOUS
  <2>6. hits[s] # 0
    BY <2>1, <2>2, Zenon
  <2>7. l = 1
    BY <2>3, <2>4, <2>5, Zenon
  <2> QED
    BY <2>3, <2>6, <2>7
<1>4. m \in Msg
  BY <1>1, <1>2, <1>3
<1>5. off[m] \in 0 .. Size - 1 /\ n \in 0 .. Size /\ n # 0
  BY <1>1, <1>4, TypeParts
<1>6. PICK st, o : st = stream[s] /\ o = off[m]
  OBVIOUS
<1>7. /\ p.torn = st.torn \/ p.torn = m
      /\ st.torn # 0 => p.torn = st.torn
      /\ st.torn = 0 /\ (st.at = <<m, o>> \/ (st.at = Boundary /\ o = 0)) => p.torn = 0
      /\ p.torn = 0 => st.torn = 0
      /\ p.torn = 0 /\ n # 0 /\ o + n = Size => p.at = Boundary /\ p.got = Append(st.got, m)
      /\ p.torn = 0 /\ n # 0 /\ o + n # Size => p.at = <<m, o + n>> /\ p.got = st.got
  <2>1. st \in Strm /\ o \in 0 .. Size - 1 /\ o + n <= Size /\ p = Put(st, m, o, n)
    BY <1>1, <1>2, <1>5, <1>6
  <2> QED
    BY <1>4, <1>5, <2>1, PutAt
<1>8. st.torn \in {0} \cup cut
  BY <1>6 DEF Single
<1>9. st.torn = 0 /\ m \notin cut => st.at = <<m, o>> \/ (st.at = Boundary /\ o = 0)
  BY <1>1, <1>6 DEF Single, Begun
<1>10. p.torn \in {0} \cup cut
  BY <1>7, <1>8, <1>9
<1> QED
  BY <1>3, <1>4, <1>5, <1>6, <1>7, <1>10

LEMMA OnWritablePartOrder ==
  ASSUME OrderInv, NEW s \in Sock, NEW n, OnWritablePart(s, n)
  PROVE  Numbered' /\ Alone' /\ Singles'
<1>1. TypeInv /\ Numbered /\ Alone /\ Singles
  BY DEF OrderInv
<1>2. PICK m : m = sendq[s][1]
  OBVIOUS
<1>3. Head(sendq[s]) = m /\ sendq[s] # <<>> /\ 1 \in 1 .. Len(sendq[s])
  <2>1. sendq[s] \in Seq(Msg) /\ sendq[s] # <<>>
    BY <1>1, TypeParts DEF OnWritablePart
  <2> QED
    BY <1>2, <2>1
<1>4. /\ life[s] = "open" /\ n \in 1 .. Size - off[m] - 1 /\ off' = [off EXCEPT ![m] = @ + n]
      /\ stream' = [stream EXCEPT ![s] = Put(@, m, off[m], n)]
      /\ UNCHANGED <<conns, queue, running, ticks, count, life, hits, sendq, ondrain, onclose, accepted, cut>>
  BY <1>3 DEF OnWritablePart, channel, handle
<1>5. Numbered' /\ Alone'
  BY <1>1, <1>4 DEF Numbered, Alone
<1>6. stream \in [Sock -> Strm] /\ off \in [Msg -> 0 .. Size - 1]
  BY <1>1, TypeParts
<1>7. ASSUME NEW u \in Sock, u # s PROVE (life'[u] = "new" => hits'[u] = 0) /\ (hits'[u] <= 1 => Single(u)')
  <2>1. Same(u)
    BY <1>4, <1>6, <1>7 DEF Same
  <2>2. ASSUME sendq[u] # <<>>, off'[sendq[u][1]] # off[sendq[u][1]] PROVE sendq[u][1] \in cut
    <3>1. sendq[u] \in Seq(Msg) /\ 1 \in 1 .. Len(sendq[u])
      <4>1. sendq[u] \in Seq(Msg)
        BY <1>1, TypeParts
      <4> QED
        BY <2>2, <4>1
    <3>2. sendq[u][1] \in Msg
      BY <3>1
    <3>3. sendq[u][1] = m
      BY <1>4, <1>6, <2>2, <3>2
    <3> QED
      BY <1>1, <1>2, <1>3, <1>7, <3>1, <3>3 DEF Alone
  <2>3. hits[u] <= 1 => Single(u)'
    BY <1>1, <1>4, <2>1, <2>2, OtherSocket DEF Singles
  <2> QED
    BY <1>1, <2>1, <2>3 DEF Singles, Same
<1>8. ASSUME Single(s) PROVE Single(s)'
  <2>1. PICK p : p = Put(stream[s], m, off[m], n)
    OBVIOUS
  <2>2. n \in 1 .. Size /\ off[m] + n <= Size /\ off[m] + n # Size /\ off[m] + n # 0
    <3>1. m \in Msg /\ Size \in Nat
      <4>1. sendq[s] \in Seq(Msg)
        BY <1>1, TypeParts
      <4> QED
        BY <1>1, <1>2, <1>3, <4>1, TypeParts
    <3>2. off[m] \in 0 .. Size - 1
      BY <1>6, <3>1
    <3> QED
      BY <1>4, <3>1, <3>2
  <2>3. /\ Len(sendq[s]) = 1 /\ hits[s] # 0 /\ m \in Msg /\ off[m] \in 0 .. Size - 1
        /\ p.torn \in {0} \cup cut
        /\ p.torn = 0 => stream[s].torn = 0
        /\ p.torn = 0 /\ off[m] + n # Size => p.at = <<m, off[m] + n>> /\ p.got = stream[s].got
    <3>1. Single(s) /\ life[s] = "open" /\ sendq[s] # <<>>
      BY <1>3, <1>4, <1>8
    <3>2. n \in 1 .. Size /\ off[m] + n <= Size
      BY <2>2
    <3>3. /\ Len(sendq[s]) = 1 /\ hits[s] # 0 /\ m \in Msg /\ off[m] \in 0 .. Size - 1
          /\ p.torn \in {0} \cup cut
          /\ p.torn = 0 => stream[s].torn = 0
          /\ p.torn = 0 /\ off[m] + n = Size => p.at = Boundary /\ p.got = Append(stream[s].got, m)
          /\ p.torn = 0 /\ off[m] + n # Size => p.at = <<m, off[m] + n>> /\ p.got = stream[s].got
      <4>1. Continues(s, m, n, p)
        BY <1>2, <2>1 DEF Continues
      <4> QED
        BY <3>1, <3>2, <4>1, KeptWrite
    <3> QED
      BY <3>3
  <2>4. stream'[s] = p /\ off'[m] = off[m] + n
    BY <1>4, <1>6, <2>1, <2>3
  <2>5. p.torn = 0 => \E i \in Nat : Runs(s, i)'
    <3>1. ASSUME p.torn = 0, NEW i \in Nat, Runs(s, i) PROVE Runs(s, i)'
      <4>1. stream'[s].got = stream[s].got
        BY <2>2, <2>3, <2>4, <3>1
      <4> QED
        BY <1>4, <3>1, <4>1 DEF Runs
    <3> QED
      BY <1>8, <2>3, <3>1 DEF Single
  <2>6. p.torn = 0 => Begun(s)'
    BY <1>2, <1>3, <1>4, <2>2, <2>3, <2>4 DEF Begun
  <2> QED
    BY <1>4, <1>8, <2>3, <2>4, <2>5, <2>6 DEF Single
<1>9. Singles'
  BY <1>1, <1>4, <1>7, <1>8 DEF Singles
<1> QED
  BY <1>5, <1>9

LEMMA OnWritableOrder ==
  ASSUME OrderInv, NEW s \in Sock, NEW j \in 1 .. Len(sendq[s]), NEW n, OnWritable(s, j, n)
  PROVE  Numbered' /\ Alone' /\ Singles'
<1>1. TypeInv /\ Numbered /\ Alone /\ Singles
  BY DEF OrderInv
<1>2. /\ life[s] = "open" /\ sendq[s] # <<>>
      /\ sendq' = [sendq EXCEPT ![s] = SubSeq(@, j + 1, Len(@))]
      /\ UNCHANGED <<conns, queue, running, life, hits, accepted, cut>>
  BY DEF OnWritable
<1>3. PICK q \in Seq(Msg) : q = sendq[s]
  BY <1>1, TypeParts
<1>4. j \in Nat /\ 1 <= j /\ j <= Len(q) /\ Len(q) \in Nat
  BY <1>3
<1>5. PICK r : r = SubSeq(q, j + 1, Len(q))
  OBVIOUS
<1>6. r \in Seq(Msg) /\ Len(r) = Len(q) - j /\ \A x \in 1 .. Len(r) : r[x] = q[j + x] /\ j + x \in 1 .. Len(q)
  BY <1>4, <1>5
<1>7. sendq'[s] = r /\ \A u \in Sock : u # s => sendq'[u] = sendq[u]
  <2>1. sendq \in [Sock -> Seq(Msg)]
    BY <1>1, TypeParts
  <2> QED
    BY <1>2, <1>3, <1>5, <2>1
<1>8. Numbered'
  <2>1. ASSUME NEW u \in Sock, NEW x \in 1 .. Len(sendq'[u]) PROVE sendq'[u][x] <= Len(accepted) - Len(queue)
    <3>1. CASE u = s
      BY <1>1, <1>3, <1>6, <1>7, <3>1 DEF Numbered
    <3>2. CASE u # s
      BY <1>1, <1>7, <3>2 DEF Numbered
    <3> QED
      BY <3>1, <3>2
  <2> QED
    BY <1>1, <1>2, <2>1 DEF Numbered
<1>9. Alone'
  <2>1. ASSUME NEW u \in Sock, NEW x \in 1 .. Len(sendq'[u])
        PROVE  \E y \in 1 .. Len(sendq[u]) : sendq'[u][x] = sendq[u][y]
    <3>1. CASE u = s
      BY <1>3, <1>6, <1>7, <3>1
    <3>2. CASE u # s
      BY <1>7, <3>2
    <3> QED
      BY <3>1, <3>2
  <2> SUFFICES ASSUME NEW u \in Sock, NEW t \in Sock,
                      NEW x \in 1 .. Len(sendq'[u]), NEW l \in 1 .. Len(sendq'[t]),
                      u # t, sendq'[u][x] = sendq'[t][l]
               PROVE  sendq'[u][x] \in cut
    BY <1>2 DEF Alone
  <2>2. PICK y \in 1 .. Len(sendq[u]) : sendq'[u][x] = sendq[u][y]
    BY <2>1
  <2>3. PICK z \in 1 .. Len(sendq[t]) : sendq'[t][l] = sendq[t][z]
    BY <2>1
  <2> QED
    BY <1>1, <2>2, <2>3 DEF Alone
<1>10. stream \in [Sock -> Strm] /\ off \in [Msg -> 0 .. Size - 1] /\ onclose \in [Sock -> Nat]
  BY <1>1, TypeParts
<1>11. PICK m : m = q[j + 1]
  OBVIOUS
<1>12. /\ \A u \in Sock : u # s => stream'[u] = stream[u] /\ onclose'[u] = onclose[u]
       /\ off' = off \/ (off' = [off EXCEPT ![m] = @ + n] /\ j + 1 \in 1 .. Len(q))
  <2>1. CASE j = Len(sendq[s])
    <3>1. /\ stream' = [stream EXCEPT ![s] = Flushed(s, j)]
          /\ onclose' = [onclose EXCEPT ![s] = IF ondrain[s] THEN @ - 1 ELSE @]
          /\ UNCHANGED off
      BY <2>1 DEF OnWritable
    <3> QED
      BY <1>10, <3>1
  <2>2. CASE j # Len(sendq[s])
    <3>1. /\ stream' = [stream EXCEPT ![s] = Put(Flushed(s, j), m, off[m], n)]
          /\ off' = [off EXCEPT ![m] = @ + n] /\ UNCHANGED onclose
      BY <1>3, <1>11, <2>2 DEF OnWritable, handle
    <3>2. j + 1 \in 1 .. Len(q)
      BY <1>3, <1>4, <2>2
    <3> QED
      BY <1>10, <3>1, <3>2
  <2> QED
    BY <2>1, <2>2
<1>13. ASSUME NEW u \in Sock, u # s PROVE (life'[u] = "new" => hits'[u] = 0) /\ (hits'[u] <= 1 => Single(u)')
  <2>1. Same(u)
    BY <1>2, <1>7, <1>12, <1>13 DEF Same
  <2>2. ASSUME sendq[u] # <<>>, off'[sendq[u][1]] # off[sendq[u][1]] PROVE sendq[u][1] \in cut
    <3>1. sendq[u] \in Seq(Msg) /\ 1 \in 1 .. Len(sendq[u])
      <4>1. sendq[u] \in Seq(Msg)
        BY <1>1, TypeParts
      <4> QED
        BY <2>2, <4>1
    <3>2. sendq[u][1] \in Msg
      BY <3>1
    <3>3. sendq[u][1] = m /\ j + 1 \in 1 .. Len(q)
      BY <1>10, <1>12, <2>2, <3>2
    <3> QED
      BY <1>1, <1>3, <1>11, <1>13, <3>1, <3>3 DEF Alone
  <2>3. hits[u] <= 1 => Single(u)'
    BY <1>1, <1>2, <2>1, <2>2, OtherSocket DEF Singles
  <2> QED
    BY <1>1, <2>1, <2>3 DEF Singles, Same
<1>14. ASSUME Single(s), hits[s] <= 1 PROVE Single(s)'
  <2>1. Len(q) = 1 /\ j = 1
    <3>1. Len(q) <= 1
      BY <1>3, <1>14 DEF Single
    <3>2. PICK l \in Nat : l = Len(q)
      BY <1>4
    <3>3. l <= 1 /\ 1 <= j /\ j <= l /\ j \in Nat
      BY <1>4, <3>1, <3>2
    <3>4. l = 1 /\ j = 1
      BY <3>3
    <3> QED
      BY <3>2, <3>4
  <2>2. PICK z : z = sendq[s][1]
    OBVIOUS
  <2>3. z \in Msg
    BY <1>3, <2>1, <2>2
  <2>4. PICK c : c = Size - off[z]
    OBVIOUS
  <2>5. c \in 1 .. Size /\ off[z] + c <= Size /\ off[z] + c = Size
    BY <1>10, <2>3, <2>4, PubQueueAssumption
  <2>6. PICK p : p = Put(stream[s], z, off[z], c)
    OBVIOUS
  <2>7. /\ hits[s] # 0
        /\ p.torn \in {0} \cup cut
        /\ p.torn = 0 => stream[s].torn = 0
        /\ p.torn = 0 /\ off[z] + c = Size => p.at = Boundary /\ p.got = Append(stream[s].got, z)
    <3>1. Single(s) /\ life[s] = "open" /\ sendq[s] # <<>>
      BY <1>2, <1>14
    <3>2. c \in 1 .. Size /\ off[z] + c <= Size
      BY <2>5
    <3>3. /\ Len(sendq[s]) = 1 /\ hits[s] # 0 /\ z \in Msg /\ off[z] \in 0 .. Size - 1
          /\ p.torn \in {0} \cup cut
          /\ p.torn = 0 => stream[s].torn = 0
          /\ p.torn = 0 /\ off[z] + c = Size => p.at = Boundary /\ p.got = Append(stream[s].got, z)
          /\ p.torn = 0 /\ off[z] + c # Size => p.at = <<z, off[z] + c>> /\ p.got = stream[s].got
      <4>1. Continues(s, z, c, p)
        BY <2>2, <2>6 DEF Continues
      <4> QED
        BY <3>1, <3>2, <4>1, KeptWrite
    <3> QED
      BY <3>3
  <2>8. stream'[s] = p
    <3>1. stream' = [stream EXCEPT ![s] = Flushed(s, j)]
      BY <1>3, <2>1 DEF OnWritable
    <3>2. sendq \in [Sock -> Seq(Msg)] /\ 1 <= Len(sendq[s])
      BY <1>1, <1>3, <2>1, TypeParts
    <3>3. Flushed(s, 1) = Put(stream[s], sendq[s][1], off[sendq[s][1]], Size - off[sendq[s][1]])
      BY <1>10, <3>2, FlushedOne
    <3> QED
      BY <1>10, <2>1, <2>2, <2>4, <2>6, <3>1, <3>3
  <2>9. sendq'[s] = <<>> /\ Len(<<>>) = 0
    BY <1>6, <1>7, <2>1
  <2>10. p.torn = 0 => \E i \in Nat : Runs(s, i)'
    <3> SUFFICES ASSUME p.torn = 0 PROVE \E i \in Nat : Runs(s, i)'
      OBVIOUS
    <3>1. PICK i \in Nat : Runs(s, i)
      BY <1>14, <2>7 DEF Single
    <3>2. PICK g \in Seq(Msg) : g = stream[s].got
      BY <1>10 DEF Strm
    <3>3. PICK l, a, u \in Nat : l = Len(g) /\ a = Len(accepted) /\ u = Len(queue)
      BY <1>1, TypeParts
    <3>4. p.got = Append(g, z)
      BY <2>5, <2>7, <3>2
    <3>5. Len(p.got) = l + 1 /\ p.got[l + 1] = z /\ \A x \in 1 .. l : p.got[x] = g[x]
      BY <2>3, <3>3, <3>4, AppendAt
    <3>6. i + l <= a /\ (hits[s] = 1 => i + l + 1 + u = a /\ z = i + l + 1)
      BY <1>2, <1>3, <2>1, <2>2, <3>1, <3>2, <3>3 DEF Runs
    <3>7. ASSUME hits[s] = 1 PROVE Runs(s, i)'
      <4>1. \A x \in 1 .. l + 1 : p.got[x] = i + x
        <5>1. \A x \in 1 .. l : g[x] = i + x
          BY <3>1, <3>2, <3>3 DEF Runs
        <5>2. \A x \in 1 .. l + 1 : x = l + 1 \/ x \in 1 .. l
          OBVIOUS
        <5>3. p.got[l + 1] = i + (l + 1)
          BY <3>5, <3>6, <3>7
        <5>4. \A x \in 1 .. l : p.got[x] = i + x
          BY <3>5, <5>1
        <5> QED
          BY <5>2, <5>3, <5>4
      <4>2. i + (l + 1) <= a /\ i + (l + 1) + 0 + u = a
        BY <3>6, <3>7
      <4> QED
        BY <1>2, <2>8, <2>9, <3>3, <3>5, <4>1, <4>2 DEF Runs
    <3>8. hits[s] = 1
      <4>1. hits[s] \in Nat /\ hits[s] # 0
        BY <1>1, <2>7 DEF TypeInv, Lists
      <4> QED
        BY <1>14, <4>1
    <3> QED
      BY <3>7, <3>8
  <2>11. p.torn = 0 => Begun(s)'
    BY <2>5, <2>7, <2>8, <2>9 DEF Begun
  <2> QED
    BY <1>2, <1>14, <2>7, <2>8, <2>9, <2>10, <2>11 DEF Single
<1>15. Singles'
  BY <1>1, <1>2, <1>13, <1>14 DEF Singles
<1> QED
  BY <1>8, <1>9, <1>15

\* While the job runs no open socket keeps a message, if it is picked once.
LEMMA RunStart ==
  ASSUME OrderInv, ticks > 0
  PROVE  /\ ticks = 1 /\ count = 0 /\ running
         /\ \A s \in Sock : onclose[s] = 0
         /\ \A s \in Sock : Single(s) /\ life[s] = "open" => sendq[s] = <<>>
<1>1. TypeInv
  BY DEF OrderInv
<1>2. ticks = 1 /\ count = 0 /\ running
  BY <1>1 DEF TypeInv, TypeOK
<1>3. \A s \in Sock : onclose[s] = 0
  BY <1>1, <1>2, TypeParts, FreesNone
<1>4. \A s \in Sock : Single(s) /\ life[s] = "open" => sendq[s] = <<>>
  <2>1. ~(0 > 0)
    OBVIOUS
  <2> QED
    BY <1>3, <2>1 DEF Single
<1> QED
  BY <1>2, <1>3, <1>4

\* What is written whole to a socket that is picked once.
LEMMA WholeRun ==
  ASSUME OrderInv, ticks > 0, NEW s \in Sock, Single(s), life[s] = "open", hits[s] = 1,
         NEW k \in 1 .. Len(queue) + 1, NEW st, st = Whole(k)[s]
  PROVE  /\ st \in Strm /\ st.torn = stream[s].torn
         /\ st.torn = 0 => /\ st.at = Boundary
                           /\ \E i \in Nat :
                                /\ \A x \in 1 .. Len(st.got) : st.got[x] = i + x
                                /\ i + Len(st.got) + (Len(queue) - (k - 1)) = Len(accepted)
<1>1. TypeInv /\ Numbered
  BY DEF OrderInv
<1>2. Whole(k) \in [Sock -> Strm]
  BY <1>1, TypeParts, WholeType
<1>3. sendq[s] = <<>>
  BY RunStart
<1>4. PICK t \in DOMAIN Targets : \A u \in DOMAIN Targets : Targets[u] = s <=> u = t
  <2>1. s \in ToSet(conns)
    BY <1>1 DEF TypeInv, Lists
  <2> QED
    BY <1>1, <2>1, TypeParts, TargetOnce
<1>5. /\ Whole(k)[s].at = stream[s].at /\ Whole(k)[s].torn = stream[s].torn
      /\ Whole(k)[s].got \in Seq(Msg) /\ Len(Whole(k)[s].got) = Len(stream[s].got) + (k - 1)
      /\ \A i \in 1 .. Len(stream[s].got) : Whole(k)[s].got[i] = stream[s].got[i]
      /\ \A j \in 1 .. k - 1 : Whole(k)[s].got[Len(stream[s].got) + j] = queue[j]
  BY <1>1, <1>4, TypeParts, WholeOnce
<1>6. ASSUME st.torn = 0
      PROVE  \E i \in Nat :
               /\ \A x \in 1 .. Len(st.got) : st.got[x] = i + x
               /\ i + Len(st.got) + (Len(queue) - (k - 1)) = Len(accepted)
  <2>1. PICK i \in Nat : Runs(s, i)
    BY <1>5, <1>6 DEF Single
  <2>2. PICK a, u \in Nat : a = Len(accepted) /\ u = Len(queue)
    BY <1>1, TypeParts
  <2>3. PICK g \in Seq(Msg) : g = stream[s].got
    <3>1. stream[s] \in Strm
      BY <1>1, TypeParts
    <3> QED
      BY <3>1 DEF Strm
  <2>4. PICK l \in Nat : l = Len(g)
    OBVIOUS
  <2>5. PICK h : h = st.got
    OBVIOUS
  <2>6. /\ Len(h) = l + (k - 1)
        /\ \A x \in 1 .. l : h[x] = g[x]
        /\ \A j \in 1 .. k - 1 : h[l + j] = queue[j]
    BY <1>5, <2>3, <2>4, <2>5
  <2>7. i + l + u = a /\ \A x \in 1 .. l : g[x] = i + x
    <3>1. i + l + Len(sendq[s]) + u = a
      BY <2>1, <2>2, <2>3, <2>4 DEF Runs
    <3>2. Len(sendq[s]) = 0
      BY <1>3
    <3> QED
      BY <2>1, <2>3, <2>4, <3>1, <3>2 DEF Runs
  <2>8. k \in Nat /\ k >= 1 /\ k - 1 <= u
    BY <2>2
  <2>9. ASSUME NEW x \in 1 .. l + (k - 1) PROVE h[x] = i + x
    <3>1. CASE x \in 1 .. l
      BY <2>6, <2>7, <3>1
    <3>2. CASE x \notin 1 .. l
      <4>1. PICK j \in 1 .. k - 1 : x = l + j
        <5>1. x - l \in 1 .. k - 1 /\ x = l + (x - l)
          BY <2>8, <3>2
        <5> QED
          BY <5>1
      <4>2. j \in 1 .. Len(queue)
        BY <2>2, <2>8
      <4>3. queue[j] = a - u + j
        BY <1>1, <2>2, <4>2 DEF Numbered
      <4>4. h[x] = queue[j]
        BY <2>6, <4>1
      <4>5. a - u + j = i + (l + j)
        BY <2>7, <4>1
      <4> QED
        BY <4>1, <4>3, <4>4, <4>5, Zenon
    <3> QED
      BY <3>1, <3>2
  <2>10. i + (l + (k - 1)) + (u - (k - 1)) = a
    BY <2>7, <2>8
  <2> QED
    BY <2>2, <2>5, <2>6, <2>9, <2>10
<1>7. st.torn = 0 => st.at = Boundary
  BY <1>3, <1>5 DEF Single, Begun
<1> QED
  BY <1>2, <1>5, <1>6, <1>7

\* A socket that the message is not for.
LEMMA NotPicked ==
  ASSUME NEW s \in Sock, Single(s), hits[s] \in {0, 1}, ~(life[s] = "open" /\ hits[s] = 1),
         sendq'[s] = sendq[s] /\ stream'[s] = stream[s] /\ life'[s] = life[s] /\ hits'[s] = hits[s],
         UNCHANGED accepted, cut \subseteq cut'
  PROVE  Single(s)'
<1>1. \A i \in Nat : Runs(s, i) => Runs(s, i)'
  BY DEF Runs
<1>2. (\E i \in Nat : Runs(s, i)) => \E i \in Nat : Runs(s, i)'
  BY <1>1
<1>3. Idle(s) => Idle(s)'
  BY DEF Idle
<1>4. life[s] = "open" => Idle(s)
  BY DEF Single
<1>5. life'[s] = "open" => sendq'[s] = <<>> /\ Begun(s)'
  BY <1>3, <1>4 DEF Idle, Begun
<1> QED
  BY <1>2, <1>3, <1>5 DEF Single

LEMMA RunToEndOrder ==
  ASSUME OrderInv, RunToEnd
  PROVE  Numbered' /\ Alone' /\ Singles'
<1>1. /\ ticks > 0 /\ queue' = <<>> /\ stream' = Whole(Len(queue) + 1)
      /\ UNCHANGED <<conns, count, life, hits, sendq, ondrain, onclose, off, accepted, cut>>
  BY DEF RunToEnd, handle
<1>2. TypeInv /\ Numbered /\ Alone /\ Singles
  BY DEF OrderInv
<1>3. PICK a, u \in Nat : a = Len(accepted) /\ u = Len(queue)
  BY <1>2, TypeParts
<1>4. Numbered'
  <2>1. \A s \in Sock : \A j \in 1 .. Len(sendq[s]) : sendq[s][j] <= a
    <3>1. ASSUME NEW s \in Sock, NEW j \in 1 .. Len(sendq[s]) PROVE sendq[s][j] <= a
      <4>1. sendq[s] \in Seq(Msg)
        BY <1>2, TypeParts
      <4>2. sendq[s][j] \in Msg
        BY <4>1
      <4>3. sendq[s][j] <= a - u
        BY <1>2, <1>3 DEF Numbered
      <4> QED
        BY <1>2, <4>2, <4>3, TypeParts DEF Msg
    <3> QED
      BY <3>1
  <2>2. Len(queue') = 0 /\ a - 0 = a /\ 0 <= a
    BY <1>1
  <2> QED
    BY <1>1, <1>2, <1>3, <2>1, <2>2 DEF Numbered
<1>5. Alone'
  BY <1>1, <1>2 DEF Alone
<1>6. u + 1 \in 1 .. Len(queue) + 1
  BY <1>3
<1>7. ASSUME NEW s \in Sock, hits[s] <= 1, Single(s) PROVE Single(s)'
  <2>1. hits[s] \in {0, 1}
    <3>1. hits[s] \in Nat
      BY <1>2 DEF TypeInv, Lists
    <3> QED
      BY <1>7, <3>1
  <2>2. CASE life[s] = "open" /\ hits[s] = 1
    <3>1. PICK k : k = u + 1
      OBVIOUS
    <3>2. k \in 1 .. Len(queue) + 1
      BY <1>6, <3>1
    <3>3. PICK st : st = Whole(k)[s]
      OBVIOUS
    <3>4. /\ st \in Strm /\ st.torn = stream[s].torn
          /\ st.torn = 0 => /\ st.at = Boundary
                            /\ \E i \in Nat :
                                 /\ \A x \in 1 .. Len(st.got) : st.got[x] = i + x
                                 /\ i + Len(st.got) + (Len(queue) - (k - 1)) = Len(accepted)
      BY <1>1, <1>7, <2>2, <3>2, <3>3, WholeRun
    <3>5. stream'[s] = st
      BY <1>1, <1>3, <3>1, <3>3
    <3>6. sendq[s] = <<>> /\ Len(<<>>) = 0
      BY <1>1, <1>7, <2>2, RunStart
    <3>7. ASSUME st.torn = 0 PROVE \E i \in Nat : Runs(s, i)'
      <4>1. PICK i \in Nat : /\ \A x \in 1 .. Len(st.got) : st.got[x] = i + x
                             /\ i + Len(st.got) + (Len(queue) - (k - 1)) = Len(accepted)
        BY <3>4, <3>7
      <4>2. PICK l \in Nat : l = Len(st.got)
        BY <3>4 DEF Strm
      <4>3. i + l <= a /\ i + l + 0 + 0 = a
        <5>1. i + l + (u - (k - 1)) = a /\ k = u + 1
          BY <1>3, <3>1, <4>1, <4>2
        <5> QED
          BY <5>1
      <4>4. Len(queue') = 0
        BY <1>1
      <4>5. Runs(s, i)'
        BY <1>1, <1>3, <3>5, <3>6, <4>1, <4>2, <4>3, <4>4 DEF Runs
      <4> QED
        BY <4>5
    <3>8. st.torn = 0 => Begun(s)'
      BY <1>1, <3>4, <3>5, <3>6 DEF Begun
    <3> QED
      BY <1>1, <1>7, <2>2, <3>4, <3>5, <3>6, <3>7, <3>8 DEF Single
  <2>3. CASE ~(life[s] = "open" /\ hits[s] = 1)
    <3>1. \A t \in DOMAIN Targets : Targets[t] # s
      BY <1>2, <2>1, <2>3, TypeParts, TargetNone
    <3>2. stream'[s] = stream[s]
      BY <1>1, <1>2, <1>3, <1>6, <3>1, TypeParts, WholeNone
    <3> QED
      BY <1>1, <1>7, <2>1, <2>3, <3>2, NotPicked
  <2> QED
    BY <2>2, <2>3
<1>8. Singles'
  BY <1>1, <1>2, <1>7 DEF Singles
<1> QED
  BY <1>4, <1>5, <1>8

\* The _off after a write.
LEMMA OffNext ==
  ASSUME ListType, IsInjective(conns), NEW w \in Writes, NEW i \in 1 .. Len(w), w[i] # Throws
  PROVE  OffAt(w, i + 1) = Moved(OffAt(w, i), w[i])
<1>1. w \in Seq(Int) /\ Len(w) \in Nat
  BY WritesType
<1>2. PICK o : OffSteps(w, o) /\ \A x : OffAt(w, x) = o[x - 1]
  BY <1>1, OffExists
<1>3. o[i] = Moved(o[i - 1], w[i])
  BY <1>2 DEF OffSteps
<1>4. OffAt(w, i + 1) = o[i + 1 - 1] /\ OffAt(w, i) = o[i - 1]
  BY <1>2
<1>5. i + 1 - 1 = i
  OBVIOUS
<1> QED
  BY <1>3, <1>4, <1>5

\* How a cut message leaves a socket that it is not for, or for once.
LEMMA CountsNone ==
  ASSUME NEW w, NEW s, \A i \in DOMAIN w : Targets[i] # s
  PROVE  Waiting(w, s) = 0 /\ Keeping(w, s) = 0 /\ s \notin Failed(w)
<1>1. /\ {i \in DOMAIN w : Targets[i] = s /\ ~Written(w, i)} = {}
      /\ {i \in DOMAIN w : Targets[i] = s /\ ~Written(w, i) /\ w[i] # Throws} = {}
  OBVIOUS
<1>2. s \notin Failed(w)
  BY DEF Failed
<1> QED
  BY <1>1, <1>2, FS_EmptySet DEF Waiting, Keeping

LEMMA CountsOnce ==
  ASSUME NEW w, NEW s, NEW t \in DOMAIN w, \A i \in DOMAIN w : Targets[i] = s <=> i = t
  PROVE  /\ Waiting(w, s) = IF Written(w, t) THEN 0 ELSE 1
         /\ Keeping(w, s) = IF Written(w, t) \/ w[t] = Throws THEN 0 ELSE 1
         /\ s \in Failed(w) <=> w[t] = Throws
<1>1. {i \in DOMAIN w : Targets[i] = s /\ ~Written(w, i)} = IF Written(w, t) THEN {} ELSE {t}
  OBVIOUS
<1>2. {i \in DOMAIN w : Targets[i] = s /\ ~Written(w, i) /\ w[i] # Throws}
        = IF Written(w, t) \/ w[t] = Throws THEN {} ELSE {t}
  OBVIOUS
<1>3. s \in Failed(w) <=> w[t] = Throws
  BY DEF Failed
<1>4. Cardinality({}) = 0 /\ Cardinality({t}) = 1
  BY FS_EmptySet, FS_Singleton
<1> QED
  BY <1>1, <1>2, <1>3, <1>4 DEF Waiting, Keeping

\* What a socket keeps after a cut.
LEMMA KeptAfter ==
  ASSUME OrderInv, NEW k \in DOMAIN queue, NEW w \in Writes, RunUntilCut(k, w), NEW s \in Sock
  PROVE  /\ \A x \in 1 .. Len(sendq'[s]) :
              \/ sendq'[s][x] = queue[k] /\ \E i \in 1 .. Len(w) : Targets[i] = s
              \/ \E y \in 1 .. Len(sendq[s]) : sendq'[s][x] = sendq[s][y]
         /\ Keeping(w, s) = 0 => sendq'[s] = sendq[s]
         /\ Keeping(w, s) = 1 /\ sendq[s] = <<>> => Len(sendq'[s]) = 1 /\ sendq'[s][1] = queue[k]
<1>1. TypeInv
  BY DEF OrderInv
<1>2. queue[k] \in Msg
  BY <1>1, TypeParts
<1>3. PICK c \in Nat : c = Keeping(w, s) /\ (c > 0 => \E i \in 1 .. Len(w) : Targets[i] = s)
  BY <1>1, TypeParts, WaitingType
<1>4. PICK q \in Seq(Msg) : q = sendq[s]
  BY <1>1, TypeParts
<1>5. PICK f : f = [i \in 1 .. c |-> queue[k]]
  OBVIOUS
<1>6. f \in Seq(Msg) /\ Len(f) = c /\ \A i \in 1 .. c : f[i] = queue[k]
  <2>1. f \in [1 .. c -> Msg]
    BY <1>2, <1>5
  <2> QED
    BY <1>5, <2>1, FunctionSeq
<1>7. sendq'[s] = f \o q
  <2>1. sendq' = [u \in Sock |-> [i \in 1 .. Keeping(w, u) |-> queue[k]] \o sendq[u]]
    BY DEF RunUntilCut
  <2> QED
    BY <1>3, <1>4, <1>5, <2>1
<1>8. /\ Len(q) \in Nat
      /\ \A i \in 1 .. c : (f \o q)[i] = queue[k]
      /\ \A i \in 1 .. Len(q) : (f \o q)[c + i] = q[i]
  <2>1. /\ Len(f) \in Nat /\ Len(q) \in Nat
        /\ \A i \in 1 .. Len(f) : (f \o q)[i] = f[i]
        /\ \A i \in 1 .. Len(q) : (f \o q)[Len(f) + i] = q[i]
    <3>1. f \in Seq(Msg) /\ q \in Seq(Msg)
      BY <1>6
    <3> QED
      BY <3>1, ConcatAt
  <2> QED
    BY <1>6, <2>1
<1>9. f \o q \in Seq(Msg) /\ Len(f \o q) = c + Len(q)
  BY <1>6, ConcatType
<1>10. ASSUME NEW x \in 1 .. c + Len(q)
       PROVE  \/ (f \o q)[x] = queue[k] /\ \E i \in 1 .. Len(w) : Targets[i] = s
              \/ \E y \in 1 .. Len(q) : (f \o q)[x] = q[y]
  <2>1. CASE x \in 1 .. c
    <3>1. c > 0
      BY <2>1
    <3>2. (f \o q)[x] = queue[k]
      BY <1>8, <2>1
    <3> QED
      BY <1>3, <3>1, <3>2
  <2>2. CASE x \notin 1 .. c
    <3>1. x - c \in 1 .. Len(q) /\ x = c + (x - c)
      BY <1>8, <2>2
    <3>2. (f \o q)[x] = q[x - c]
      BY <1>8, <3>1
    <3> QED
      BY <3>1, <3>2
  <2> QED
    BY <2>1, <2>2
<1>11. c = 0 => f \o q = q
  <2>1. c = 0 => f = <<>>
    BY <1>6
  <2>2. <<>> \o q = q
    BY ConcatAssoc
  <2> QED
    BY <2>1, <2>2
<1>12. c = 1 /\ q = <<>> => Len(f \o q) = 1 /\ (f \o q)[1] = queue[k]
  <2> SUFFICES ASSUME c = 1, q = <<>> PROVE Len(f \o q) = 1 /\ (f \o q)[1] = queue[k]
    OBVIOUS
  <2>1. Len(q) = 0 /\ 1 + 0 = 1
    OBVIOUS
  <2>2. 1 \in 1 .. c
    OBVIOUS
  <2> QED
    BY <1>8, <1>9, <2>1, <2>2
<1> QED
  BY <1>3, <1>4, <1>7, <1>9, <1>10, <1>11, <1>12

\* A cut leaves the messages numbered.
LEMMA CutNumbered ==
  ASSUME OrderInv, NEW k \in DOMAIN queue, NEW w \in Writes, RunUntilCut(k, w)
  PROVE  /\ Numbered' /\ Len(queue') = Len(queue) - k
         /\ k \in 1 .. Len(queue) /\ queue[k] = Len(accepted) - Len(queue) + k /\ queue[k] \in Msg
<1>1. TypeInv /\ Numbered
  BY DEF OrderInv
<1>2. PICK a, u \in Nat : a = Len(accepted) /\ u = Len(queue)
  BY <1>1, TypeParts
<1>3. k \in 1 .. u /\ queue[k] \in Msg
  BY <1>1, <1>2, TypeParts
<1>4. queue[k] = a - u + k /\ u <= a
  BY <1>1, <1>2, <1>3 DEF Numbered
<1>5. queue' = SubSeq(queue, k + 1, Len(queue)) /\ UNCHANGED accepted
  BY DEF RunUntilCut
<1>6. Len(queue') = u - k /\ \A j \in 1 .. u - k : queue'[j] = queue[k + j] /\ k + j \in 1 .. u
  <2>1. queue \in Seq(Msg)
    BY <1>1, TypeParts
  <2> QED
    BY <1>2, <1>3, <1>5, <2>1
<1>7. \A j \in 1 .. u - k : queue'[j] = a - (u - k) + j
  <2> TAKE j \in 1 .. u - k
  <2>1. queue[k + j] = a - u + (k + j)
    BY <1>1, <1>2, <1>6 DEF Numbered
  <2> QED
    BY <1>3, <1>6, <2>1
<1>8. u - k <= a
  BY <1>3, <1>4
<1>9. ASSUME NEW s \in Sock, NEW x \in 1 .. Len(sendq'[s]) PROVE sendq'[s][x] <= a - (u - k)
  <2>1. CASE sendq'[s][x] = queue[k]
    BY <1>3, <1>4, <2>1
  <2>2. CASE \E y \in 1 .. Len(sendq[s]) : sendq'[s][x] = sendq[s][y]
    <3>1. PICK y \in 1 .. Len(sendq[s]) : sendq'[s][x] = sendq[s][y]
      BY <2>2
    <3>2. sendq[s][y] \in Msg
      <4>1. sendq[s] \in Seq(Msg)
        BY <1>1, TypeParts
      <4> QED
        BY <4>1
    <3>3. sendq[s][y] <= a - u
      BY <1>1, <1>2 DEF Numbered
    <3>4. PICK v \in Int : v = sendq[s][y]
      BY <1>1, <3>2, TypeParts DEF Msg
    <3>5. v <= a - (u - k)
      BY <1>3, <3>3, <3>4
    <3> QED
      BY <3>1, <3>4, <3>5
  <2> QED
    BY <2>1, <2>2, KeptAfter
<1>10. Numbered'
  BY <1>1, <1>2, <1>5, <1>6, <1>7, <1>8, <1>9 DEF Numbered
<1> QED
  BY <1>2, <1>3, <1>4, <1>6, <1>10

\* A cut leaves a message with one socket, unless it is among the cut ones.
LEMMA CutAlone ==
  ASSUME OrderInv, NEW k \in DOMAIN queue, NEW w \in Writes, RunUntilCut(k, w)
  PROVE  Alone'
<1>1. TypeInv /\ Numbered /\ Alone
  BY DEF OrderInv
<1>2. cut' = IF Len(Targets) > 1 THEN cut \cup {queue[k]} ELSE cut
  BY DEF RunUntilCut
<1>3. k \in 1 .. Len(queue) /\ queue[k] = Len(accepted) - Len(queue) + k /\ queue[k] \in Msg
  BY CutNumbered
<1>4. ASSUME NEW s \in Sock, NEW y \in 1 .. Len(sendq[s]) PROVE sendq[s][y] # queue[k]
  <2>1. PICK a, u \in Nat : a = Len(accepted) /\ u = Len(queue)
    BY <1>1, TypeParts
  <2>2. sendq[s][y] <= a - u
    BY <1>1, <2>1 DEF Numbered
  <2>3. queue[k] = a - u + k /\ k \in Nat /\ k >= 1
    BY <1>3, <2>1
  <2>4. ~(a - u + k <= a - u)
    BY <2>3
  <2> QED
    BY <2>2, <2>3, <2>4
<1>5. Len(w) = Len(Targets) /\ Len(w) \in Nat
  BY <1>1, TypeParts, WritesType
<1> SUFFICES ASSUME NEW s \in Sock, NEW t \in Sock,
                    NEW x \in 1 .. Len(sendq'[s]), NEW l \in 1 .. Len(sendq'[t]),
                    s # t, sendq'[s][x] = sendq'[t][l]
             PROVE  sendq'[s][x] \in cut'
  BY DEF Alone
<1>6. \/ sendq'[s][x] = queue[k] /\ \E i \in 1 .. Len(w) : Targets[i] = s
      \/ \E y \in 1 .. Len(sendq[s]) : sendq'[s][x] = sendq[s][y]
  BY KeptAfter
<1>7. \/ sendq'[t][l] = queue[k] /\ \E i \in 1 .. Len(w) : Targets[i] = t
      \/ \E y \in 1 .. Len(sendq[t]) : sendq'[t][l] = sendq[t][y]
  BY KeptAfter
<1>8. CASE sendq'[s][x] = queue[k]
  <2>1. PICK i \in 1 .. Len(w) : Targets[i] = s
    BY <1>4, <1>6, <1>8
  <2>2. PICK j \in 1 .. Len(w) : Targets[j] = t
    BY <1>4, <1>7, <1>8
  <2>3. i # j
    BY <2>1, <2>2
  <2>4. Len(Targets) > 1
    BY <1>5, <2>3
  <2> QED
    BY <1>2, <1>8, <2>4
<1>9. CASE sendq'[s][x] # queue[k]
  <2>1. PICK y \in 1 .. Len(sendq[s]) : sendq'[s][x] = sendq[s][y]
    BY <1>6, <1>9
  <2>2. PICK z \in 1 .. Len(sendq[t]) : sendq'[t][l] = sendq[t][z]
    BY <1>7, <1>9
  <2>3. sendq[s][y] \in cut
    BY <1>1, <2>1, <2>2 DEF Alone
  <2> QED
    BY <1>2, <2>1, <2>3
<1> QED
  BY <1>8, <1>9

\* A socket that a cut message is not for.
LEMMA CutOther ==
  ASSUME OrderInv, NEW k \in DOMAIN queue, NEW w \in Writes, RunUntilCut(k, w),
         NEW s \in Sock, Single(s), hits[s] \in {0, 1}, ~(life[s] = "open" /\ hits[s] = 1)
  PROVE  Single(s)' /\ life'[s] = life[s]
<1>1. TypeInv
  BY DEF OrderInv
<1>2. /\ life' = [u \in Sock |-> IF u \in Failed(w) THEN "closing" ELSE life[u]]
      /\ stream' = Streams(Whole(k), queue[k], w)
      /\ cut' = IF Len(Targets) > 1 THEN cut \cup {queue[k]} ELSE cut
      /\ UNCHANGED <<conns, running, hits, accepted>>
  BY DEF RunUntilCut
<1>3. \A t \in DOMAIN Targets : Targets[t] # s
  BY <1>1, TypeParts, TargetNone
<1>4. Len(w) \in Nat /\ DOMAIN w = 1 .. Len(w) /\ DOMAIN Targets = 1 .. Len(w)
  BY <1>1, TypeParts, WritesType
<1>5. Waiting(w, s) = 0 /\ Keeping(w, s) = 0 /\ s \notin Failed(w)
  BY <1>3, <1>4, CountsNone
<1>6. sendq'[s] = sendq[s]
  BY <1>5, KeptAfter
<1>7. life'[s] = life[s]
  BY <1>2, <1>5
<1>8. k \in 1 .. Len(queue) + 1 /\ queue[k] \in Msg
  <2>1. Len(queue) \in Nat
    BY <1>1, TypeParts
  <2> QED
    BY <2>1, CutNumbered
<1>9. Whole(k) \in [Sock -> Strm] /\ Whole(k)[s] = stream[s]
  BY <1>1, <1>3, <1>8, TypeParts, WholeType, WholeNone
<1>10. stream'[s] = stream[s]
  <2>1. PICK t : t = Len(w) + 1
    OBVIOUS
  <2>2. t \in 1 .. Len(w) + 1 /\ t \notin 1 .. Len(w) /\ \A i \in 1 .. Len(w) : Targets[i] = s => i = t
    BY <1>3, <1>4, <2>1
  <2>3. PICK st : st = Whole(k)
    OBVIOUS
  <2>4. st \in [Sock -> Strm]
    BY <1>9, <2>3
  <2>5. Streams(st, queue[k], w)[s] =
          IF t \in 1 .. Len(w) /\ Targets[t] = s /\ w[t] # Throws
          THEN Put(st[s], queue[k], OffAt(w, t), w[t]) ELSE st[s]
    <3>1. ListType /\ IsInjective(conns) /\ queue[k] \in Msg
      BY <1>1, <1>8, TypeParts
    <3> QED
      BY <2>2, <2>4, <3>1, StreamsAt, Zenon
  <2> QED
    BY <1>2, <1>9, <2>2, <2>3, <2>5
<1>11. Single(s)'
  BY <1>2, <1>6, <1>7, <1>10, NotPicked
<1> QED
  BY <1>7, <1>11

\* A socket that a cut message is for once: the job writes behind its queue,
\* that is empty, and where the message was cut by others it may be torn.
LEMMA CutPicked ==
  ASSUME OrderInv, NEW k \in DOMAIN queue, NEW w \in Writes, RunUntilCut(k, w),
         NEW s \in Sock, Single(s), life[s] = "open", hits[s] = 1
  PROVE  Single(s)' /\ life'[s] # "new"
<1>1. TypeInv
  BY DEF OrderInv
<1>2. /\ ticks > 0 /\ Pushed(w)
      /\ life' = [u \in Sock |-> IF u \in Failed(w) THEN "closing" ELSE life[u]]
      /\ off' = [off EXCEPT ![queue[k]] = OffAt(w, Len(w) + 1)]
      /\ stream' = Streams(Whole(k), queue[k], w)
      /\ cut' = IF Len(Targets) > 1 THEN cut \cup {queue[k]} ELSE cut
      /\ UNCHANGED <<conns, running, hits, accepted>>
  BY DEF RunUntilCut
<1>3. PICK n \in Nat : n = Len(w) /\ n = Len(Targets) /\ DOMAIN w = 1 .. n /\ DOMAIN Targets = 1 .. n
  BY <1>1, TypeParts, WritesType
<1>4. PICK t \in 1 .. n : \A i \in 1 .. n : Targets[i] = s <=> i = t
  <2>1. s \in ToSet(conns)
    BY <1>1 DEF TypeInv, Lists
  <2>2. \E t \in DOMAIN Targets : \A i \in DOMAIN Targets : Targets[i] = s <=> i = t
    BY <1>1, <2>1, TypeParts, TargetOnce
  <2>3. PICK t \in DOMAIN Targets : \A i \in DOMAIN Targets : Targets[i] = s <=> i = t
    BY <2>2
  <2>4. t \in 1 .. n /\ \A i \in 1 .. n : Targets[i] = s <=> i = t
    BY <1>3, <2>3
  <2> QED
    BY <2>4
<1>5. PICK m \in Msg : m = queue[k]
  BY CutNumbered
<1>6. PICK a, u \in Nat : a = Len(accepted) /\ u = Len(queue)
  BY <1>1, TypeParts
<1>7. k \in 1 .. u /\ m = a - u + k /\ Len(queue') = u - k /\ k \in 1 .. Len(queue) + 1
  BY <1>5, <1>6, CutNumbered
<1>8. /\ Waiting(w, s) = IF Written(w, t) THEN 0 ELSE 1
      /\ Keeping(w, s) = IF Written(w, t) \/ w[t] = Throws THEN 0 ELSE 1
      /\ s \in Failed(w) <=> w[t] = Throws
  <2>1. t \in DOMAIN w /\ \A i \in DOMAIN w : Targets[i] = s <=> i = t
    BY <1>3, <1>4
  <2> QED
    BY <2>1, CountsOnce, Zenon
<1>9. sendq[s] = <<>> /\ onclose[s] = 0
  BY <1>2, RunStart
<1>10. PICK st : st = Whole(k)[s]
  OBVIOUS
<1>11. /\ st \in Strm /\ st.torn = stream[s].torn
       /\ st.torn = 0 => /\ st.at = Boundary
                         /\ \E i \in Nat :
                              /\ \A x \in 1 .. Len(st.got) : st.got[x] = i + x
                              /\ i + Len(st.got) + (Len(queue) - (k - 1)) = Len(accepted)
  BY <1>2, <1>7, <1>10, WholeRun
<1>12. st.torn \in {0} \cup cut /\ cut \subseteq cut'
  BY <1>2, <1>11 DEF Single
<1>13. PICK l \in Nat : l = Len(st.got) /\ st.got \in Seq(Msg)
  BY <1>11 DEF Strm
<1>14. PICK i \in Nat : st.torn = 0 => (\A x \in 1 .. l : st.got[x] = i + x) /\ i + l + 1 = m
  <2>1. CASE st.torn = 0
    <3>1. PICK i \in Nat : /\ \A x \in 1 .. l : st.got[x] = i + x
                           /\ i + l + (u - (k - 1)) = a
      BY <1>6, <1>11, <1>13, <2>1
    <3>2. i + l + 1 = m
      BY <1>7, <3>1
    <3> QED
      BY <3>1, <3>2
  <2>2. CASE st.torn # 0
    <3>1. 0 \in Nat
      OBVIOUS
    <3> QED
      BY <2>2, <3>1
  <2> QED
    BY <2>1, <2>2
<1>15. PICK o : o = OffAt(w, t)
  OBVIOUS
<1>16. /\ o \in 0 .. Size - 1 /\ w[t] \in Int /\ w[t] <= Size /\ o + w[t] <= Size
       /\ w[t] # Throws => w[t] >= 0
       /\ t = 1 => o = 0
  <2>1. t \in 1 .. Len(w) /\ t \in 1 .. Len(w) + 1
    BY <1>3
  <2> QED
    BY <1>1, <1>15, <2>1, TypeParts, WritesType, OffRange
<1>17. PICK p : p = IF w[t] # Throws THEN Put(st, m, o, w[t]) ELSE st
  OBVIOUS
<1>18. stream'[s] = p
  <2>1. PICK z : z = Whole(k)
    OBVIOUS
  <2>2. z \in [Sock -> Strm]
    BY <1>1, <1>7, <2>1, TypeParts, WholeType
  <2>3. t \in 1 .. Len(w) + 1 /\ t \in 1 .. Len(w) /\ \A x \in 1 .. Len(w) : Targets[x] = s => x = t
    BY <1>3, <1>4
  <2>4. Streams(z, m, w)[s] =
          IF t \in 1 .. Len(w) /\ Targets[t] = s /\ w[t] # Throws
          THEN Put(z[s], m, OffAt(w, t), w[t]) ELSE z[s]
    <3>1. ListType /\ IsInjective(conns)
      BY <1>1, TypeParts
    <3> QED
      BY <2>2, <2>3, <3>1, StreamsAt, Zenon
  <2>5. Targets[t] = s
    BY <1>4
  <2> QED
    BY <1>2, <1>5, <1>10, <1>15, <1>17, <2>1, <2>3, <2>4, <2>5
<1>19. sendq'[s] = IF Written(w, t) \/ w[t] = Throws THEN <<>> ELSE sendq'[s]
  BY <1>8, <1>9, KeptAfter
<1>20. ~Written(w, t) /\ w[t] # Throws => Len(sendq'[s]) = 1 /\ sendq'[s][1] = m /\ onclose'[s] > 0
  <2> SUFFICES ASSUME ~Written(w, t), w[t] # Throws
               PROVE  Len(sendq'[s]) = 1 /\ sendq'[s][1] = m /\ onclose'[s] > 0
    OBVIOUS
  <2>1. Keeping(w, s) = 1 /\ Waiting(w, s) = 1
    BY <1>8
  <2>2. onclose'[s] = onclose[s] + Waiting(w, s)
    BY <1>2 DEF Pushed
  <2>3. onclose'[s] > 0
    BY <1>9, <2>1, <2>2
  <2> QED
    BY <1>5, <1>9, <2>1, <2>3, KeptAfter
<1>21. hits'[s] = 1 /\ life'[s] = IF w[t] = Throws THEN "closing" ELSE "open"
  BY <1>2, <1>8
<1>22. m \in cut' \/ (n = 1 /\ t = 1 /\ o = 0)
  <2>1. n > 1 => m \in cut'
    BY <1>2, <1>3, <1>5
  <2>2. n = 1 \/ n > 1
    OBVIOUS
  <2>3. n = 1 => t = 1
    OBVIOUS
  <2> QED
    BY <1>16, <2>1, <2>2, <2>3
<1>23. ASSUME w[t] # Throws
       PROVE  /\ p.torn \in {0} \cup cut'
              /\ p.torn = 0 => st.torn = 0
              /\ p.torn = 0 /\ w[t] = 0 => p.at = st.at /\ p.got = st.got
              /\ p.torn = 0 /\ w[t] # 0 /\ o + w[t] = Size => p.at = Boundary /\ p.got = Append(st.got, m)
              /\ p.torn = 0 /\ w[t] # 0 /\ o + w[t] # Size => p.at = <<m, o + w[t]>> /\ p.got = st.got
  <2>1. PICK c \in 0 .. Size : c = w[t]
    BY <1>16, <1>23, PubQueueAssumption
  <2>2. o \in 0 .. Size - 1 /\ o + c <= Size /\ p = Put(st, m, o, c)
    BY <1>16, <1>17, <1>23, <2>1
  <2>3. /\ p.torn = st.torn \/ p.torn = m
        /\ st.torn # 0 => p.torn = st.torn
        /\ st.torn = 0 /\ (st.at = <<m, o>> \/ (st.at = Boundary /\ o = 0)) => p.torn = 0
        /\ p.torn = 0 => st.torn = 0
        /\ p.torn = 0 /\ c = 0 => p.at = st.at /\ p.got = st.got
        /\ p.torn = 0 /\ c # 0 /\ o + c = Size => p.at = Boundary /\ p.got = Append(st.got, m)
        /\ p.torn = 0 /\ c # 0 /\ o + c # Size => p.at = <<m, o + c>> /\ p.got = st.got
    <3>1. st \in Strm
      BY <1>11
    <3> QED
      BY <2>2, <3>1, PutAt
  <2>4. p.torn \in {0} \cup cut'
    BY <1>11, <1>12, <1>22, <2>3
  <2> QED
    BY <2>1, <2>3, <2>4
<1>24. CASE w[t] = Throws
  <2>1. stream'[s] = st /\ life'[s] = "closing" /\ sendq'[s] = <<>> /\ Len(<<>>) = 0
    BY <1>17, <1>18, <1>19, <1>21, <1>24
  <2>2. i + l + 1 = m => i + l <= a
    BY <1>6, <1>7
  <2>3. st.torn = 0 => Runs(s, i)'
    BY <1>2, <1>6, <1>13, <1>14, <2>1, <2>2 DEF Runs
  <2>4. st.torn = 0 => \E x \in Nat : Runs(s, x)'
    BY <2>3
  <2> QED
    BY <1>12, <1>21, <2>1, <2>4 DEF Single
<1>25. CASE Written(w, t) /\ w[t] # Throws
  <2>1. sendq'[s] = <<>> /\ Len(<<>>) = 0 /\ life'[s] = "open"
    BY <1>19, <1>21, <1>25
  <2>2. o + w[t] = Size /\ w[t] # 0
    <3>1. o + w[t] = Size
      BY <1>15, <1>25 DEF Written
    <3> QED
      BY <1>16, <3>1
  <2>3. p.torn = 0 => st.torn = 0 /\ p.at = Boundary /\ p.got = Append(st.got, m)
    BY <1>23, <1>25, <2>2
  <2>4. ASSUME p.torn = 0 PROVE Runs(s, i)'
    <3>1. Len(p.got) = l + 1 /\ p.got[l + 1] = m /\ \A x \in 1 .. l : p.got[x] = st.got[x]
      BY <1>13, <2>3, <2>4, AppendAt
    <3>2. (\A x \in 1 .. l : st.got[x] = i + x) /\ i + l + 1 = m
      BY <1>14, <2>3, <2>4
    <3>3. \A x \in 1 .. l + 1 : p.got[x] = i + x
      <4>1. \A x \in 1 .. l + 1 : x = l + 1 \/ x \in 1 .. l
        OBVIOUS
      <4>2. p.got[l + 1] = i + (l + 1)
        BY <3>1, <3>2
      <4>3. \A x \in 1 .. l : p.got[x] = i + x
        BY <3>1, <3>2
      <4> QED
        BY <4>1, <4>2, <4>3
    <3>4. i + (l + 1) <= a /\ i + (l + 1) + 0 + (u - k) = a
      BY <1>7, <3>2
    <3> QED
      BY <1>2, <1>6, <1>7, <1>18, <2>1, <3>1, <3>3, <3>4 DEF Runs
  <2>5. p.torn = 0 => \E x \in Nat : Runs(s, x)'
    BY <2>4
  <2>6. p.torn = 0 => Begun(s)'
    BY <1>18, <2>1, <2>3 DEF Begun
  <2> QED
    BY <1>18, <1>21, <1>23, <1>25, <2>1, <2>5, <2>6 DEF Single
<1>26. CASE ~Written(w, t) /\ w[t] # Throws
  <2>1. Len(sendq'[s]) = 1 /\ sendq'[s][1] = m /\ onclose'[s] > 0 /\ life'[s] = "open" /\ sendq'[s] # <<>>
    <3>1. Len(<<>>) = 0
      OBVIOUS
    <3> QED
      BY <1>20, <1>21, <1>26, <3>1
  <2>2. o + w[t] # Size
    BY <1>15, <1>26 DEF Written
  <2>3. p.torn = 0 => st.torn = 0 /\ p.got = st.got /\ p.at = (IF w[t] = 0 THEN st.at ELSE <<m, o + w[t]>>)
    BY <1>23, <1>26, <2>2
  <2>4. ASSUME p.torn = 0 PROVE Runs(s, i)'
    <3>1. (\A x \in 1 .. l : st.got[x] = i + x) /\ i + l + 1 = m
      BY <1>14, <2>3, <2>4
    <3>2. i + l <= a /\ i + l + 1 + (u - k) = a
      BY <1>7, <3>1, SMTT(30)
    <3> QED
      BY <1>2, <1>6, <1>7, <1>13, <1>18, <2>1, <2>3, <2>4, <3>1, <3>2 DEF Runs
  <2>5. p.torn = 0 => \E x \in Nat : Runs(s, x)'
    BY <2>4
  <2>6. ASSUME p.torn = 0, m \notin cut'
        PROVE  stream'[s].at = IF off'[m] = 0 THEN Boundary ELSE <<m, off'[m]>>
    <3>1. n = 1 /\ t = 1 /\ o = 0
      BY <1>22, <2>6
    <3>2. OffAt(w, 1 + 1) = Moved(OffAt(w, 1), w[1])
      <4>1. 1 \in 1 .. Len(w) /\ w[1] # Throws
        BY <1>3, <1>26, <3>1
      <4> QED
        BY <1>1, <4>1, TypeParts, OffNext
    <3>3. OffAt(w, Len(w) + 1) = w[t]
      <4>1. OffAt(w, 1) = 0 /\ 0 + w[1] # Size /\ 0 + w[1] = w[1]
        BY <1>15, <1>16, <2>2, <3>1
      <4> QED
        BY <1>3, <3>1, <3>2, <4>1 DEF Moved
    <3>4. off'[m] = w[t]
      BY <1>1, <1>2, <1>5, <3>3, TypeParts
    <3>5. o + w[t] = w[t]
      BY <1>16, <3>1
    <3>6. st.at = Boundary
      BY <1>11, <2>3, <2>6
    <3> QED
      BY <1>18, <2>3, <2>6, <3>4, <3>5, <3>6
  <2>7. p.torn = 0 => Begun(s)'
    BY <1>18, <2>1, <2>6 DEF Begun
  <2> QED
    BY <1>18, <1>21, <1>23, <1>26, <2>1, <2>5, <2>7 DEF Single
<1>27. life'[s] # "new"
  BY <1>21
<1> QED
  BY <1>24, <1>25, <1>26, <1>27

LEMMA RunUntilCutOrder ==
  ASSUME OrderInv, NEW k \in DOMAIN queue, NEW w \in Writes, RunUntilCut(k, w)
  PROVE  Numbered' /\ Alone' /\ Singles'
<1>1. Numbered' /\ Alone'
  BY CutNumbered, CutAlone
<1>2. TypeInv /\ Singles /\ UNCHANGED hits
  BY DEF OrderInv, RunUntilCut
<1>3. ASSUME NEW s \in Sock, hits[s] <= 1 PROVE Single(s)' /\ (life'[s] = "new" => life[s] = "new")
  <2>1. Single(s)
    BY <1>2, <1>3 DEF Singles
  <2>2. hits[s] \in {0, 1}
    <3>1. hits[s] \in Nat
      BY <1>2 DEF TypeInv, Lists
    <3> QED
      BY <1>3, <3>1
  <2>3. CASE life[s] = "open" /\ hits[s] = 1
    BY <2>1, <2>3, CutPicked
  <2>4. CASE ~(life[s] = "open" /\ hits[s] = 1)
    BY <2>1, <2>2, <2>4, CutOther
  <2> QED
    BY <2>3, <2>4
<1>4. ASSUME NEW s \in Sock, life'[s] = "new" PROVE life[s] = "new"
  <2>1. life' = [u \in Sock |-> IF u \in Failed(w) THEN "closing" ELSE life[u]]
    BY DEF RunUntilCut
  <2> QED
    BY <1>4, <2>1
<1>5. Singles'
  BY <1>2, <1>3, <1>4 DEF Singles
<1> QED
  BY <1>1, <1>5

LEMMA OrderStep ==
  ASSUME OrderInv, [Next]_vars
  PROVE  OrderInv'
<1>1. TypeInv'
  BY TypeStep DEF OrderInv
<1>2. CASE UNCHANGED vars
  <2>1. UNCHANGED <<conns, queue, running, ticks, count, life, hits, sendq, ondrain, onclose, off,
                    accepted, stream, cut>>
    BY <1>2 DEF vars, channel, handle
  <2>2. ASSUME NEW s \in Sock, Single(s) PROVE Single(s)'
    BY <2>1, <2>2 DEF Single, Runs, Begun, Idle
  <2>3. Numbered' /\ Alone'
    BY <2>1 DEF OrderInv, Numbered, Alone
  <2>4. Singles'
    BY <2>1, <2>2 DEF OrderInv, Singles
  <2> QED
    BY <1>1, <2>3, <2>4 DEF OrderInv
<1>3. ASSUME NEW m \in Msg, SendMsg(m) PROVE OrderInv'
  BY <1>1, <1>3, SendMsgOrder DEF OrderInv
<1>4. ASSUME Run PROVE OrderInv'
  <2>1. CASE RunToEnd
    BY <1>1, <2>1, RunToEndOrder DEF OrderInv
  <2>2. ASSUME NEW k \in DOMAIN queue, NEW w \in Writes, RunUntilCut(k, w) PROVE OrderInv'
    BY <1>1, <2>2, RunUntilCutOrder DEF OrderInv
  <2> QED
    BY <1>4, <2>1, <2>2 DEF Run
<1>5. ASSUME NEW s \in Sock, Attach(s) \/ Drain(s) \/ Destroy(s) \/ OnClose(s) PROVE OrderInv'
  <2>1. CASE Attach(s)
    BY <1>1, <2>1, AttachOrder DEF OrderInv
  <2>2. CASE Destroy(s)
    BY <1>1, <2>2, DestroyOrder DEF OrderInv
  <2>3. CASE OnClose(s)
    BY <1>1, <2>3, OnCloseOrder DEF OrderInv
  <2>4. CASE Drain(s)
    <3>1. PICK j \in 1 .. Len(sendq[s]) : \E n \in 0 .. Size : OnWritable(s, j, n)
      BY <2>4 DEF Drain
    <3> QED
      BY <1>1, <3>1, OnWritableOrder DEF OrderInv
  <2> QED
    BY <1>5, <2>1, <2>2, <2>3, <2>4
<1>6. ASSUME NEW s \in Sock, NEW n \in 1 .. Size, OnWritablePart(s, n) PROVE OrderInv'
  BY <1>1, <1>6, OnWritablePartOrder DEF OrderInv
<1> QED
  BY <1>2, <1>3, <1>4, <1>5, <1>6 DEF Next

\* InOrder: a socket that is picked once at most gets a run of the channel's
\* messages, whole, each once and in order, unless a message for several of
\* them was cut.
THEOREM InOrderCorrect == Spec => []InOrder
<1>1. Init => OrderInv
  BY TypeStart, OrderStart DEF OrderInv
<1>2. OrderInv /\ [Next]_vars => OrderInv'
  BY OrderStep
<1>3. OrderInv => InOrder
  BY OrderInvInOrder
<1> QED
  BY <1>1, <1>2, <1>3, PTL DEF Spec
=============================================================================
