----------------------------- MODULE Worker_proof -----------------------------
(***************************************************************************)
(* Proofs about Worker and the socket it is (DirectReq), for any requests, *)
(* handlers, slots, options and processes.                                 *)
(***************************************************************************)
EXTENDS Worker, SequenceLemmas

-----------------------------------------------------------------------------
(* The begin of a flush                                                    *)

\* The acks and the pool before each message of q, and after the last.
Gives(q, f, k) == \A i \in 0 .. k :
  f[i] = IF i = 0 THEN [ack |-> ack, pool |-> pool] ELSE Given(f[i - 1], q[i])

LEMMA GivesExtended ==
  ASSUME NEW q, NEW k \in Nat \ {0}, NEW f, Gives(q, f, k - 1)
  PROVE  \E g : g = [i \in 0 .. k |-> g[i]] /\ Gives(q, g, k)
<1>1. PICK g : g = [i \in 0 .. k |-> IF i = k THEN Given(f[k - 1], q[k]) ELSE f[i]]
  OBVIOUS
<1>2. g = [i \in 0 .. k |-> g[i]]
  BY <1>1
<1>3. \A i \in 0 .. k - 1 : g[i] = f[i]
  <2>1. \A i \in 0 .. k - 1 : i \in 0 .. k /\ i # k
    OBVIOUS
  <2> QED
    BY <1>1, <2>1
<1>4. g[k] = Given(f[k - 1], q[k])
  BY <1>1
<1>5. ASSUME NEW i \in 0 .. k
      PROVE  g[i] = IF i = 0 THEN [ack |-> ack, pool |-> pool] ELSE Given(g[i - 1], q[i])
  <2>1. CASE i = k
    <3>1. k - 1 \in 0 .. k - 1
      OBVIOUS
    <3> QED
      BY <2>1, <3>1, <1>3, <1>4
  <2>2. CASE i # k
    <3>1. i \in 0 .. k - 1 /\ (i # 0 => i - 1 \in 0 .. k - 1)
      BY <2>2
    <3>2. f[i] = IF i = 0 THEN [ack |-> ack, pool |-> pool] ELSE Given(f[i - 1], q[i])
      BY <3>1 DEF Gives
    <3> QED
      BY <3>1, <3>2, <1>3
  <2> QED
    BY <2>1, <2>2
<1> QED
  BY <1>2, <1>5 DEF Gives

\* The function that Begin chooses exists.
LEMMA GivesExists ==
  ASSUME NEW q, NEW n \in Nat
  PROVE  \E f : f = [i \in 0 .. n |-> f[i]] /\ Gives(q, f, n)
<1> DEFINE Given0(k) == \E f : f = [i \in 0 .. k |-> f[i]] /\ Gives(q, f, k)
           T == {k \in Nat : ~Given0(k)}
<1>1. Given0(0)
  <2>1. PICK f : f = [i \in 0 .. 0 |-> [ack |-> ack, pool |-> pool]]
    OBVIOUS
  <2>2. f = [i \in 0 .. 0 |-> f[i]] /\ \A i \in 0 .. 0 : i = 0 /\ f[i] = [ack |-> ack, pool |-> pool]
    BY <2>1
  <2> QED
    BY <2>2 DEF Gives
<1>2. ASSUME NEW k \in Nat \ {0}, Given0(k - 1) PROVE Given0(k)
  BY <1>2, GivesExtended
<1> HIDE DEF Given0
<1>3. ASSUME T # {} PROVE FALSE
  <2>1. T \in SUBSET Nat
    OBVIOUS
  <2> HIDE DEF T
  <2>2. PICK k \in T : \A y \in T : k <= y
    BY <1>3, <2>1, LeastNatural
  <2>3. k \in Nat /\ ~Given0(k)
    BY <2>2 DEF T
  <2>4. k # 0
    BY <1>1, <2>3
  <2>5. k - 1 \notin T /\ k - 1 \in Nat
    BY <2>2, <2>3, <2>4
  <2>6. Given0(k - 1)
    BY <2>5 DEF T
  <2> QED
    BY <1>2, <2>3, <2>4, <2>6
<1>4. Given0(n)
  BY <1>3
<1> QED
  BY <1>4 DEF Given0

LEMMA BeginGives ==
  ASSUME NEW q, Len(q) \in Nat
  PROVE  \E f : Gives(q, f, Len(q)) /\ Begin(q) = f[Len(q)]
<1> DEFINE J(f) == f = [i \in 0 .. Len(q) |->
                          IF i = 0 THEN [ack |-> ack, pool |-> pool] ELSE Given(f[i - 1], q[i])]
<1>1. PICK g : g = [i \in 0 .. Len(q) |-> g[i]] /\ Gives(q, g, Len(q))
  BY GivesExists
<1>2. J(g)
  BY <1>1 DEF Gives
<1>3. PICK f : f = CHOOSE h : J(h)
  OBVIOUS
<1>4. J(f)
  <2> HIDE DEF J
  <2> QED BY <1>2, <1>3
<1>5. Begin(q) = f[Len(q)]
  BY <1>3 DEF Begin
<1>6. Gives(q, f, Len(q))
  <2>1. \A i \in 0 .. Len(q) :
          f[i] = IF i = 0 THEN [ack |-> ack, pool |-> pool] ELSE Given(f[i - 1], q[i])
    BY <1>4, Zenon
  <2> QED
    BY <2>1 DEF Gives
<1> QED
  BY <1>5, <1>6

-----------------------------------------------------------------------------
(* Slots                                                                   *)

Pools == [Slots -> Req \cup {Nil}]
Acks  == [Req -> 0 .. MaxOut]

LEMMA FreeFinite ==
  ASSUME NEW p \in Pools
  PROVE  IsFiniteSet(FreeSlots(p)) /\ Cardinality(FreeSlots(p)) \in Nat
<1>1. MaxOut \in Nat
  BY DirectReqAssumption
<1>2. IsFiniteSet(Slots)
  BY <1>1, FS_Interval DEF Slots
<1>3. FreeSlots(p) \subseteq Slots
  BY DEF FreeSlots, Pools
<1> QED
  BY <1>2, <1>3, FS_Subset, FS_CardinalityType

\* The ack that _writemsg finds is one of a free slot, if there is one.
LEMMA FreeSlotFound ==
  ASSUME NEW p \in Pools, FreeSlots(p) # {}
  PROVE  NewAck(p) \in Slots /\ p[NewAck(p)] = Nil
<1>1. MaxOut \in Nat /\ FreeSlots(p) \in SUBSET Nat /\ \A i \in FreeSlots(p) : i <= MaxOut
  BY DirectReqAssumption DEF FreeSlots, Pools, Slots
<1>2. \E i \in FreeSlots(p) : \A k \in FreeSlots(p) : k <= i
  BY <1>1, GreatestNatural
<1>3. NewAck(p) \in FreeSlots(p)
  BY <1>2 DEF NewAck
<1> QED
  BY <1>3 DEF FreeSlots, Pools

LEMMA FreeSlotTaken ==
  ASSUME NEW p \in Pools, NEW s \in Slots, p[s] = Nil, NEW r \in Req
  PROVE  /\ [p EXCEPT ![s] = r] \in Pools
         /\ Cardinality(FreeSlots([p EXCEPT ![s] = r])) = Cardinality(FreeSlots(p)) - 1
<1>1. r # Nil
  BY DirectReqAssumption
<1>2. [p EXCEPT ![s] = r] \in Pools
  BY DEF Pools
<1>3. FreeSlots([p EXCEPT ![s] = r]) = FreeSlots(p) \ {s} /\ s \in FreeSlots(p)
  BY <1>1 DEF FreeSlots, Pools
<1> QED
  BY <1>2, <1>3, FreeFinite, FS_RemoveElement

-----------------------------------------------------------------------------
(* What the begin of a flush does                                          *)

\* The acks and the pool after the first k messages of q: who had an ack keeps
\* it, each of the k has one, and those that got one are in its slot.
Gave(q, k, acc) ==
  /\ acc.ack \in Acks /\ acc.pool \in Pools
  /\ \A r \in Req : ack[r] # 0 => acc.ack[r] = ack[r]
  /\ \A i \in 1 .. k : acc.ack[q[i]] # 0
  /\ \A r \in Req : acc.ack[r] # ack[r] => \E i \in 1 .. k : q[i] = r
  /\ \A r \in Req : ack[r] = 0 /\ acc.ack[r] # 0 => acc.pool[acc.ack[r]] = r
  /\ \A s \in Slots : pool[s] # Nil => acc.pool[s] = pool[s]
  /\ \A s \in Slots : pool[s] = Nil /\ acc.pool[s] # Nil =>
       ack[acc.pool[s]] = 0 /\ acc.ack[acc.pool[s]] = s

\* The messages among the first k that have no ack, and the slots left for them.
Fresh(q, k) == {i \in 1 .. k : ack[q[i]] = 0}
Room(q, k, acc) ==
  Cardinality(FreeSlots(pool)) <= Cardinality(FreeSlots(acc.pool)) + Cardinality(Fresh(q, k))

LEMMA FreshFinite ==
  ASSUME NEW q, NEW k \in Nat
  PROVE  IsFiniteSet(Fresh(q, k)) /\ Cardinality(Fresh(q, k)) \in Nat
<1>1. IsFiniteSet(1 .. k)
  BY FS_Interval
<1> QED
  BY <1>1, FS_Subset, FS_CardinalityType DEF Fresh

LEMMA FreshGrows ==
  ASSUME NEW q, NEW k \in Nat \ {0}
  PROVE  /\ ack[q[k]] = 0 => Cardinality(Fresh(q, k)) = Cardinality(Fresh(q, k - 1)) + 1
         /\ ack[q[k]] # 0 => Fresh(q, k) = Fresh(q, k - 1)
<1>1. k - 1 \in Nat /\ 1 .. k = (1 .. k - 1) \cup {k} /\ k \notin 1 .. k - 1
  OBVIOUS
<1>2. ack[q[k]] = 0 => Fresh(q, k) = Fresh(q, k - 1) \cup {k} /\ k \notin Fresh(q, k - 1)
  BY <1>1 DEF Fresh
<1>3. ack[q[k]] # 0 => Fresh(q, k) = Fresh(q, k - 1)
  BY <1>1 DEF Fresh
<1> QED
  BY <1>1, <1>2, <1>3, FreshFinite, FS_AddElement

LEMMA FreshPart ==
  ASSUME NEW q, NEW n \in Nat, NEW k \in 0 .. n
  PROVE  Cardinality(Fresh(q, k)) <= Cardinality(Fresh(q, n))
<1>1. Fresh(q, k) \subseteq Fresh(q, n)
  BY DEF Fresh
<1> QED
  BY <1>1, FreshFinite, FS_Subset

\* The next message, which has an ack or finds a slot.
LEMMA GaveOld ==
  ASSUME NEW q \in Seq(Req), NEW k \in 1 .. Len(q), NEW acc, Gave(q, k - 1, acc),
         acc.ack[q[k]] # 0
  PROVE  Gave(q, k, acc)
<1>1. \A i \in 1 .. k : i = k \/ i \in 1 .. k - 1
  OBVIOUS
<1>2. \A i \in 1 .. k - 1 : i \in 1 .. k
  OBVIOUS
<1> QED
  BY <1>1, <1>2 DEF Gave

LEMMA GaveNew ==
  ASSUME ack \in Acks, pool \in Pools, NEW q \in Seq(Req), NEW k \in 1 .. Len(q), NEW acc,
         Gave(q, k - 1, acc), acc.ack[q[k]] = 0, FreeSlots(acc.pool) # {}
  PROVE  /\ Gave(q, k, Given(acc, q[k]))
         /\ Cardinality(FreeSlots(Given(acc, q[k]).pool)) = Cardinality(FreeSlots(acc.pool)) - 1
         /\ ack[q[k]] = 0
<1>1. PICK r \in Req : r = q[k]
  OBVIOUS
<1>2. acc.ack \in Acks /\ acc.pool \in Pools
  BY DEF Gave
<1>3. PICK s \in Slots : s = NewAck(acc.pool) /\ acc.pool[s] = Nil
  BY <1>2, FreeSlotFound
<1>4. /\ s \in 1 .. MaxOut /\ s # 0 /\ s \in 0 .. MaxOut /\ r # Nil
      /\ \A x \in Req : ack[x] \in 0 .. MaxOut /\ acc.ack[x] \in 0 .. MaxOut
  BY <1>2, <1>3, DirectReqAssumption DEF Slots, Acks
<1>5. ack[r] = 0
  BY <1>1 DEF Gave
<1> DEFINE a == [acc.ack EXCEPT ![r] = s]
           p == [acc.pool EXCEPT ![s] = r]
<1>6. Given(acc, q[k]) = [ack |-> a, pool |-> p]
  BY <1>1, <1>3 DEF Given
<1>7. a \in Acks /\ a[r] = s /\ \A x \in Req : x # r => a[x] = acc.ack[x]
  BY <1>2, <1>4 DEF Acks
<1>8. p \in Pools /\ p[s] = r /\ \A i \in Slots : i # s => p[i] = acc.pool[i]
  BY <1>2, <1>3 DEF Pools
<1>9. Cardinality(FreeSlots(p)) = Cardinality(FreeSlots(acc.pool)) - 1
  BY <1>2, <1>3, FreeSlotTaken
<1> HIDE DEF a, p
<1>10. \A x \in Req : ack[x] # 0 => a[x] = ack[x]
  BY <1>5, <1>7 DEF Gave
<1>11. ASSUME NEW i \in 1 .. k PROVE a[q[i]] # 0
  <2>1. q[i] \in Req /\ (i = k \/ i \in 1 .. k - 1)
    OBVIOUS
  <2> QED
    BY <2>1, <1>1, <1>4, <1>7 DEF Gave
<1>12. ASSUME NEW x \in Req, a[x] # ack[x] PROVE \E i \in 1 .. k : q[i] = x
  <2>1. CASE x = r
    BY <2>1, <1>1
  <2>2. CASE x # r
    <3>1. \E i \in 1 .. k - 1 : q[i] = x
      BY <2>2, <1>7, <1>12 DEF Gave
    <3> QED
      BY <3>1
  <2> QED
    BY <2>1, <2>2
<1>13. ASSUME NEW x \in Req, ack[x] = 0, a[x] # 0 PROVE p[a[x]] = x
  <2>1. CASE x = r
    BY <2>1, <1>7, <1>8
  <2>2. CASE x # r
    <3>1. acc.pool[acc.ack[x]] = x /\ a[x] = acc.ack[x] /\ x # Nil
      BY <2>2, <1>7, <1>13, DirectReqAssumption DEF Gave
    <3>2. a[x] # s /\ a[x] \in Slots
      BY <3>1, <1>3, <1>4, <1>13 DEF Slots
    <3> QED
      BY <3>1, <3>2, <1>8
  <2> QED
    BY <2>1, <2>2
<1>14. \A i \in Slots : pool[i] # Nil => p[i] = pool[i]
  BY <1>3, <1>8 DEF Gave
<1>15. ASSUME NEW i \in Slots, pool[i] = Nil, p[i] # Nil PROVE ack[p[i]] = 0 /\ a[p[i]] = i
  <2>1. CASE i = s
    BY <2>1, <1>5, <1>7, <1>8
  <2>2. CASE i # s
    <3>1. ack[p[i]] = 0 /\ acc.ack[p[i]] = i /\ p[i] \in Req
      BY <2>2, <1>2, <1>8, <1>15 DEF Gave, Pools
    <3>2. p[i] # r
      BY <3>1, <1>1 DEF Slots
    <3> QED
      BY <3>1, <3>2, <1>7
  <2> QED
    BY <2>1, <2>2
<1>16. Gave(q, k, [ack |-> a, pool |-> p])
  BY <1>7, <1>8, <1>10, <1>11, <1>12, <1>13, <1>14, <1>15 DEF Gave
<1> QED
  BY <1>1, <1>5, <1>6, <1>9, <1>16

\* The messages of q get their acks, if there are slots enough for them.
LEMMA BeginEffect ==
  ASSUME ack \in Acks, pool \in Pools, NEW q \in Seq(Req), Fits(q)
  PROVE  Gave(q, Len(q), Begin(q))
<1>1. PICK f : Gives(q, f, Len(q)) /\ Begin(q) = f[Len(q)]
  BY BeginGives
<1> DEFINE Done(k) == Gave(q, k, f[k]) /\ Room(q, k, f[k])
           T == {k \in 0 .. Len(q) : ~Done(k)}
<1>2. Done(0)
  <2>1. f[0] = [ack |-> ack, pool |-> pool]
    BY <1>1 DEF Gives
  <2>2. Fresh(q, 0) = {}
    BY DEF Fresh
  <2>3. Room(q, 0, f[0])
    <3>1. Cardinality(FreeSlots(pool)) \in Nat /\ Cardinality(Fresh(q, 0)) = 0
      BY <2>2, FreeFinite, FS_EmptySet
    <3>2. f[0].pool = pool
      BY <2>1
    <3> QED
      BY <3>1, <3>2 DEF Room
  <2>4. 1 .. 0 = {}
    OBVIOUS
  <2>5. Gave(q, 0, f[0])
    BY <2>1, <2>4 DEF Gave
  <2> QED
    BY <2>3, <2>5
<1>3. ASSUME NEW k \in 1 .. Len(q), Done(k - 1) PROVE Done(k)
  <2>1. k \in 0 .. Len(q) /\ k - 1 \in 0 .. Len(q) /\ k # 0 /\ k \in Nat \ {0} /\ Len(q) \in Nat
    OBVIOUS
  <2>2. f[k] = Given(f[k - 1], q[k])
    BY <1>1, <2>1 DEF Gives
  <2>3. CASE f[k - 1].ack[q[k]] # 0
    <3>1. f[k] = f[k - 1]
      BY <2>2, <2>3 DEF Given
    <3>2. Gave(q, k, f[k])
      BY <1>3, <2>3, <3>1, GaveOld
    <3>3. Cardinality(Fresh(q, k - 1)) <= Cardinality(Fresh(q, k))
      <4>1. k - 1 \in 0 .. k
        BY <2>1
      <4> QED
        BY <2>1, <4>1, FreshPart
    <3>4. Room(q, k, f[k])
      <4>1. f[k - 1].pool \in Pools
        BY <1>3 DEF Gave
      <4> QED
        BY <1>3, <2>1, <3>1, <3>3, <4>1, FreeFinite, FreshFinite DEF Room
    <3> QED
      BY <3>2, <3>4
  <2>4. CASE f[k - 1].ack[q[k]] = 0
    <3>1. f[k - 1].pool \in Pools /\ ack[q[k]] = 0
      BY <1>3, <2>4 DEF Gave
    <3>2. Cardinality(Fresh(q, k)) = Cardinality(Fresh(q, k - 1)) + 1
      BY <2>1, <3>1, FreshGrows
    <3>3. Cardinality(Fresh(q, k)) <= Cardinality(Fresh(q, Len(q)))
      BY <2>1, FreshPart
    <3>4. Cardinality(Fresh(q, Len(q))) <= Cardinality(FreeSlots(pool))
      <4>1. DOMAIN q = 1 .. Len(q)
        OBVIOUS
      <4> QED
        BY <4>1 DEF Fits, New, Fresh
    <3>5. /\ Cardinality(FreeSlots(f[k - 1].pool)) \in Nat /\ Cardinality(FreeSlots(pool)) \in Nat
          /\ Cardinality(Fresh(q, k)) \in Nat /\ Cardinality(Fresh(q, k - 1)) \in Nat
          /\ Cardinality(Fresh(q, Len(q))) \in Nat
      BY <2>1, <3>1, FreeFinite, FreshFinite
    <3>6. FreeSlots(f[k - 1].pool) # {}
      <4>1. Cardinality(FreeSlots(f[k - 1].pool)) # 0
        BY <1>3, <3>2, <3>3, <3>4, <3>5 DEF Room
      <4> QED
        BY <4>1, FS_EmptySet
    <3>7. /\ Gave(q, k, f[k])
          /\ Cardinality(FreeSlots(f[k].pool)) = Cardinality(FreeSlots(f[k - 1].pool)) - 1
      BY <1>3, <2>2, <2>4, <3>6, GaveNew, SMTT(30)
    <3> QED
      BY <1>3, <3>2, <3>5, <3>7 DEF Room
  <2> QED
    BY <2>3, <2>4
<1> HIDE DEF Done
<1>4. ASSUME T # {} PROVE FALSE
  <2>1. T \in SUBSET Nat
    OBVIOUS
  <2> HIDE DEF T
  <2>2. PICK k \in T : \A y \in T : k <= y
    BY <1>4, <2>1, LeastNatural
  <2>3. k \in 0 .. Len(q) /\ ~Done(k) /\ Len(q) \in Nat
    BY <2>2 DEF T
  <2>4. k # 0
    BY <1>2, <2>3
  <2>5. k - 1 \notin T /\ k - 1 \in 0 .. Len(q) /\ k \in 1 .. Len(q)
    BY <2>2, <2>3, <2>4
  <2>6. Done(k - 1)
    BY <2>5 DEF T
  <2> QED
    BY <1>3, <2>3, <2>5, <2>6
<1>5. Done(Len(q))
  <2>1. Len(q) \in 0 .. Len(q)
    OBVIOUS
  <2> QED
    BY <1>4, <2>1
<1> QED
  BY <1>1, <1>5 DEF Done

-----------------------------------------------------------------------------
(* The invariant                                                           *)

Tells   == [Req -> Seq(Calls \X (Req \cup {Nil}))]
AnswerMsg == [ack : Slots, of : Req, with : Outcomes]

ReqType ==
  /\ sock \in {"closed", "connecting", "dialed", "open", "destroyed"}
  /\ sendq \in Seq(Req) /\ asked \subseteq Req
  /\ pool \in Pools \cup {NoPool} /\ ack \in Acks /\ told \in Tells
  /\ waitflush \in BOOLEAN /\ soon \in BOOLEAN /\ down \in BOOLEAN

\* What the responder may answer has an ack, also when the requester is down.
WireType ==
  /\ to \in Seq(Req) /\ held \subseteq Req /\ ignored \subseteq Req
  /\ back \in Seq(AnswerMsg) /\ eof \in BOOLEAN
  /\ \A r \in ToSet(to) \cup held : ack[r] # 0

ProcessType ==
  /\ option \in Options /\ pid \in 1 .. MaxPid /\ target \in 0 .. MaxPid
  /\ proc \in {"running", "dead", "none"} /\ exits \in Nat
  /\ listening \in BOOLEAN /\ killsig \in BOOLEAN
  /\ restart \in BOOLEAN /\ exitdue \in BOOLEAN /\ joined \in BOOLEAN
  /\ restart => proc = "none" /\ option = "keepalive"
  /\ listening => proc = "running"

\* Of acks a, requests A and what they were told t: a request is told once, of
\* itself or of nobody, and not before it has an ack.
ToldOnce(a, A, t) == \A r \in Req :
  /\ Len(t[r]) <= 1
  /\ \A i \in DOMAIN t[r] : t[r][i][2] \in {r, Nil}
  /\ a[r] = 0 => t[r] = <<>>
  /\ r \notin A => a[r] = 0

\* Of acks a and a pool p: a slot holds a request that is not told and has the
\* slot's ack, and a request that has an ack and is not told is in its slot.
SlotsAgree(a, p, A, t) ==
  /\ \A s \in Slots : p[s] # Nil => a[p[s]] = s /\ p[s] \in A /\ t[p[s]] = <<>>
  /\ \A r \in Req : a[r] # 0 /\ t[r] = <<>> => p[a[r]] = r

\* Of a send queue q: it repeats nothing, holds nothing that is told, and holds
\* every request that has no ack.
QueueAgrees(a, q, A, t) ==
  /\ IsInjective(q)
  /\ \A r \in ToSet(q) : r \in A /\ t[r] = <<>>
  /\ \A r \in A : a[r] = 0 => r \in ToSet(q)

\* Of the requests i under way, those h the responder keeps and the answers b:
\* none is in the queue q or at two of these places, each is in its slot, and an
\* answer has its request's ack.
Ofs(b) == {b[i].of : i \in DOMAIN b}
FlightAgrees(a, p, q, i, h, b) ==
  /\ IsInjective(i) /\ \A j, k \in DOMAIN b : b[j].of = b[k].of => j = k
  /\ ToSet(i) \cap h = {} /\ ToSet(i) \cap Ofs(b) = {} /\ h \cap Ofs(b) = {}
  /\ ToSet(q) \cap (ToSet(i) \cup h \cup Ofs(b)) = {}
  /\ \A r \in ToSet(i) \cup h \cup Ofs(b) : a[r] # 0 /\ p[a[r]] = r
  /\ \A j \in DOMAIN b : b[j].ack = a[b[j].of]

\* A socket that was destroyed has no pool, told every request that had an ack,
\* and gets no answer, whether or not it connects again.
GoneInv == pool = NoPool =>
  /\ sock # "closed" /\ back = <<>>
  /\ sock # "destroyed" => to = <<>> /\ held = {}
  /\ \A r \in asked : ack[r] # 0 => told[r] # <<>>

StateInv ==
  /\ sock = "destroyed" => pool = NoPool
  /\ sock = "closed" => /\ asked = {} /\ held = {}
                        /\ sendq = <<>> /\ to = <<>> /\ back = <<>>

SettleInv ==
  /\ ToldOnce(ack, asked, told)
  /\ pool # NoPool => /\ SlotsAgree(ack, pool, asked, told)
                      /\ QueueAgrees(ack, sendq, asked, told)
                      /\ FlightAgrees(ack, pool, sendq, to, held, back)
  /\ GoneInv /\ StateInv

TypeInv  == ReqType /\ WireType /\ ProcessType
WholeInv == TypeInv /\ (~down => SettleInv)

-----------------------------------------------------------------------------
(* Parts of steps                                                          *)

LEMMA NoPoolApart ==
  \A p \in Pools : p # NoPool /\ DOMAIN p = Slots
<1>1. 1 \in Slots
  BY DirectReqAssumption DEF Slots
<1>2. 1 \notin DOMAIN NoPool
  BY DEF NoPool
<1> QED
  BY <1>1, <1>2 DEF Pools

\* What fits, fits up to any message.
LEMMA FitsPart ==
  ASSUME pool \in Pools, NEW q \in Seq(Req), NEW j \in 0 .. Len(q), Fits(q)
  PROVE  Fits(SubSeq(q, 1, j))
<1>1. /\ Len(q) \in Nat /\ j \in Nat /\ j <= Len(q) /\ DOMAIN q = 1 .. Len(q)
      /\ DOMAIN SubSeq(q, 1, j) = 1 .. j /\ \A i \in 1 .. j : SubSeq(q, 1, j)[i] = q[i]
  OBVIOUS
<1>2. New(q) = Cardinality(Fresh(q, Len(q)))
  BY <1>1 DEF New, Fresh
<1>3. New(SubSeq(q, 1, j)) = Cardinality(Fresh(q, j))
  <2>1. {i \in 1 .. j : ack[SubSeq(q, 1, j)[i]] = 0} = {i \in 1 .. j : ack[q[i]] = 0}
    BY <1>1
  <2> QED
    BY <1>1, <2>1 DEF New, Fresh
<1>4. New(SubSeq(q, 1, j)) <= New(q) /\ New(q) \in Nat /\ New(SubSeq(q, 1, j)) \in Nat
  BY <1>1, <1>2, <1>3, FreshPart, FreshFinite
<1> QED
  BY <1>4, FreeFinite DEF Fits

\* The slots still agree when messages of q, which nobody was told of, get theirs.
LEMMA BegunSlots ==
  ASSUME ReqType, pool \in Pools, NEW q \in Seq(Req), Fits(q), NEW a, NEW p,
         a = Begin(q).ack, p = Begin(q).pool
  PROVE  /\ a \in Acks /\ p \in Pools
         /\ \A r \in Req : ack[r] # 0 => a[r] = ack[r]
         /\ \A r \in ToSet(q) : a[r] # 0
         /\ \A r \in Req : ack[r] # 0 /\ pool[ack[r]] = r => p[a[r]] = r
         /\ \A A \in SUBSET Req :
              /\ asked \subseteq A /\ ToSet(q) \subseteq A
              /\ ToldOnce(ack, asked, told) /\ SlotsAgree(ack, pool, asked, told)
              => ToldOnce(a, A, told) /\ SlotsAgree(a, p, A, told)
<1>1. Gave(q, Len(q), Begin(q))
  BY BeginEffect DEF ReqType
<1>2. a \in Acks /\ p \in Pools
  BY <1>1 DEF Gave
<1>3. \A r \in Req : ack[r] # 0 => a[r] = ack[r]
  BY <1>1 DEF Gave
<1>4. \A r \in ToSet(q) : a[r] # 0
  <2>1. \A i \in 1 .. Len(q) : a[q[i]] # 0
    BY <1>1 DEF Gave
  <2>2. DOMAIN q = 1 .. Len(q)
    OBVIOUS
  <2> QED
    BY <2>1, <2>2 DEF ToSet
<1>5. \A r \in Req : a[r] # ack[r] => r \in ToSet(q)
  <2>1. \A r \in Req : a[r] # ack[r] => \E i \in 1 .. Len(q) : q[i] = r
    BY <1>1 DEF Gave
  <2>2. DOMAIN q = 1 .. Len(q)
    OBVIOUS
  <2> QED
    BY <2>1, <2>2 DEF ToSet
<1>6. \A r \in Req : ack[r] = 0 /\ a[r] # 0 => p[a[r]] = r
  BY <1>1 DEF Gave
<1>7. \A s \in Slots : pool[s] # Nil => p[s] = pool[s]
  BY <1>1 DEF Gave
<1>8. \A s \in Slots : pool[s] = Nil /\ p[s] # Nil => ack[p[s]] = 0 /\ a[p[s]] = s
  BY <1>1 DEF Gave
<1>9. \A r \in Req : ack[r] \in 0 .. MaxOut /\ (ack[r] # 0 => ack[r] \in Slots) /\ r # Nil
  BY DirectReqAssumption DEF ReqType, Acks, Slots
<1>10. \A s \in Slots : p[s] # Nil => p[s] \in Req
  BY <1>2 DEF Pools
<1>11. \A r \in Req : ack[r] # 0 /\ pool[ack[r]] = r => p[a[r]] = r
  BY <1>3, <1>7, <1>9
<1>12. ASSUME NEW A \in SUBSET Req, asked \subseteq A, ToSet(q) \subseteq A,
              ToldOnce(ack, asked, told), SlotsAgree(ack, pool, asked, told)
       PROVE  ToldOnce(a, A, told) /\ SlotsAgree(a, p, A, told)
  <2>1. \A r \in Req : ack[r] = 0 => told[r] = <<>>
    BY <1>12 DEF ToldOnce
  <2>2. ToldOnce(a, A, told)
    <3>1. ASSUME NEW r \in Req, a[r] = 0 PROVE told[r] = <<>>
      BY <1>3, <2>1, <3>1
    <3>2. ASSUME NEW r \in Req, r \notin A PROVE a[r] = 0
      <4>1. r \notin asked /\ r \notin ToSet(q)
        BY <1>12, <3>2
      <4>2. ack[r] = 0
        BY <1>12, <4>1 DEF ToldOnce
      <4> QED
        BY <1>5, <4>1, <4>2
    <3>3. \A r \in Req : Len(told[r]) <= 1 /\ \A i \in DOMAIN told[r] : told[r][i][2] \in {r, Nil}
      BY <1>12 DEF ToldOnce
    <3> QED
      BY <3>1, <3>2, <3>3 DEF ToldOnce
  <2>3. ASSUME NEW s \in Slots, p[s] # Nil
        PROVE  a[p[s]] = s /\ p[s] \in A /\ told[p[s]] = <<>>
    <3>1. CASE pool[s] # Nil
      <4>1. p[s] = pool[s] /\ ack[p[s]] = s /\ p[s] \in asked /\ told[p[s]] = <<>>
        BY <1>7, <1>12, <3>1 DEF SlotsAgree
      <4>2. s # 0
        BY DirectReqAssumption DEF Slots
      <4> QED
        BY <1>3, <1>10, <1>12, <2>3, <4>1, <4>2
    <3>2. CASE pool[s] = Nil
      <4>1. ack[p[s]] = 0 /\ a[p[s]] = s /\ p[s] \in Req
        BY <1>8, <1>10, <2>3, <3>2
      <4>2. s # 0
        BY DirectReqAssumption DEF Slots
      <4>3. p[s] \in ToSet(q)
        BY <1>5, <4>1, <4>2
      <4> QED
        BY <1>12, <2>1, <4>1, <4>3
    <3> QED
      BY <3>1, <3>2
  <2>4. ASSUME NEW r \in Req, a[r] # 0, told[r] = <<>> PROVE p[a[r]] = r
    <3>1. CASE ack[r] = 0
      BY <1>6, <2>4, <3>1
    <3>2. CASE ack[r] # 0
      <4>1. pool[ack[r]] = r
        BY <1>12, <2>4, <3>2 DEF SlotsAgree
      <4> QED
        BY <1>11, <3>2, <4>1
    <3> QED
      BY <3>1, <3>2
  <2> QED
    BY <2>2, <2>3, <2>4 DEF SlotsAgree
<1> QED
  BY <1>2, <1>3, <1>4, <1>11, <1>12

\* A socket that is destroyed tells who waits, and nobody else.
LEMMA DestroyedTells ==
  ASSUME NEW p, NEW t \in Tells, Destroyed(p, t),
         p \in Pools \/ p = NoPool
  PROVE  /\ sock' = "destroyed" /\ pool' = NoPool /\ told' \in Tells /\ down' \in BOOLEAN
         /\ \A a \in Acks, A \in SUBSET Req :
              /\ ToldOnce(a, A, t) /\ (p \in Pools => SlotsAgree(a, p, A, t))
              /\ p = NoPool => \A r \in A : a[r] # 0 => t[r] # <<>>
              => ToldOnce(a, A, told') /\ \A r \in A : a[r] # 0 => told'[r] # <<>>
<1> DEFINE all == {p[i] : i \in DOMAIN p} \ {Nil}
<1>1. /\ sock' = "destroyed" /\ pool' = NoPool
      /\ told' = [r \in Req |-> IF r \in all THEN Append(t[r], <<"ERROR", Nil>>) ELSE t[r]]
      /\ down' = \E r \in all : ~Routed(r, "ERROR", 2)
  BY DEF Destroyed, TellWaiting
<1>2. (\E r \in all : ~Routed(r, "ERROR", 2)) \in BOOLEAN
  OBVIOUS
<1>3. down' \in BOOLEAN
  BY <1>1, <1>2, Zenon
<1>4. DOMAIN NoPool = {}
  BY DEF NoPool
<1>5. /\ p = NoPool => all = {}
      /\ p \in Pools => \A r \in all : \E s \in Slots : p[s] = r /\ r # Nil
  BY <1>4 DEF Pools
<1>6. \A s \in Slots : p \in Pools /\ p[s] # Nil => p[s] \in all
  BY DEF Pools
<1> HIDE DEF all
<1>7. <<"ERROR", Nil>> \in Calls \X (Req \cup {Nil})
  <2>1. "ERROR" \in Calls
    BY DEF Calls
  <2>2. Nil \in Req \cup {Nil}
    OBVIOUS
  <2> QED
    BY <2>1, <2>2
<1>8. ASSUME NEW r \in Req
      PROVE  /\ t[r] \in Seq(Calls \X (Req \cup {Nil}))
             /\ Append(t[r], <<"ERROR", Nil>>) \in Seq(Calls \X (Req \cup {Nil}))
  <2>1. t[r] \in Seq(Calls \X (Req \cup {Nil}))
    BY DEF Tells
  <2> QED
    BY <1>7, <2>1
<1>9. told' \in Tells
  BY <1>1, <1>8 DEF Tells
<1>10. \A r \in Req : told'[r] = IF r \in all THEN Append(t[r], <<"ERROR", Nil>>) ELSE t[r]
  BY <1>1
<1>11. ASSUME NEW a \in Acks, NEW A \in SUBSET Req, ToldOnce(a, A, t),
              p \in Pools => SlotsAgree(a, p, A, t),
              p = NoPool => \A r \in A : a[r] # 0 => t[r] # <<>>
       PROVE  ToldOnce(a, A, told') /\ \A r \in A : a[r] # 0 => told'[r] # <<>>
  <2>1. ASSUME NEW r \in all
        PROVE  r \in A /\ a[r] # 0 /\ t[r] = <<>>
    <3>1. PICK s \in Slots : p \in Pools /\ p[s] = r /\ r # Nil
      BY <1>5
    <3>2. s # 0
      BY DirectReqAssumption DEF Slots
    <3> QED
      BY <1>11, <3>1, <3>2 DEF SlotsAgree
  <2>2. Append(<<>>, <<"ERROR", Nil>>) = << <<"ERROR", Nil>> >>
    OBVIOUS
  <2>3. \A r \in Req : r \in all => told'[r] = << <<"ERROR", Nil>> >>
    BY <1>10, <2>1, <2>2
  <2>4. \A r \in Req : r \notin all => told'[r] = t[r]
    BY <1>10
  <2>5. ASSUME NEW r \in Req
        PROVE  /\ Len(told'[r]) <= 1
               /\ \A i \in DOMAIN told'[r] : told'[r][i][2] \in {r, Nil}
               /\ a[r] = 0 => told'[r] = <<>>
               /\ r \notin A => a[r] = 0
    <3>1. CASE r \in all
      BY <2>1, <2>3, <3>1
    <3>2. CASE r \notin all
      BY <1>11, <2>4, <3>2 DEF ToldOnce
    <3> QED
      BY <3>1, <3>2
  <2>6. ASSUME NEW r \in A, a[r] # 0 PROVE told'[r] # <<>>
    <3>1. CASE r \in all
      BY <2>3, <3>1
    <3>2. CASE r \notin all
      <4>1. t[r] # <<>>
        <5>1. CASE p = NoPool
          BY <1>11, <2>6, <5>1
        <5>2. CASE p \in Pools
          <6>1. t[r] = <<>> => p[a[r]] = r
            BY <1>11, <2>6, <5>2 DEF SlotsAgree
          <6>2. a[r] \in Slots /\ r # Nil
            BY <2>6, DirectReqAssumption DEF Acks, Slots
          <6> QED
            BY <1>6, <3>2, <5>2, <6>1, <6>2
        <5> QED
          BY <5>1, <5>2
      <4> QED
        BY <2>4, <3>2, <4>1
    <3> QED
      BY <3>1, <3>2
  <2> QED
    BY <2>5, <2>6 DEF ToldOnce
<1> QED
  BY <1>1, <1>3, <1>9, <1>11

\* So nothing is left to settle.
LEMMA DestroyedSettles ==
  ASSUME NEW p, NEW t \in Tells, Destroyed(p, t), p \in Pools \/ p = NoPool,
         ack' \in Acks, asked' \in SUBSET Req, back' = <<>>,
         ToldOnce(ack', asked', t), p \in Pools => SlotsAgree(ack', p, asked', t),
         p = NoPool => \A r \in asked' : ack'[r] # 0 => t[r] # <<>>
  PROVE  SettleInv'
<1>1. sock' = "destroyed" /\ pool' = NoPool
  BY DestroyedTells
<1>2. ToldOnce(ack', asked', told') /\ \A r \in asked' : ack'[r] # 0 => told'[r] # <<>>
  BY DestroyedTells
<1>3. GoneInv'
  BY <1>1, <1>2 DEF GoneInv
<1>4. StateInv'
  BY <1>1 DEF StateInv
<1>5. ToldOnce(ack, asked, told)'
  BY <1>2 DEF ToldOnce
<1> QED
  BY <1>1, <1>3, <1>4, <1>5 DEF SettleInv

-----------------------------------------------------------------------------
(* The steps of the socket                                                 *)

LEMMA InitSettled ==
  ASSUME Init
  PROVE  WholeInv
<1>1. DirectInit /\ option \in Options /\ pid = 1 /\ proc = "running" /\ listening = FALSE
      /\ killsig = FALSE /\ restart = FALSE /\ exitdue = FALSE
      /\ target = 0 /\ exits = 0 /\ joined = FALSE
  BY DEF Init
<1>2. ProcessType
  <2>1. /\ listening \in BOOLEAN /\ killsig \in BOOLEAN
        /\ restart \in BOOLEAN /\ exitdue \in BOOLEAN /\ joined \in BOOLEAN
        /\ ~restart /\ ~listening
    BY <1>1
  <2>2. pid \in 1 .. MaxPid /\ target \in 0 .. MaxPid /\ exits \in Nat
    BY <1>1, WorkerAssumption
  <2> QED
    BY <1>1, <2>1, <2>2 DEF ProcessType
<1>3. pool \in Pools /\ ack \in Acks /\ told \in Tells
  BY <1>1, DirectReqAssumption DEF DirectInit, Pools, Acks, Tells
<1>4. ReqType
  <2>1. waitflush \in BOOLEAN /\ soon \in BOOLEAN /\ down \in BOOLEAN
    BY <1>1 DEF DirectInit
  <2>2. sock \in {"closed", "connecting", "dialed", "open", "destroyed"} /\ sendq \in Seq(Req) /\ asked \subseteq Req
    BY <1>1 DEF DirectInit
  <2> QED
    BY <1>3, <2>1, <2>2 DEF ReqType
<1>5. ToSet(to) = {} /\ ToSet(sendq) = {} /\ DOMAIN back = {} /\ IsInjective(to) /\ IsInjective(sendq)
  BY <1>1 DEF DirectInit, ToSet, IsInjective
<1>6. WireType
  <2>1. eof \in BOOLEAN
    BY <1>1 DEF DirectInit
  <2>2. to \in Seq(Req) /\ back \in Seq(AnswerMsg) /\ held = {} /\ ignored = {}
    BY <1>1 DEF DirectInit
  <2> QED
    BY <1>5, <2>1, <2>2 DEF WireType
<1>7. ToldOnce(ack, asked, told)
  BY <1>1 DEF DirectInit, ToldOnce
<1>8. SlotsAgree(ack, pool, asked, told)
  BY <1>1 DEF DirectInit, SlotsAgree
<1>9. QueueAgrees(ack, sendq, asked, told)
  BY <1>1, <1>5 DEF DirectInit, QueueAgrees
<1>10. FlightAgrees(ack, pool, sendq, to, held, back)
  BY <1>1, <1>5 DEF DirectInit, FlightAgrees, Ofs
<1>11. GoneInv /\ StateInv
  BY <1>1, <1>3, NoPoolApart DEF DirectInit, GoneInv, StateInv
<1> QED
  BY <1>2, <1>4, <1>6, <1>7, <1>8, <1>9, <1>10, <1>11 DEF WholeInv, TypeInv, SettleInv

\* Request r, which was not asked yet, joins the end of a queue.
LEMMA QueueGrows ==
  ASSUME NEW a, NEW q \in Seq(Req), NEW r \in Req, r \notin asked,
         QueueAgrees(a, q, asked, told), told[r] = <<>>
  PROVE  /\ QueueAgrees(a, Append(q, r), asked \cup {r}, told)
         /\ ToSet(Append(q, r)) = ToSet(q) \cup {r}
<1>1. /\ IsInjective(q) /\ \A x \in ToSet(q) : x \in asked /\ told[x] = <<>>
      /\ \A x \in asked : a[x] = 0 => x \in ToSet(q)
  BY DEF QueueAgrees
<1>2. r \notin ToSet(q)
  BY <1>1
<1>3. IsInjective(Append(q, r)) /\ ToSet(Append(q, r)) = ToSet(q) \cup {r}
  BY <1>1, <1>2, AppendOnce
<1> QED
  BY <1>1, <1>3 DEF QueueAgrees

\* What was not asked has no ack, no slot and nothing under way.
LEMMA NotAsked ==
  ASSUME ReqType, SettleInv, NEW r \in Req, r \notin asked
  PROVE  /\ ack[r] = 0 /\ told[r] = <<>>
         /\ ToldOnce(ack, asked \cup {r}, told)
         /\ pool # NoPool => SlotsAgree(ack, pool, asked \cup {r}, told)
<1>1. ack[r] = 0 /\ told[r] = <<>>
  BY DEF SettleInv, ToldOnce
<1>2. ToldOnce(ack, asked \cup {r}, told)
  BY DEF SettleInv, ToldOnce
<1>3. pool # NoPool => SlotsAgree(ack, pool, asked \cup {r}, told)
  BY DEF SettleInv, SlotsAgree
<1> QED
  BY <1>1, <1>2, <1>3

LEMMA SendQueuedStep ==
  ASSUME ReqType, WireType, SettleInv, ~down, NEW r \in Req, r \notin asked,
         asked' = asked \cup {r}, SendQueued(r), sock # "closed", UNCHANGED respVars
  PROVE  ReqType' /\ WireType' /\ SettleInv'
<1>1. /\ sendq' = Append(sendq, r)
      /\ UNCHANGED <<sock, pool, ack, waitflush, soon, down, told, to, back, eof, held, ignored>>
  BY DEF SendQueued, wires, respVars
<1>2. sendq \in Seq(Req) /\ asked' \subseteq Req
  BY DEF ReqType
<1>3. Append(sendq, r) \in Seq(Req)
  BY <1>2
<1>4. ReqType'
  BY <1>1, <1>2, <1>3 DEF ReqType
<1>5. WireType'
  BY <1>1 DEF WireType
<1>6. /\ ack[r] = 0 /\ told[r] = <<>> /\ ToldOnce(ack, asked \cup {r}, told)
      /\ pool # NoPool => SlotsAgree(ack, pool, asked \cup {r}, told)
  BY NotAsked
<1>7. ASSUME pool # NoPool
      PROVE  /\ QueueAgrees(ack, Append(sendq, r), asked \cup {r}, told)
             /\ FlightAgrees(ack, pool, Append(sendq, r), to, held, back)
  <2>1. QueueAgrees(ack, sendq, asked, told) /\ FlightAgrees(ack, pool, sendq, to, held, back)
    BY <1>7 DEF SettleInv
  <2>2. /\ QueueAgrees(ack, Append(sendq, r), asked \cup {r}, told)
        /\ ToSet(Append(sendq, r)) = ToSet(sendq) \cup {r}
    BY <1>2, <1>6, <2>1, QueueGrows
  <2>3. r \notin ToSet(to) \cup held \cup Ofs(back)
    BY <1>6, <2>1 DEF FlightAgrees
  <2> QED
    BY <2>1, <2>2, <2>3 DEF FlightAgrees
<1>8. GoneInv'
  BY <1>1, <1>6 DEF SettleInv, GoneInv
<1>9. StateInv'
  BY <1>1 DEF SettleInv, StateInv
<1>10. ToldOnce(ack, asked, told)'
  BY <1>1, <1>6 DEF ToldOnce
<1>11. pool' # NoPool => /\ SlotsAgree(ack, pool, asked, told)'
                         /\ QueueAgrees(ack, sendq, asked, told)'
                         /\ FlightAgrees(ack, pool, sendq, to, held, back)'
  BY <1>1, <1>6, <1>7 DEF SlotsAgree, QueueAgrees, FlightAgrees, Ofs
<1> QED
  BY <1>4, <1>5, <1>8, <1>9, <1>10, <1>11 DEF SettleInv

\* Messages of q, all asked for (A), go from the queue, which becomes sq, to those
\* under way, which become i, or stay where they were.
Moves(q, A, sq, i) ==
  /\ A \subseteq Req /\ asked \subseteq A /\ ToSet(q) \subseteq A
  /\ sq \in Seq(Req) /\ IsInjective(sq) /\ \A r \in ToSet(sq) : r \in A /\ told[r] = <<>>
  /\ \A r \in A : ack[r] = 0 => r \in ToSet(sq) \cup ToSet(q)
  /\ i \in Seq(Req) /\ IsInjective(i) /\ ToSet(i) \subseteq ToSet(to) \cup ToSet(q)
  /\ \A r \in ToSet(i) : r \in ToSet(to) \/ (told[r] = <<>> /\ r \notin held \cup Ofs(back))
  /\ ToSet(sq) \cap (ToSet(i) \cup held \cup Ofs(back)) = {}

\* The places agree after that.
LEMMA MovesAgree ==
  ASSUME ReqType, WireType, SettleInv, pool \in Pools, NEW q \in Seq(Req), Fits(q),
         NEW A, NEW sq, NEW i, Moves(q, A, sq, i),
         NEW a, NEW p, a = Begin(q).ack, p = Begin(q).pool
  PROVE  /\ a \in Acks /\ p \in Pools
         /\ ToldOnce(a, A, told) /\ SlotsAgree(a, p, A, told)
         /\ QueueAgrees(a, sq, A, told) /\ FlightAgrees(a, p, sq, i, held, back)
         /\ \A r \in ToSet(i) \cup held : a[r] # 0
<1> USE DEF Moves
<1>1. pool # NoPool
  BY NoPoolApart
<1>2. /\ ToldOnce(ack, asked, told) /\ SlotsAgree(ack, pool, asked, told)
      /\ FlightAgrees(ack, pool, sendq, to, held, back)
  BY <1>1 DEF SettleInv
<1>3. /\ a \in Acks /\ p \in Pools
      /\ \A r \in Req : ack[r] # 0 => a[r] = ack[r]
      /\ \A r \in ToSet(q) : a[r] # 0
      /\ \A r \in Req : ack[r] # 0 /\ pool[ack[r]] = r => p[a[r]] = r
      /\ \A B \in SUBSET Req :
           /\ asked \subseteq B /\ ToSet(q) \subseteq B
           /\ ToldOnce(ack, asked, told) /\ SlotsAgree(ack, pool, asked, told)
           => ToldOnce(a, B, told) /\ SlotsAgree(a, p, B, told)
  BY BegunSlots
<1>4. ToldOnce(a, A, told) /\ SlotsAgree(a, p, A, told)
  BY <1>2, <1>3
<1>5. QueueAgrees(a, sq, A, told)
  <2>1. ASSUME NEW r \in A, a[r] = 0 PROVE r \in ToSet(sq)
    <3>1. r \notin ToSet(q) /\ ack[r] = 0
      BY <1>3, <2>1
    <3> QED
      BY <3>1
  <2> QED
    BY <2>1 DEF QueueAgrees
<1>6. ToSet(to) \subseteq Req /\ ToSet(q) \subseteq Req /\ held \subseteq Req /\ Ofs(back) \subseteq Req
  <2>1. ToSet(to) \subseteq Req /\ held \subseteq Req
    BY DEF WireType, ToSet
  <2>2. \A j \in DOMAIN back : back[j] \in AnswerMsg
    BY DEF WireType
  <2>3. \A x \in AnswerMsg : x.of \in Req
    BY DEF AnswerMsg
  <2> QED
    BY <2>1, <2>2, <2>3 DEF Ofs
<1>7. \A r \in ToSet(to) \cup held \cup Ofs(back) : ack[r] # 0 /\ pool[ack[r]] = r
  BY <1>2 DEF FlightAgrees
<1>8. \A r \in ToSet(to) \cup held \cup Ofs(back) : a[r] = ack[r] /\ a[r] # 0 /\ p[a[r]] = r
  BY <1>3, <1>6, <1>7
<1>9. \A r \in ToSet(i) : r \in ToSet(to) \/ r \in ToSet(q)
  BY Zenon
<1>10. ASSUME NEW r \in ToSet(i) PROVE a[r] # 0 /\ p[a[r]] = r
  <2>1. CASE r \in ToSet(to)
    BY <1>8, <2>1
  <2>2. CASE r \notin ToSet(to)
    <3>1. r \in ToSet(q) /\ told[r] = <<>> /\ r \in Req
      BY <1>6, <1>9, <2>2
    <3> QED
      BY <1>3, <1>4, <3>1 DEF SlotsAgree
  <2> QED
    BY <2>1, <2>2
<1>11. FlightAgrees(a, p, sq, i, held, back)
  <2>1. /\ \A j, k \in DOMAIN back : back[j].of = back[k].of => j = k
        /\ held \cap Ofs(back) = {} /\ ToSet(to) \cap held = {} /\ ToSet(to) \cap Ofs(back) = {}
    BY <1>2 DEF FlightAgrees
  <2>2. ToSet(i) \cap held = {} /\ ToSet(i) \cap Ofs(back) = {}
    BY <2>1
  <2>3. \A j \in DOMAIN back : back[j].ack = a[back[j].of]
    <3>1. \A j \in DOMAIN back : back[j].of \in Ofs(back) /\ back[j].ack = ack[back[j].of]
      BY <1>2 DEF FlightAgrees, Ofs
    <3> QED
      BY <1>8, <3>1
  <2> QED
    BY <1>8, <1>10, <2>1, <2>2, <2>3 DEF FlightAgrees
<1>12. \A r \in ToSet(i) \cup held : a[r] # 0
  BY <1>8, <1>10
<1> QED
  BY <1>3, <1>4, <1>5, <1>11, <1>12

\* Flush, up to message j.
LEMMA FlushEffect ==
  ASSUME ReqType, WireType, SettleInv, NEW j \in 0 .. Len(sendq), Flush(j),
         NEW p, p = Begin(Begun(j)).pool
  PROVE  /\ pool \in Pools /\ sendq' \in Seq(Req) /\ to' \in Seq(Req)
         /\ ack' \in Acks /\ p \in Pools
         /\ ToldOnce(ack', asked, told) /\ SlotsAgree(ack', p, asked, told)
         /\ QueueAgrees(ack', sendq', asked, told)
         /\ FlightAgrees(ack', p, sendq', to', held, back)
         /\ \A r \in ToSet(to') \cup held : ack'[r] # 0
<1>1. /\ Fits(Begun(j)) /\ ack' = Begin(Begun(j)).ack
      /\ sendq' = SubSeq(sendq, j + 1, Len(sendq))
      /\ to' = IF eof THEN to ELSE to \o SubSeq(sendq, 1, j)
  BY DEF Flush
<1>2. pool # NoPool
  BY <1>1 DEF Fits
<1>3. pool \in Pools /\ sendq \in Seq(Req) /\ to \in Seq(Req) /\ asked \in SUBSET Req
  BY <1>2 DEF ReqType, WireType
<1>4. /\ QueueAgrees(ack, sendq, asked, told)
      /\ FlightAgrees(ack, pool, sendq, to, held, back)
  BY <1>2 DEF SettleInv
<1>5. IsInjective(sendq) /\ \A r \in ToSet(sendq) : r \in asked /\ told[r] = <<>>
  BY <1>4 DEF QueueAgrees
<1> DEFINE w == SubSeq(sendq, 1, j)
           rest == SubSeq(sendq, j + 1, Len(sendq))
           q == Begun(j)
<1>6. /\ w \in Seq(Req) /\ rest \in Seq(Req) /\ IsInjective(w) /\ IsInjective(rest)
      /\ ToSet(sendq) = ToSet(w) \cup ToSet(rest) /\ ToSet(w) \cap ToSet(rest) = {}
  BY <1>3, <1>5, SplitOnce
<1>7. q \in Seq(Req) /\ ToSet(w) \subseteq ToSet(q) /\ ToSet(q) \subseteq ToSet(sendq)
  <2>1. CASE j < Len(sendq)
    <3>1. q = SubSeq(sendq, 1, j + 1) /\ j + 1 \in 0 .. Len(sendq) /\ j \in Nat
      BY <2>1 DEF Begun
    <3>2. q \in Seq(Req) /\ ToSet(q) \subseteq ToSet(sendq)
      BY <1>3, <3>1, SplitOnce
    <3>3. /\ DOMAIN w = 1 .. j /\ \A i \in 1 .. j : w[i] = sendq[i]
          /\ DOMAIN SubSeq(sendq, 1, j + 1) = 1 .. j + 1
          /\ \A i \in 1 .. j + 1 : SubSeq(sendq, 1, j + 1)[i] = sendq[i]
      BY <1>3, <3>1
    <3>4. \A i \in 1 .. j : w[i] = SubSeq(sendq, 1, j + 1)[i] /\ i \in 1 .. j + 1
      BY <3>1, <3>3
    <3>5. ToSet(w) \subseteq ToSet(SubSeq(sendq, 1, j + 1))
      BY <3>3, <3>4 DEF ToSet
    <3> QED
      BY <3>1, <3>2, <3>5
  <2>2. CASE ~(j < Len(sendq))
    <3>1. q = w
      BY <2>2 DEF Begun
    <3> QED
      BY <1>6, <3>1
  <2> QED
    BY <2>1, <2>2
<1> HIDE DEF w, rest, q
<1>8. /\ IsInjective(to) /\ ToSet(to) \cap ToSet(sendq) = {}
      /\ ToSet(sendq) \cap (held \cup Ofs(back)) = {}
  BY <1>4 DEF FlightAgrees
<1>9. PICK i : i = IF eof THEN to ELSE to \o w
  OBVIOUS
<1>10. /\ i \in Seq(Req) /\ IsInjective(i)
       /\ ToSet(to) \subseteq ToSet(i) /\ ToSet(i) \subseteq ToSet(to) \cup ToSet(w)
  <2>1. CASE eof
    BY <1>3, <1>8, <1>9, <2>1
  <2>2. CASE ~eof
    <3>1. i = to \o w
      BY <1>9, <2>2
    <3>2. i \in Seq(Req)
      BY <1>3, <1>6, <3>1, ConcatType
    <3>3. ToSet(to) \cap ToSet(w) = {}
      BY <1>6, <1>8
    <3>4. IsInjective(i) /\ ToSet(i) = ToSet(to) \cup ToSet(w)
      BY <1>3, <1>6, <1>8, <3>1, <3>3, ConcatOnce
    <3> QED
      BY <3>2, <3>4
  <2> QED
    BY <2>1, <2>2
<1>11. ToSet(i) \subseteq ToSet(to) \cup ToSet(q)
  BY <1>7, <1>10
<1>12. \A r \in ToSet(i) : r \in ToSet(to) \/ (told[r] = <<>> /\ r \notin held \cup Ofs(back))
  BY <1>5, <1>6, <1>8, <1>10
<1>13. ToSet(rest) \cap (ToSet(i) \cup held \cup Ofs(back)) = {}
  BY <1>6, <1>8, <1>10
<1>14. \A r \in ToSet(rest) : r \in asked /\ told[r] = <<>>
  BY <1>5, <1>6
<1>15. \A r \in asked : ack[r] = 0 => r \in ToSet(rest) \cup ToSet(q)
  BY <1>4, <1>6, <1>7 DEF QueueAgrees
<1>16. ToSet(q) \subseteq asked
  BY <1>5, <1>7
<1>17. Fits(q) /\ ack' = Begin(q).ack /\ p = Begin(q).pool /\ sendq' = rest /\ to' = i
  BY <1>1, <1>9 DEF q, rest, w
<1>18. Moves(q, asked, rest, i)
  BY <1>3, <1>6, <1>10, <1>11, <1>12, <1>13, <1>14, <1>15, <1>16 DEF Moves
<1>19. /\ ack' \in Acks /\ p \in Pools
       /\ ToldOnce(ack', asked, told) /\ SlotsAgree(ack', p, asked, told)
       /\ QueueAgrees(ack', rest, asked, told) /\ FlightAgrees(ack', p, rest, i, held, back)
       /\ \A r \in ToSet(i) \cup held : ack'[r] # 0
  BY <1>3, <1>7, <1>17, <1>18, MovesAgree
<1> QED
  BY <1>3, <1>6, <1>10, <1>17, <1>19

\* A socket that has a pool and is not closed.
LEMMA KeptSettles ==
  ASSUME pool' \in Pools, sock' \in {"connecting", "dialed", "open"}, ToldOnce(ack', asked', told'),
         SlotsAgree(ack', pool', asked', told'), QueueAgrees(ack', sendq', asked', told'),
         FlightAgrees(ack', pool', sendq', to', held', back')
  PROVE  SettleInv'
<1>1. pool' # NoPool
  BY NoPoolApart
<1>2. GoneInv' /\ StateInv'
  BY <1>1 DEF GoneInv, StateInv
<1>3. /\ ToldOnce(ack, asked, told)' /\ SlotsAgree(ack, pool, asked, told)'
      /\ QueueAgrees(ack, sendq, asked, told)'
      /\ FlightAgrees(ack, pool, sendq, to, held, back)'
  BY DEF ToldOnce, SlotsAgree, QueueAgrees, FlightAgrees, Ofs
<1> QED
  BY <1>2, <1>3 DEF SettleInv

LEMMA SendWrittenStep ==
  ASSUME ReqType, WireType, SettleInv, ~down, NEW r \in Req, r \notin asked,
         asked' = asked \cup {r}, NEW whole \in BOOLEAN, SendWritten(r, whole),
         sock = "open", sendq = <<>>, UNCHANGED respVars
  PROVE  ReqType' /\ WireType' /\ SettleInv'
<1> DEFINE q == <<r>>
<1>1. /\ Fits(q) /\ ack' = Begin(q).ack /\ pool' = Begin(q).pool
      /\ to' = IF whole /\ ~eof THEN Append(to, r) ELSE to
      /\ sendq' = IF whole THEN <<>> ELSE <<r>>
      /\ UNCHANGED <<sock, waitflush, soon, down, told, back, eof, held, ignored>>
  BY DEF SendWritten, respVars
<1>2. pool # NoPool
  BY <1>1 DEF Fits
<1>3. pool \in Pools /\ to \in Seq(Req) /\ asked \in SUBSET Req
  BY <1>2 DEF ReqType, WireType
<1>4. q \in Seq(Req) /\ ToSet(q) = {r} /\ IsInjective(q)
  BY SingleOnce
<1>5. ToSet(<<>>) = {} /\ IsInjective(<<>>) /\ <<>> \in Seq(Req)
  BY DEF ToSet, IsInjective
<1>6. /\ QueueAgrees(ack, sendq, asked, told)
      /\ FlightAgrees(ack, pool, sendq, to, held, back)
  BY <1>2 DEF SettleInv
<1>7. ack[r] = 0 /\ told[r] = <<>>
  BY NotAsked
<1>8. r \notin ToSet(to) \cup held \cup Ofs(back)
  BY <1>6, <1>7 DEF FlightAgrees
<1>9. sendq' \in Seq(Req) /\ IsInjective(sendq') /\ ToSet(sendq') = IF whole THEN {} ELSE {r}
  BY <1>1, <1>4, <1>5
<1>10. IsInjective(to)
  BY <1>6 DEF FlightAgrees
<1>11. /\ to' \in Seq(Req) /\ IsInjective(to')
       /\ ToSet(to') = ToSet(to) \cup (IF whole /\ ~eof THEN {r} ELSE {})
  <2>1. CASE whole /\ ~eof
    <3>1. to' = Append(to, r)
      BY <1>1, <2>1
    <3>2. Append(to, r) \in Seq(Req)
      BY <1>3
    <3> QED
      BY <1>3, <1>8, <1>10, <2>1, <3>1, <3>2, AppendOnce
  <2>2. CASE ~(whole /\ ~eof)
    BY <1>1, <1>3, <1>10, <2>2
  <2> QED
    BY <2>1, <2>2
<1> HIDE DEF q
<1>12. Moves(q, asked \cup {r}, sendq', to')
  <2>1. asked \cup {r} \subseteq Req /\ asked \subseteq asked \cup {r} /\ ToSet(q) \subseteq asked \cup {r}
    BY <1>3, <1>4
  <2>2. \A x \in ToSet(sendq') : x \in asked \cup {r} /\ told[x] = <<>>
    BY <1>7, <1>9
  <2>3. \A x \in asked : ack[x] # 0
    BY <1>5, <1>6 DEF QueueAgrees
  <2>4. \A x \in asked \cup {r} : ack[x] = 0 => x \in ToSet(sendq') \cup ToSet(q)
    BY <1>4, <2>3
  <2>5. \A x \in ToSet(to') : x \in ToSet(to) \/ (told[x] = <<>> /\ x \notin held \cup Ofs(back))
    BY <1>7, <1>8, <1>11
  <2>6. ToSet(sendq') \cap (ToSet(to') \cup held \cup Ofs(back)) = {}
    BY <1>8, <1>9, <1>11
  <2>7. ToSet(to') \subseteq ToSet(to) \cup ToSet(q)
    BY <1>4, <1>11
  <2> QED
    BY <1>9, <1>11, <2>1, <2>2, <2>4, <2>5, <2>6, <2>7 DEF Moves
<1>13. /\ ack' \in Acks /\ pool' \in Pools
       /\ ToldOnce(ack', asked', told) /\ SlotsAgree(ack', pool', asked', told)
       /\ QueueAgrees(ack', sendq', asked', told)
       /\ FlightAgrees(ack', pool', sendq', to', held, back)
       /\ \A x \in ToSet(to') \cup held : ack'[x] # 0
  BY <1>1, <1>3, <1>4, <1>12, MovesAgree
<1>14. ReqType'
  BY <1>1, <1>3, <1>9, <1>13 DEF ReqType
<1>15. WireType'
  BY <1>1, <1>11, <1>13 DEF WireType
<1>16. SettleInv'
  BY <1>1, <1>13, KeptSettles
<1> QED
  BY <1>14, <1>15, <1>16

LEMMA SendThrowsStep ==
  ASSUME ReqType, WireType, SettleInv, ~down, NEW r \in Req, r \notin asked,
         asked' = asked \cup {r}, SendThrows(r), UNCHANGED respVars
  PROVE  ReqType' /\ WireType' /\ SettleInv'
<1>1. /\ Fits(<<r>>) /\ Destroyed(pool, told) /\ sendq' = <<r>>
      /\ back' = <<>> /\ UNCHANGED <<to, eof, ack, waitflush, soon, held, ignored>>
  BY DEF SendThrows, HungUp, respVars
<1>2. pool # NoPool
  BY <1>1 DEF Fits
<1>3. pool \in Pools /\ asked' \in SUBSET Req /\ told \in Tells /\ ack' \in Acks
  BY <1>1, <1>2 DEF ReqType
<1>4. sock' = "destroyed" /\ pool' = NoPool /\ told' \in Tells /\ down' \in BOOLEAN
  BY <1>1, <1>3, DestroyedTells
<1>5. /\ ToldOnce(ack', asked', told) /\ SlotsAgree(ack', pool, asked', told)
  BY <1>1, <1>2, NotAsked
<1>6. SettleInv'
  BY <1>1, <1>2, <1>3, <1>5, DestroyedSettles
<1>7. ReqType'
  <2>1. <<r>> \in Seq(Req)
    OBVIOUS
  <2>2. waitflush' \in BOOLEAN /\ soon' \in BOOLEAN
    BY <1>1 DEF ReqType
  <2> QED
    BY <1>1, <1>3, <1>4, <2>1, <2>2 DEF ReqType
<1>8. WireType'
  <2>1. <<>> \in Seq(AnswerMsg)
    OBVIOUS
  <2> QED
    BY <1>1, <2>1 DEF WireType
<1> QED
  BY <1>6, <1>7, <1>8

LEMMA SendStep ==
  ASSUME ReqType, WireType, SettleInv, NEW r \in Req, Send(r)
  PROVE  ReqType' /\ WireType' /\ (~down' => SettleInv')
<1>1. ~down /\ r \notin asked /\ asked' = asked \cup {r} /\ UNCHANGED respVars
  BY DEF Send
<1>2. CASE sock \in {"connecting", "dialed"} \/ sendq # <<>>
  <2>1. SendQueued(r)
    BY <1>2 DEF Send
  <2>2. sock # "closed"
    BY <1>2 DEF SettleInv, StateInv
  <2> QED
    BY <1>1, <2>1, <2>2, SendQueuedStep
<1>3. CASE ~(sock \in {"connecting", "dialed"} \/ sendq # <<>>)
  <2>1. sock = "open" /\ (SendThrows(r) \/ \E whole \in BOOLEAN : SendWritten(r, whole))
    BY <1>3 DEF Send
  <2> QED
    BY <1>1, <1>3, <2>1, SendThrowsStep, SendWrittenStep
<1> QED
  BY <1>2, <1>3

LEMMA OnFlushedStep ==
  ASSUME ReqType, WireType, SettleInv,
         NEW j \in 0 .. Len(sendq), OnFlushed(j), UNCHANGED <<respVars, asked>>
  PROVE  ReqType' /\ WireType' /\ SettleInv'
<1>1. PICK p : p = Begin(Begun(j)).pool
  OBVIOUS
<1>2. /\ Flush(j) /\ waitflush' = (j < Len(sendq))
      /\ UNCHANGED <<soon, eof, held, ignored, asked>>
      /\ \/ Destroyed(p, told) /\ back' = <<>>
         \/ sock' = "open" /\ pool' = p /\ UNCHANGED <<down, told, back>>
  BY <1>1 DEF OnFlushed, respVars
<1>3. /\ pool \in Pools /\ sendq' \in Seq(Req) /\ to' \in Seq(Req)
      /\ ack' \in Acks /\ p \in Pools
      /\ ToldOnce(ack', asked, told) /\ SlotsAgree(ack', p, asked, told)
      /\ QueueAgrees(ack', sendq', asked, told)
      /\ FlightAgrees(ack', p, sendq', to', held, back)
      /\ \A r \in ToSet(to') \cup held : ack'[r] # 0
  BY <1>1, <1>2, FlushEffect
<1>4. /\ waitflush' \in BOOLEAN /\ soon' \in BOOLEAN /\ eof' \in BOOLEAN
      /\ asked' \in SUBSET Req /\ told \in Tells
  <2>1. (j < Len(sendq)) \in BOOLEAN
    OBVIOUS
  <2>2. soon \in BOOLEAN /\ eof \in BOOLEAN /\ asked \in SUBSET Req /\ told \in Tells
    BY DEF ReqType, WireType
  <2> QED
    BY <1>2, <2>1, <2>2
<1>5. CASE Destroyed(p, told) /\ back' = <<>>
  <2>1. sock' = "destroyed" /\ pool' = NoPool /\ told' \in Tells /\ down' \in BOOLEAN
    BY <1>3, <1>4, <1>5, DestroyedTells
  <2>2. ToldOnce(ack', asked', told) /\ SlotsAgree(ack', p, asked', told)
    BY <1>2, <1>3
  <2>3. p # NoPool
    BY <1>3, NoPoolApart
  <2>4. SettleInv'
    BY <1>3, <1>4, <1>5, <2>2, <2>3, DestroyedSettles
  <2>5. ReqType'
    BY <1>3, <1>4, <2>1 DEF ReqType
  <2>6. back' \in Seq(AnswerMsg)
    BY <1>5
  <2>7. WireType'
    BY <1>2, <1>3, <1>4, <2>6 DEF WireType
  <2> QED
    BY <2>4, <2>5, <2>7
<1>6. CASE sock' = "open" /\ pool' = p /\ UNCHANGED <<down, told, back>>
  <2>1. /\ ToldOnce(ack', asked', told') /\ SlotsAgree(ack', pool', asked', told')
        /\ QueueAgrees(ack', sendq', asked', told')
        /\ FlightAgrees(ack', pool', sendq', to', held', back')
    BY <1>2, <1>3, <1>6
  <2>2. SettleInv'
    BY <1>3, <1>6, <2>1, KeptSettles
  <2>3. down' \in BOOLEAN
    BY <1>6 DEF ReqType
  <2>4. ReqType'
    BY <1>3, <1>4, <1>6, <2>3 DEF ReqType
  <2>5. WireType'
    BY <1>2, <1>3, <1>4, <1>6 DEF WireType
  <2> QED
    BY <2>2, <2>4, <2>5
<1> QED
  BY <1>2, <1>5, <1>6

LEMMA FlushThrowsStep ==
  ASSUME ReqType, WireType, SettleInv,
         NEW j \in 0 .. Len(sendq), FlushThrows(j), UNCHANGED <<respVars, asked>>,
         waitflush' \in BOOLEAN, soon' \in BOOLEAN
  PROVE  ReqType' /\ WireType' /\ SettleInv'
<1> DEFINE q == SubSeq(sendq, 1, j)
<1>1. PICK p : p = Begin(q).pool
  OBVIOUS
<1>2. /\ j < Len(sendq) /\ Fits(SubSeq(sendq, 1, j + 1)) /\ ack' = Begin(q).ack
      /\ sendq' = SubSeq(sendq, j + 2, Len(sendq)) /\ Destroyed(p, told)
      /\ back' = <<>> /\ UNCHANGED <<to, eof, held, ignored, asked>>
  BY <1>1 DEF FlushThrows, HungUp, respVars
<1>3. pool # NoPool
  BY <1>2 DEF Fits
<1>4. /\ pool \in Pools /\ sendq \in Seq(Req) /\ told \in Tells /\ soon \in BOOLEAN
      /\ asked \in SUBSET Req
  BY <1>3 DEF ReqType
<1>5. /\ Len(sendq) \in Nat /\ j \in Nat /\ j + 1 \in 0 .. Len(sendq)
      /\ SubSeq(sendq, 1, j + 1) \in Seq(Req) /\ Len(SubSeq(sendq, 1, j + 1)) = j + 1
  BY <1>2, <1>4, PrefixType
<1>6. q \in Seq(Req) /\ ToSet(q) \subseteq ToSet(sendq)
  BY <1>4, SplitOnce
<1>7. SubSeq(SubSeq(sendq, 1, j + 1), 1, j) = q
  <2>1. PICK t : t = SubSeq(sendq, 1, j + 1)
    OBVIOUS
  <2>2. t \in Seq(Req) /\ Len(t) = j + 1 /\ \A i \in 1 .. j + 1 : t[i] = sendq[i]
    BY <1>4, <1>5, <2>1
  <2>3. SubSeq(t, 1, j) = [i \in 1 .. j |-> t[i]]
    BY <1>5, <2>2
  <2>4. q = [i \in 1 .. j |-> sendq[i]]
    BY <1>4, <1>5
  <2>5. \A i \in 1 .. j : t[i] = sendq[i]
    BY <1>5, <2>2
  <2> QED
    BY <2>1, <2>3, <2>4, <2>5
<1>8. Fits(q)
  <2>1. j \in 0 .. Len(SubSeq(sendq, 1, j + 1))
    BY <1>5
  <2> QED
    BY <1>2, <1>4, <1>5, <1>7, <2>1, FitsPart
<1> HIDE DEF q
<1>9. /\ ToldOnce(ack, asked, told) /\ SlotsAgree(ack, pool, asked, told)
      /\ ToSet(q) \subseteq asked
  BY <1>3, <1>6 DEF SettleInv, QueueAgrees
<1>10. /\ ack' \in Acks /\ p \in Pools
       /\ \A r \in Req : ack[r] # 0 => ack'[r] = ack[r]
       /\ \A B \in SUBSET Req :
            /\ asked \subseteq B /\ ToSet(q) \subseteq B
            /\ ToldOnce(ack, asked, told) /\ SlotsAgree(ack, pool, asked, told)
            => ToldOnce(ack', B, told) /\ SlotsAgree(ack', p, B, told)
  <2>1. /\ pool \in Pools /\ q \in Seq(Req) /\ Fits(q)
        /\ ack' = Begin(q).ack /\ p = Begin(q).pool
    BY <1>1, <1>2, <1>4, <1>6, <1>8
  <2>2. PICK a : a = ack'
    OBVIOUS
  <2>3. a = Begin(q).ack
    BY <2>1, <2>2
  <2>4. /\ a \in Acks /\ p \in Pools
        /\ \A r \in Req : ack[r] # 0 => a[r] = ack[r]
        /\ \A B \in SUBSET Req :
             /\ asked \subseteq B /\ ToSet(q) \subseteq B
             /\ ToldOnce(ack, asked, told) /\ SlotsAgree(ack, pool, asked, told)
             => ToldOnce(a, B, told) /\ SlotsAgree(a, p, B, told)
    BY <2>1, <2>3, BegunSlots
  <2> QED
    BY <2>2, <2>4, Zenon
<1>11. ToldOnce(ack', asked', told) /\ SlotsAgree(ack', p, asked', told)
  BY <1>2, <1>4, <1>9, <1>10
<1>12. p # NoPool
  BY <1>10, NoPoolApart
<1>13. SettleInv'
  BY <1>2, <1>4, <1>10, <1>11, <1>12, DestroyedSettles
<1>14. sock' = "destroyed" /\ pool' = NoPool /\ told' \in Tells /\ down' \in BOOLEAN
  BY <1>2, <1>4, <1>10, DestroyedTells
<1>15. sendq' \in Seq(Req)
  <2>1. j + 2 = (j + 1) + 1
    BY <1>5
  <2> QED
    BY <1>2, <1>4, <1>5, <2>1, SuffixType, SMTT(30)
<1>16. ReqType'
  BY <1>2, <1>4, <1>10, <1>14, <1>15 DEF ReqType
<1>17. WireType'
  <2>1. back' \in Seq(AnswerMsg)
    BY <1>2
  <2>2. \A r \in ToSet(to) \cup held : r \in Req /\ ack[r] # 0
    BY DEF WireType, ToSet
  <2>3. \A r \in ToSet(to) \cup held : ack'[r] # 0
    BY <1>10, <2>2
  <2> QED
    BY <1>2, <2>1, <2>3 DEF WireType
<1> QED
  BY <1>13, <1>16, <1>17

LEMMA FlushFailsStep ==
  ASSUME ReqType, WireType, FlushFails, UNCHANGED wires, UNCHANGED <<respVars, asked>>
  PROVE  ReqType' /\ WireType' /\ down'
<1>1. /\ down' = TRUE
      /\ UNCHANGED <<sock, sendq, pool, ack, waitflush, soon, told, to, back, eof, held,
                     ignored, asked>>
  BY DEF FlushFails, wires, respVars
<1>2. ReqType'
  <2>1. down' \in BOOLEAN
    BY <1>1
  <2> QED
    BY <1>1, <2>1 DEF ReqType
<1>3. WireType'
  BY <1>1 DEF WireType
<1> QED
  BY <1>1, <1>2, <1>3

LEMMA FlushingStep ==
  ASSUME ReqType, WireType, SettleInv, Flushing, UNCHANGED <<respVars, asked>>
  PROVE  ReqType' /\ WireType' /\ (~down' => SettleInv')
<1>1. ASSUME NEW j \in 0 .. Len(sendq), FlushThrows(j), waitflush' = TRUE, UNCHANGED soon
      PROVE  ReqType' /\ WireType' /\ SettleInv'
  <2>1. waitflush' \in BOOLEAN /\ soon' \in BOOLEAN
    BY <1>1 DEF ReqType
  <2> QED
    BY <1>1, <2>1, FlushThrowsStep
<1> QED
  BY <1>1, OnFlushedStep, FlushFailsStep DEF Flushing

LEMMA OnWritableStep ==
  ASSUME ReqType, WireType, SettleInv, OnWritable
  PROVE  ReqType' /\ WireType' /\ (~down' => SettleInv')
BY FlushingStep DEF OnWritable

\* The socket comes a step nearer to its connection, and that is all.
LEMMA SameButSock ==
  ASSUME ReqType, WireType, SettleInv, sock \in {"connecting", "dialed"},
         sock' \in {"dialed", "open"}, UNCHANGED <<respVars, asked>>,
         UNCHANGED <<sendq, pool, ack, waitflush, soon, down, told, wires>>
  PROVE  ReqType' /\ WireType' /\ SettleInv'
<1>1. UNCHANGED <<sendq, pool, ack, waitflush, soon, down, told, to, back, eof, held,
                  ignored, asked>>
  BY DEF wires, respVars
<1>2. ReqType'
  BY <1>1 DEF ReqType
<1>3. WireType'
  BY <1>1 DEF WireType
<1>4. GoneInv' /\ StateInv'
  BY <1>1 DEF SettleInv, GoneInv, StateInv
<1>5. ToldOnce(ack, asked, told)'
  BY <1>1 DEF SettleInv, ToldOnce
<1>6. pool' # NoPool => /\ SlotsAgree(ack, pool, asked, told)'
                        /\ QueueAgrees(ack, sendq, asked, told)'
                        /\ FlightAgrees(ack, pool, sendq, to, held, back)'
  BY <1>1 DEF SettleInv, SlotsAgree, QueueAgrees, FlightAgrees, Ofs
<1> QED
  BY <1>2, <1>3, <1>4, <1>5, <1>6 DEF SettleInv

LEMMA ConnectedStep ==
  ASSUME ReqType, WireType, SettleInv, Connected
  PROVE  ReqType' /\ WireType' /\ (~down' => SettleInv')
BY FlushingStep, SameButSock DEF Connected

LEMMA SoonStep ==
  ASSUME ReqType, WireType, SettleInv, NEW j \in 0 .. Len(sendq), Soon(j),
         sock \in {"connecting", "dialed", "open"},
         UNCHANGED <<respVars, asked>>
  PROVE  ReqType' /\ WireType' /\ SettleInv'
<1>1. PICK p : p = Begin(Begun(j)).pool
  OBVIOUS
<1>2. /\ Flush(j) /\ UNCHANGED <<waitflush, eof, held, ignored, asked>>
      /\ \/ Destroyed(p, told) /\ back' = <<>> /\ UNCHANGED soon
         \/ soon' = TRUE /\ pool' = p /\ UNCHANGED <<sock, down, told, back>>
  BY <1>1 DEF Soon, respVars
<1>3. /\ pool \in Pools /\ sendq' \in Seq(Req) /\ to' \in Seq(Req)
      /\ ack' \in Acks /\ p \in Pools
      /\ ToldOnce(ack', asked, told) /\ SlotsAgree(ack', p, asked, told)
      /\ QueueAgrees(ack', sendq', asked, told)
      /\ FlightAgrees(ack', p, sendq', to', held, back)
      /\ \A r \in ToSet(to') \cup held : ack'[r] # 0
  BY <1>1, <1>2, FlushEffect
<1>4. /\ waitflush' \in BOOLEAN /\ soon' \in BOOLEAN /\ eof' \in BOOLEAN
      /\ asked' \in SUBSET Req /\ told \in Tells
  <2>1. soon' = soon \/ soon' = TRUE
    BY <1>2
  <2>2. /\ waitflush \in BOOLEAN /\ soon \in BOOLEAN /\ eof \in BOOLEAN
        /\ asked \in SUBSET Req /\ told \in Tells
    BY DEF ReqType, WireType
  <2> QED
    BY <1>2, <2>1, <2>2
<1>5. CASE Destroyed(p, told) /\ back' = <<>>
  <2>1. sock' = "destroyed" /\ pool' = NoPool /\ told' \in Tells /\ down' \in BOOLEAN
    BY <1>3, <1>4, <1>5, DestroyedTells
  <2>2. ToldOnce(ack', asked', told) /\ SlotsAgree(ack', p, asked', told)
    BY <1>2, <1>3
  <2>3. p # NoPool
    BY <1>3, NoPoolApart
  <2>4. SettleInv'
    BY <1>3, <1>4, <1>5, <2>2, <2>3, DestroyedSettles
  <2>5. ReqType'
    BY <1>3, <1>4, <2>1 DEF ReqType
  <2>6. back' \in Seq(AnswerMsg)
    BY <1>5
  <2>7. WireType'
    BY <1>2, <1>3, <1>4, <2>6 DEF WireType
  <2> QED
    BY <2>4, <2>5, <2>7
<1>6. CASE soon' = TRUE /\ pool' = p /\ UNCHANGED <<sock, down, told, back>>
  <2>1. ReqType'
    BY <1>2, <1>3, <1>4, <1>6 DEF ReqType
  <2>2. WireType'
    BY <1>2, <1>3, <1>6 DEF WireType
  <2>3. /\ ToldOnce(ack', asked', told') /\ SlotsAgree(ack', pool', asked', told')
        /\ QueueAgrees(ack', sendq', asked', told')
        /\ FlightAgrees(ack', pool', sendq', to', held', back')
    BY <1>2, <1>3, <1>6
  <2>5. SettleInv'
    BY <1>3, <1>6, <2>3, KeptSettles
  <2> QED
    BY <2>1, <2>2, <2>5
<1> QED
  BY <1>2, <1>5, <1>6

LEMMA DestroySoonStep ==
  ASSUME ReqType, WireType, SettleInv, DestroySoon
  PROVE  ReqType' /\ WireType' /\ (~down' => SettleInv')
<1>1. ASSUME NEW j \in 0 .. Len(sendq), FlushThrows(j), soon' = TRUE, UNCHANGED waitflush
      PROVE  ReqType' /\ WireType' /\ SettleInv'
  <2>1. waitflush' \in BOOLEAN /\ soon' \in BOOLEAN
    BY <1>1 DEF ReqType
  <2> QED
    BY <1>1, <2>1, FlushThrowsStep DEF DestroySoon
<1> QED
  BY <1>1, SoonStep, FlushFailsStep DEF DestroySoon

LEMMA DestroyStep ==
  ASSUME ReqType, WireType, SettleInv, Destroy
  PROVE  ReqType' /\ WireType' /\ SettleInv'
<1>1. /\ Destroyed(pool, told) /\ back' = <<>>
      /\ UNCHANGED <<to, eof, sendq, ack, waitflush, soon, asked, held, ignored>>
  BY DEF Destroy, HungUp, respVars
<1>2. /\ pool \in Pools \/ pool = NoPool
      /\ told \in Tells /\ ack' \in Acks /\ asked' \in SUBSET Req
  BY <1>1 DEF ReqType
<1>3. /\ ToldOnce(ack', asked', told) /\ (pool \in Pools => SlotsAgree(ack', pool, asked', told))
      /\ pool = NoPool => \A r \in asked' : ack'[r] # 0 => told[r] # <<>>
  BY <1>1, NoPoolApart DEF SettleInv, GoneInv
<1>4. SettleInv'
  BY <1>1, <1>2, <1>3, DestroyedSettles
<1>5. sock' = "destroyed" /\ pool' = NoPool /\ told' \in Tells /\ down' \in BOOLEAN
  BY <1>1, <1>2, DestroyedTells
<1>6. ReqType'
  BY <1>1, <1>5 DEF ReqType
<1>7. WireType'
  <2>1. back' \in Seq(AnswerMsg)
    BY <1>1
  <2> QED
    BY <1>1, <2>1 DEF WireType
<1> QED
  BY <1>4, <1>6, <1>7

\* The request r of the first answer, in slot s, gets the call c; t is what the
\* requests were told then, and p the pool without it.
AnswerTells(s, r, c, t, p) ==
  /\ s = Head(back).ack /\ r = Head(back).of
  /\ t = [told EXCEPT ![r] = Append(@, <<c, r>>)]
  /\ p = [pool EXCEPT ![s] = Nil]

LEMMA AnswerTold ==
  ASSUME ReqType, WireType, SettleInv, back # <<>>, NEW c \in Calls,
         NEW s, NEW r, NEW t, NEW p, AnswerTells(s, r, c, t, p)
  PROVE  /\ pool[s] = r /\ r # Nil /\ pool \in Pools
         /\ t \in Tells /\ p \in Pools
         /\ ToldOnce(ack, asked, t) /\ SlotsAgree(ack, p, asked, t)
         /\ QueueAgrees(ack, sendq, asked, t)
         /\ FlightAgrees(ack, p, sendq, to, held, Tail(back))
         /\ Tail(back) \in Seq(AnswerMsg)
<1>0. /\ s = Head(back).ack /\ r = Head(back).of
      /\ t = [told EXCEPT ![r] = Append(@, <<c, r>>)]
      /\ p = [pool EXCEPT ![s] = Nil]
  BY DEF AnswerTells
<1>1. pool # NoPool
  BY DEF SettleInv, GoneInv
<1>2. pool \in Pools /\ ack \in Acks /\ told \in Tells /\ back \in Seq(AnswerMsg)
  BY <1>1 DEF ReqType, WireType
<1>3. /\ ToldOnce(ack, asked, told) /\ SlotsAgree(ack, pool, asked, told)
      /\ QueueAgrees(ack, sendq, asked, told)
      /\ FlightAgrees(ack, pool, sendq, to, held, back)
  BY <1>1 DEF SettleInv
<1>4. /\ 1 \in DOMAIN back /\ Head(back) = back[1] /\ Head(back) \in AnswerMsg
      /\ Tail(back) \in Seq(AnswerMsg) /\ DOMAIN back = 1 .. Len(back) /\ Len(back) \in Nat
      /\ DOMAIN Tail(back) = 1 .. Len(back) - 1
      /\ \A i \in 1 .. Len(back) - 1 : Tail(back)[i] = back[i + 1]
  BY <1>2
<1>5. s \in Slots /\ r \in Req
  BY <1>0, <1>4 DEF AnswerMsg
<1>6. r \in Ofs(back) /\ ack[r] = s
  BY <1>0, <1>3, <1>4 DEF FlightAgrees, Ofs
<1>7. pool[s] = r /\ s # 0 /\ r # Nil
  BY <1>3, <1>5, <1>6, DirectReqAssumption DEF FlightAgrees, Slots
<1>8. r \in asked /\ told[r] = <<>>
  BY <1>3, <1>5, <1>7 DEF SlotsAgree
<1>9. /\ t \in Tells /\ t[r] = << <<c, r>> >> /\ \A x \in Req : x # r => t[x] = told[x]
  <2>1. <<c, r>> \in Calls \X (Req \cup {Nil})
    BY <1>5
  <2>2. << <<c, r>> >> \in Seq(Calls \X (Req \cup {Nil}))
    BY <2>1
  <2>3. Append(<<>>, <<c, r>>) = << <<c, r>> >>
    OBVIOUS
  <2>4. t = [told EXCEPT ![r] = << <<c, r>> >>]
    BY <1>0, <1>8, <2>3
  <2> QED
    BY <1>2, <1>5, <2>2, <2>4 DEF Tells
<1>10. p \in Pools /\ p[s] = Nil /\ \A i \in Slots : i # s => p[i] = pool[i]
  BY <1>0, <1>2, <1>5 DEF Pools
<1>11. ToldOnce(ack, asked, t)
  <2>1. ASSUME NEW x \in Req
        PROVE  /\ Len(t[x]) <= 1
               /\ \A i \in DOMAIN t[x] : t[x][i][2] \in {x, Nil}
               /\ ack[x] = 0 => t[x] = <<>>
               /\ x \notin asked => ack[x] = 0
    <3>1. CASE x = r
      BY <1>6, <1>7, <1>8, <1>9, <3>1
    <3>2. CASE x # r
      BY <1>3, <1>9, <3>2 DEF ToldOnce
    <3> QED
      BY <3>1, <3>2
  <2> QED
    BY <2>1 DEF ToldOnce
<1>12. \A x \in Req : ack[x] # 0 => ack[x] \in Slots
  BY <1>2, DirectReqAssumption DEF Acks, Slots
<1>13. SlotsAgree(ack, p, asked, t)
  <2>1. ASSUME NEW i \in Slots, p[i] # Nil
        PROVE  ack[p[i]] = i /\ p[i] \in asked /\ t[p[i]] = <<>>
    <3>1. i # s /\ p[i] = pool[i] /\ p[i] \in Req
      BY <1>10, <2>1 DEF Pools
    <3>2. ack[p[i]] = i /\ p[i] \in asked /\ told[p[i]] = <<>>
      BY <1>3, <2>1, <3>1 DEF SlotsAgree
    <3>3. p[i] # r
      BY <1>6, <3>1, <3>2
    <3> QED
      BY <1>9, <3>1, <3>2, <3>3
  <2>2. ASSUME NEW x \in Req, ack[x] # 0, t[x] = <<>> PROVE p[ack[x]] = x
    <3>1. x # r
      <4>1. << <<c, r>> >> # <<>>
        OBVIOUS
      <4> QED
        BY <1>9, <2>2, <4>1
    <3>2. pool[ack[x]] = x
      BY <1>3, <1>9, <2>2, <3>1 DEF SlotsAgree
    <3>3. ack[x] \in Slots /\ ack[x] # s
      BY <1>7, <1>12, <2>2, <3>1, <3>2
    <3> QED
      BY <1>10, <3>2, <3>3
  <2> QED
    BY <2>1, <2>2 DEF SlotsAgree
<1>14. QueueAgrees(ack, sendq, asked, t)
  <2>1. r \notin ToSet(sendq)
    BY <1>3, <1>6 DEF FlightAgrees
  <2>2. ToSet(sendq) \subseteq Req
    BY DEF ReqType, ToSet
  <2> QED
    BY <1>3, <1>9, <2>1, <2>2 DEF QueueAgrees
<1>15. Ofs(Tail(back)) \subseteq Ofs(back) /\ r \notin Ofs(Tail(back))
  <2>1. ASSUME NEW i \in 1 .. Len(back) - 1
        PROVE  Tail(back)[i].of \in Ofs(back) /\ Tail(back)[i].of # r
    <3>1. i + 1 \in DOMAIN back /\ Tail(back)[i] = back[i + 1] /\ i + 1 # 1
      BY <1>4
    <3>2. back[1].of = r
      BY <1>0, <1>4
    <3>3. back[i + 1].of # back[1].of
      BY <1>3, <1>4, <3>1 DEF FlightAgrees
    <3> QED
      BY <3>1, <3>2, <3>3 DEF Ofs
  <2> QED
    BY <1>4, <2>1 DEF Ofs
<1>16. FlightAgrees(ack, p, sendq, to, held, Tail(back))
  <2>1. \A i, k \in DOMAIN Tail(back) : Tail(back)[i].of = Tail(back)[k].of => i = k
    <3>1. ASSUME NEW i \in 1 .. Len(back) - 1, NEW k \in 1 .. Len(back) - 1,
                 Tail(back)[i].of = Tail(back)[k].of
          PROVE  i = k
      <4>1. i + 1 \in DOMAIN back /\ k + 1 \in DOMAIN back /\ back[i + 1].of = back[k + 1].of
        BY <1>4, <3>1
      <4>2. i + 1 = k + 1
        BY <1>3, <4>1 DEF FlightAgrees
      <4> QED
        BY <4>2
    <3> QED
      BY <1>4, <3>1
  <2>2. \A i \in DOMAIN Tail(back) : Tail(back)[i].ack = ack[Tail(back)[i].of]
    <3>1. ASSUME NEW i \in 1 .. Len(back) - 1
          PROVE  Tail(back)[i].ack = ack[Tail(back)[i].of]
      <4>1. i + 1 \in DOMAIN back /\ Tail(back)[i] = back[i + 1]
        BY <1>4
      <4> QED
        BY <1>3, <4>1 DEF FlightAgrees
    <3> QED
      BY <1>4, <3>1
  <2>3. IsInjective(to) /\ ToSet(to) \cap held = {} /\ ToSet(to) \cap Ofs(back) = {}
        /\ held \cap Ofs(back) = {} /\ ToSet(sendq) \cap (ToSet(to) \cup held \cup Ofs(back)) = {}
    BY <1>3 DEF FlightAgrees
  <2>4. ASSUME NEW x \in ToSet(to) \cup held \cup Ofs(Tail(back))
        PROVE  ack[x] # 0 /\ p[ack[x]] = x
    <3>1. x \in ToSet(to) \cup held \cup Ofs(back) /\ x # r
      BY <1>6, <1>15, <2>3
    <3>2. ack[x] # 0 /\ pool[ack[x]] = x
      BY <1>3, <3>1 DEF FlightAgrees
    <3>3. x \in Req
      <4>1. \A y \in AnswerMsg : y.of \in Req
        BY DEF AnswerMsg
      <4>2. Ofs(back) \subseteq Req
        BY <1>2, <4>1 DEF Ofs
      <4> QED
        BY <3>1, <4>2 DEF WireType, ToSet
    <3>4. ack[x] \in Slots /\ ack[x] # s
      BY <1>7, <1>12, <3>1, <3>2, <3>3
    <3> QED
      BY <1>10, <3>2, <3>4
  <2> QED
    BY <1>15, <2>1, <2>2, <2>3, <2>4 DEF FlightAgrees
<1> QED
  BY <1>2, <1>4, <1>7, <1>9, <1>10, <1>11, <1>13, <1>14, <1>16

\* Where the first answer is handled, and what may follow.
LEMMA OnAnswerStep ==
  ASSUME ReqType, WireType, SettleInv, OnAnswer
  PROVE  ReqType' /\ WireType' /\ SettleInv'
<1>1. PICK a : a = Head(back)
  OBVIOUS
<1>2. PICK r, s : r = a.of /\ s = a.ack
  OBVIOUS
<1>3. PICK p : p = [pool EXCEPT ![s] = Nil]
  OBVIOUS
<1>4. PICK t : t = [told EXCEPT ![r] = Append(@, <<a.with[1], r>>)]
  OBVIOUS
<1>5. PICK n : n = [told EXCEPT ![r] = Append(@, <<"none", r>>)]
  OBVIOUS
<1>6. sock = "open" /\ back # <<>>
  BY DEF OnAnswer
<1>7. back \in Seq(AnswerMsg) /\ a \in AnswerMsg
  BY <1>1, <1>6 DEF WireType
<1>8. a.with[1] \in Calls /\ "none" \in Calls
  BY <1>7 DEF AnswerMsg, Calls
<1>9. /\ pool[s] = r /\ r # Nil /\ pool \in Pools
      /\ t \in Tells /\ p \in Pools
      /\ ToldOnce(ack, asked, t) /\ SlotsAgree(ack, p, asked, t)
      /\ QueueAgrees(ack, sendq, asked, t)
      /\ FlightAgrees(ack, p, sendq, to, held, Tail(back))
      /\ Tail(back) \in Seq(AnswerMsg)
  <2>1. AnswerTells(s, r, a.with[1], t, p)
    BY <1>1, <1>2, <1>3, <1>4 DEF AnswerTells
  <2> QED
    BY <1>6, <1>8, <2>1, AnswerTold
<1>10. n \in Tells /\ ToldOnce(ack, asked, n) /\ SlotsAgree(ack, p, asked, n)
  <2>1. AnswerTells(s, r, "none", n, p)
    BY <1>1, <1>2, <1>3, <1>5 DEF AnswerTells
  <2> QED
    BY <1>6, <1>8, <2>1, AnswerTold
<1>11. UNCHANGED <<sendq, ack, waitflush, soon, asked, to, eof, held, ignored>>
  BY DEF OnAnswer, respVars
<1>12. \/ (Destroyed(p, t) \/ Destroyed(p, n)) /\ back' = <<>>
       \/ told' = t /\ pool' = p /\ back' = Tail(back) /\ UNCHANGED <<sock, down>>
  <2>1. pool[a.ack] = r /\ a.of = r /\ a.ack = s /\ r # Nil
    BY <1>2, <1>9
  <2> QED
    BY <1>1, <1>3, <1>4, <1>5, <2>1 DEF OnAnswer
<1>13. /\ ack' \in Acks /\ asked' \in SUBSET Req /\ waitflush' \in BOOLEAN /\ soon' \in BOOLEAN
       /\ sendq' \in Seq(Req) /\ eof' \in BOOLEAN /\ down \in BOOLEAN
  BY <1>11 DEF ReqType, WireType
<1>14. ASSUME NEW u \in {t, n}, Destroyed(p, u), back' = <<>>
       PROVE  ReqType' /\ WireType' /\ SettleInv'
  <2>1. u \in Tells /\ ToldOnce(ack', asked', u) /\ SlotsAgree(ack', p, asked', u)
    BY <1>9, <1>10, <1>11
  <2>2. sock' = "destroyed" /\ pool' = NoPool /\ told' \in Tells /\ down' \in BOOLEAN
    BY <1>9, <1>14, <2>1, DestroyedTells
  <2>3. p # NoPool
    BY <1>9, NoPoolApart
  <2>4. SettleInv'
    BY <1>9, <1>13, <1>14, <2>1, <2>3, DestroyedSettles
  <2>5. ReqType'
    BY <1>13, <2>2 DEF ReqType
  <2>6. back' \in Seq(AnswerMsg)
    BY <1>14
  <2>7. WireType'
    BY <1>11, <1>13, <2>6 DEF WireType
  <2> QED
    BY <2>4, <2>5, <2>7
<1>15. CASE told' = t /\ pool' = p /\ back' = Tail(back) /\ UNCHANGED <<sock, down>>
  <2>1. sock' \in {"connecting", "dialed", "open"} /\ pool' \in Pools
    BY <1>6, <1>9, <1>15
  <2>2. /\ ToldOnce(ack', asked', told') /\ SlotsAgree(ack', pool', asked', told')
        /\ QueueAgrees(ack', sendq', asked', told')
        /\ FlightAgrees(ack', pool', sendq', to', held', back')
    BY <1>9, <1>11, <1>15
  <2>3. SettleInv'
    BY <2>1, <2>2, KeptSettles
  <2>4. ReqType'
    BY <1>9, <1>13, <1>15, <2>1 DEF ReqType
  <2>5. WireType'
    BY <1>9, <1>11, <1>15 DEF WireType
  <2> QED
    BY <2>3, <2>4, <2>5
<1> QED
  BY <1>12, <1>14, <1>15

-----------------------------------------------------------------------------
(* The steps of the responder and the process                              *)

LEMMA ReplyAppended ==
  ASSUME ReqType, WireType, NEW r \in Req, ack[r] # 0, NEW a \in Outcomes,
         NEW b, b = Append(back, Reply(r, a))
  PROVE  /\ b \in Seq(AnswerMsg) /\ Ofs(b) = Ofs(back) \cup {r}
         /\ /\ \A j, k \in DOMAIN back : back[j].of = back[k].of => j = k
            /\ r \notin Ofs(back)
            => \A j, k \in DOMAIN b : b[j].of = b[k].of => j = k
         /\ (\A j \in DOMAIN back : back[j].ack = ack[back[j].of])
            => \A j \in DOMAIN b : b[j].ack = ack[b[j].of]
<1>1. back \in Seq(AnswerMsg) /\ ack[r] \in Slots
  BY DirectReqAssumption DEF ReqType, WireType, Acks, Slots
<1>2. PICK m : m = Reply(r, a)
  OBVIOUS
<1>3. m \in AnswerMsg /\ m.of = r /\ m.ack = ack[r]
  BY <1>1, <1>2 DEF Reply, AnswerMsg
<1>4. /\ Len(back) \in Nat /\ DOMAIN back = 1 .. Len(back)
      /\ b \in Seq(AnswerMsg) /\ DOMAIN b = 1 .. Len(back) + 1
      /\ \A j \in 1 .. Len(back) : b[j] = back[j]
      /\ b[Len(back) + 1] = m
  BY <1>1, <1>2, <1>3
<1>5. \A j \in 1 .. Len(back) + 1 : j = Len(back) + 1 \/ j \in 1 .. Len(back)
  BY <1>4
<1>6. Ofs(b) = Ofs(back) \cup {r}
  <2>1. \A j \in 1 .. Len(back) : j \in DOMAIN b /\ b[j].of = back[j].of
    BY <1>4
  <2>2. Len(back) + 1 \in DOMAIN b /\ b[Len(back) + 1].of = r
    BY <1>3, <1>4
  <2>3. ASSUME NEW j \in DOMAIN b PROVE b[j].of \in Ofs(back) \cup {r}
    BY <1>4, <1>5, <2>1, <2>2 DEF Ofs
  <2>4. Ofs(back) \cup {r} \subseteq Ofs(b)
    BY <1>4, <2>1, <2>2 DEF Ofs
  <2> QED
    BY <2>3, <2>4, ZenonT(30) DEF Ofs
<1>7. ASSUME \A j, k \in DOMAIN back : back[j].of = back[k].of => j = k, r \notin Ofs(back)
      PROVE  \A j, k \in DOMAIN b : b[j].of = b[k].of => j = k
  <2>1. \A j \in 1 .. Len(back) : b[j].of = back[j].of /\ b[j].of # r
    BY <1>4, <1>7 DEF Ofs
  <2> QED
    BY <1>3, <1>4, <1>5, <1>7, <2>1
<1>8. ASSUME \A j \in DOMAIN back : back[j].ack = ack[back[j].of]
      PROVE  \A j \in DOMAIN b : b[j].ack = ack[b[j].of]
  BY <1>3, <1>4, <1>5, <1>8
<1> QED
  BY <1>4, <1>6, <1>7, <1>8

\* What is under way moves on, or is dropped.
LEMMA FlightMoves ==
  ASSUME NEW i, NEW h, NEW b, FlightAgrees(ack, pool, sendq, to, held, back),
         IsInjective(i), \A j, k \in DOMAIN b : b[j].of = b[k].of => j = k,
         ToSet(i) \cap h = {}, ToSet(i) \cap Ofs(b) = {}, h \cap Ofs(b) = {},
         ToSet(i) \cup h \cup Ofs(b) \subseteq ToSet(to) \cup held \cup Ofs(back),
         \A j \in DOMAIN b : b[j].ack = ack[b[j].of]
  PROVE  FlightAgrees(ack, pool, sendq, i, h, b)
BY DEF FlightAgrees

\* The rest stays as it is.
LEMMA FlightSettles ==
  ASSUME SettleInv, UNCHANGED <<sock, sendq, pool, ack, asked, told>>,
         sock = "closed" => to' = <<>> /\ held' = {} /\ back' = back,
         pool = NoPool => back' = back /\ (sock # "destroyed" => to' = <<>> /\ held' = {}),
         pool # NoPool => FlightAgrees(ack, pool, sendq, to', held', back')
  PROVE  SettleInv'
<1>1. ToldOnce(ack, asked, told)'
  BY DEF SettleInv, ToldOnce
<1>2. GoneInv' /\ StateInv'
  BY DEF SettleInv, GoneInv, StateInv
<1>3. pool # NoPool => SlotsAgree(ack, pool, asked, told)' /\ QueueAgrees(ack, sendq, asked, told)'
  BY DEF SettleInv, SlotsAgree, QueueAgrees
<1>4. pool # NoPool => FlightAgrees(ack, pool, sendq, to, held, back)'
  BY DEF FlightAgrees, Ofs
<1> QED
  BY <1>1, <1>2, <1>3, <1>4 DEF SettleInv

LEMMA RecvStep ==
  ASSUME ReqType, WireType, ~down => SettleInv, NEW r \in Req, Recv(r)
  PROVE  ReqType' /\ WireType' /\ (~down' => SettleInv')
<1>1. /\ to # <<>> /\ Head(to) = r /\ to' = Tail(to)
      /\ UNCHANGED <<sock, sendq, pool, ack, waitflush, soon, down, asked, told, eof>>
  BY DEF Recv, reqVars
<1>2. \/ held' = held \cup {r} /\ back' = back /\ ignored' = ignored
      \/ /\ \E a \in Outcomes : back' = IF Joined THEN Append(back, Reply(r, a)) ELSE back
         /\ held' = held /\ ignored' = ignored
      \/ back' = back /\ held' = held /\ ignored' = ignored \cup {r}
  BY DEF Recv
<1>3. /\ to \in Seq(Req) /\ back \in Seq(AnswerMsg) /\ held \subseteq Req /\ ignored \subseteq Req
  BY DEF WireType
<1>4. Tail(to) \in Seq(Req) /\ ToSet(to) = ToSet(Tail(to)) \cup {r}
      /\ (IsInjective(to) => IsInjective(Tail(to)) /\ r \notin ToSet(Tail(to)))
  BY <1>1, <1>3, TailOnce
<1>5. ack[r] # 0
  BY <1>4 DEF WireType
<1>6. ReqType'
  BY <1>1 DEF ReqType
<1>7. held' \subseteq held \cup {r} /\ ignored' \subseteq Req
  BY <1>2, <1>3
<1>8. back' = back \/ \E a \in Outcomes : Joined /\ back' = Append(back, Reply(r, a))
  BY <1>2
<1>9. back' \in Seq(AnswerMsg)
  BY <1>3, <1>5, <1>8, ReplyAppended
<1>10. WireType'
  <2>1. to' \in Seq(Req) /\ held' \subseteq Req /\ eof' \in BOOLEAN
    BY <1>1, <1>3, <1>4, <1>7 DEF WireType
  <2>2. \A x \in ToSet(to') \cup held' : ack'[x] # 0
    BY <1>1, <1>4, <1>5, <1>7 DEF WireType
  <2> QED
    BY <1>7, <1>9, <2>1, <2>2 DEF WireType
<1>11. ASSUME ~down' PROVE SettleInv'
  <2>1. SettleInv
    BY <1>1, <1>11
  <2>2. sock # "closed" /\ (pool = NoPool => sock = "destroyed")
    BY <1>1, <2>1 DEF SettleInv, GoneInv, StateInv
  <2>3. pool = NoPool => back' = back
    BY <1>8, <2>2 DEF Joined
  <2>4. ASSUME pool # NoPool PROVE FlightAgrees(ack, pool, sendq, to', held', back')
    <3>1. FlightAgrees(ack, pool, sendq, to, held, back)
      BY <2>1, <2>4 DEF SettleInv
    <3>2. /\ IsInjective(to) /\ \A j, k \in DOMAIN back : back[j].of = back[k].of => j = k
          /\ ToSet(to) \cap held = {} /\ ToSet(to) \cap Ofs(back) = {} /\ held \cap Ofs(back) = {}
          /\ \A j \in DOMAIN back : back[j].ack = ack[back[j].of]
      BY <3>1 DEF FlightAgrees
    <3>3. r \notin held /\ r \notin Ofs(back) /\ IsInjective(to') /\ ToSet(to') \subseteq ToSet(to)
          /\ r \in ToSet(to) /\ r \notin ToSet(to')
      BY <1>1, <1>4, <3>2
    <3>4. CASE back' = back
      BY <1>7, <3>1, <3>2, <3>3, <3>4, FlightMoves
    <3>5. CASE back' # back
      <4>1. held' = held
        BY <1>2, <3>5
      <4>2. PICK a \in Outcomes : back' = Append(back, Reply(r, a))
        BY <1>8, <3>5
      <4>3. /\ Ofs(back') = Ofs(back) \cup {r}
            /\ \A j, k \in DOMAIN back' : back'[j].of = back'[k].of => j = k
            /\ \A j \in DOMAIN back' : back'[j].ack = ack[back'[j].of]
        <5>1. PICK b : b = back'
          OBVIOUS
        <5>2. b = Append(back, Reply(r, a))
          BY <4>2, <5>1
        <5>3. /\ Ofs(b) = Ofs(back) \cup {r}
              /\ \A j, k \in DOMAIN b : b[j].of = b[k].of => j = k
              /\ \A j \in DOMAIN b : b[j].ack = ack[b[j].of]
          <6>1. /\ Ofs(b) = Ofs(back) \cup {r}
                /\ /\ \A j, k \in DOMAIN back : back[j].of = back[k].of => j = k
                   /\ r \notin Ofs(back)
                   => \A j, k \in DOMAIN b : b[j].of = b[k].of => j = k
                /\ (\A j \in DOMAIN back : back[j].ack = ack[back[j].of])
                   => \A j \in DOMAIN b : b[j].ack = ack[b[j].of]
            BY <1>5, <5>2, ReplyAppended
          <6> QED
            BY <3>2, <3>3, <6>1, Zenon
        <5> QED
          BY <5>1, <5>3, Zenon
      <4>4. /\ ToSet(to') \cap held' = {} /\ ToSet(to') \cap Ofs(back') = {}
            /\ held' \cap Ofs(back') = {}
            /\ ToSet(to') \cup held' \cup Ofs(back') \subseteq ToSet(to) \cup held \cup Ofs(back)
        BY <3>2, <3>3, <4>1, <4>3
      <4> QED
        BY <3>1, <3>3, <4>3, <4>4, FlightMoves
    <3> QED
      BY <3>4, <3>5
  <2> QED
    BY <1>1, <2>1, <2>2, <2>3, <2>4, FlightSettles
<1> QED
  BY <1>6, <1>10, <1>11

LEMMA AnswerStep ==
  ASSUME ReqType, WireType, ~down => SettleInv, NEW r \in Req, Answer(r)
  PROVE  ReqType' /\ WireType' /\ (~down' => SettleInv')
<1>1. /\ r \in held /\ held' = held \ {r}
      /\ UNCHANGED <<sock, sendq, pool, ack, waitflush, soon, down, asked, told, to, eof>>
  BY DEF Answer, reqVars
<1>2. \/ /\ \E a \in Outcomes : back' = IF Joined THEN Append(back, Reply(r, a)) ELSE back
         /\ ignored' = ignored
      \/ back' = back /\ ignored' = ignored \cup {r}
  BY DEF Answer
<1>3. to \in Seq(Req) /\ back \in Seq(AnswerMsg) /\ held \subseteq Req /\ ignored \subseteq Req
  BY DEF WireType
<1>4. ack[r] # 0
  BY <1>1 DEF WireType
<1>5. back' = back \/ \E a \in Outcomes : Joined /\ back' = Append(back, Reply(r, a))
  BY <1>2
<1>6. back' \in Seq(AnswerMsg)
  BY <1>3, <1>4, <1>5, ReplyAppended
<1>7. ReqType'
  BY <1>1 DEF ReqType
<1>8. WireType'
  <2>1. held' \subseteq Req /\ ignored' \subseteq Req
    BY <1>1, <1>2, <1>3
  <2>2. \A x \in ToSet(to') \cup held' : ack'[x] # 0
    BY <1>1 DEF WireType
  <2> QED
    BY <1>1, <1>6, <2>1, <2>2 DEF WireType
<1>9. ASSUME ~down' PROVE SettleInv'
  <2>1. SettleInv
    BY <1>1, <1>9
  <2>2. sock # "closed" /\ (pool = NoPool => sock = "destroyed")
    BY <1>1, <2>1 DEF SettleInv, GoneInv, StateInv
  <2>3. pool = NoPool => back' = back
    BY <1>5, <2>2 DEF Joined
  <2>4. ASSUME pool # NoPool PROVE FlightAgrees(ack, pool, sendq, to', held', back')
    <3>1. FlightAgrees(ack, pool, sendq, to, held, back)
      BY <2>1, <2>4 DEF SettleInv
    <3>2. /\ IsInjective(to) /\ \A j, k \in DOMAIN back : back[j].of = back[k].of => j = k
          /\ ToSet(to) \cap held = {} /\ ToSet(to) \cap Ofs(back) = {} /\ held \cap Ofs(back) = {}
          /\ \A j \in DOMAIN back : back[j].ack = ack[back[j].of]
      BY <3>1 DEF FlightAgrees
    <3>3. CASE back' = back
      BY <1>1, <3>1, <3>2, <3>3, FlightMoves
    <3>4. CASE back' # back
      <4>1. PICK a \in Outcomes : back' = Append(back, Reply(r, a))
        BY <1>5, <3>4
      <4>2. r \notin Ofs(back) /\ r \notin ToSet(to)
        BY <1>1, <3>2
      <4>3. /\ Ofs(back') = Ofs(back) \cup {r}
            /\ \A j, k \in DOMAIN back' : back'[j].of = back'[k].of => j = k
            /\ \A j \in DOMAIN back' : back'[j].ack = ack[back'[j].of]
        BY <1>4, <3>2, <4>1, <4>2, ReplyAppended
      <4>4. /\ ToSet(to') \cap held' = {} /\ ToSet(to') \cap Ofs(back') = {}
            /\ held' \cap Ofs(back') = {} /\ IsInjective(to')
            /\ ToSet(to') \cup held' \cup Ofs(back') \subseteq ToSet(to) \cup held \cup Ofs(back)
        BY <1>1, <3>2, <4>2, <4>3
      <4> QED
        BY <3>1, <4>3, <4>4, FlightMoves
    <3> QED
      BY <3>3, <3>4
  <2> QED
    BY <1>1, <2>1, <2>2, <2>3, <2>4, FlightSettles
<1> QED
  BY <1>7, <1>8, <1>9

LEMMA EmptyFlight ==
  ASSUME NEW a, NEW p, NEW q
  PROVE  FlightAgrees(a, p, q, <<>>, {}, <<>>)
<1>1. ToSet(<<>>) = {} /\ Ofs(<<>>) = {} /\ DOMAIN <<>> = {} /\ IsInjective(<<>>)
  BY DEF ToSet, Ofs, IsInjective
<1> QED
  BY <1>1 DEF FlightAgrees

LEMMA DieStep ==
  ASSUME TypeInv, ~down => SettleInv, Die
  PROVE  TypeInv' /\ (~down' => SettleInv')
<1>1. /\ proc = "running" /\ proc' = "dead" /\ listening' = FALSE
      /\ eof' = (Joined \/ eof) /\ to' = <<>> /\ held' = {}
      /\ UNCHANGED <<sock, sendq, pool, ack, waitflush, soon, down, asked, told, ignored, back,
                     target, option, pid, killsig, restart, exitdue, exits, joined>>
  BY DEF Die, reqVars
<1>2. ReqType'
  BY <1>1 DEF TypeInv, ReqType
<1>3. ToSet(to') = {} /\ to' \in Seq(Req) /\ IsInjective(to')
  BY <1>1 DEF ToSet, IsInjective
<1>4. WireType'
  <2>1. (Joined \/ eof) \in BOOLEAN
    OBVIOUS
  <2>2. eof' \in BOOLEAN
    BY <1>1, <2>1, Zenon
  <2> QED
    BY <1>1, <1>3, <2>2 DEF TypeInv, WireType
<1>5. ProcessType'
  <2>1. ~restart
    BY <1>1 DEF TypeInv, ProcessType
  <2>2. listening' \in BOOLEAN /\ ~restart' /\ ~listening'
        /\ proc' \in {"running", "dead", "none"}
    BY <1>1, <2>1
  <2>3. /\ option' \in Options /\ pid' \in 1 .. MaxPid /\ target' \in 0 .. MaxPid /\ exits' \in Nat
    BY <1>1 DEF TypeInv, ProcessType
  <2>4. killsig' \in BOOLEAN /\ restart' \in BOOLEAN /\ exitdue' \in BOOLEAN
        /\ joined' \in BOOLEAN
    BY <1>1 DEF TypeInv, ProcessType
  <2> QED
    BY <2>2, <2>3, <2>4 DEF ProcessType
<1>6. ASSUME ~down' PROVE SettleInv'
  <2>1. SettleInv
    BY <1>1, <1>6
  <2>2. ASSUME pool # NoPool PROVE FlightAgrees(ack, pool, sendq, to', held', back')
    <3>1. FlightAgrees(ack, pool, sendq, to, held, back)
      BY <2>1, <2>2 DEF SettleInv
    <3>2. /\ \A j, k \in DOMAIN back' : back'[j].of = back'[k].of => j = k
          /\ \A j \in DOMAIN back' : back'[j].ack = ack[back'[j].of]
          /\ Ofs(back') = Ofs(back)
      BY <1>1, <3>1 DEF FlightAgrees
    <3>3. /\ ToSet(to') \cap held' = {} /\ ToSet(to') \cap Ofs(back') = {}
          /\ held' \cap Ofs(back') = {}
          /\ ToSet(to') \cup held' \cup Ofs(back') \subseteq ToSet(to) \cup held \cup Ofs(back)
      BY <1>1, <1>3, <3>2
    <3> QED
      BY <1>3, <3>1, <3>2, <3>3, FlightMoves
  <2> QED
    BY <1>1, <2>1, <2>2, FlightSettles
<1> QED
  BY <1>2, <1>4, <1>5, <1>6 DEF TypeInv

LEMMA ConnectsStep ==
  ASSUME ReqType, WireType, SettleInv, Connects,
         \/ sendq' = <<>> /\ asked' = asked
         \/ \E r \in Req : r \notin asked /\ sendq' = <<r>> /\ asked' = asked \cup {r}
  PROVE  ReqType' /\ WireType' /\ SettleInv'
<1>1. /\ sock \in {"closed", "destroyed"} /\ sock' = "connecting"
      /\ to' = <<>> /\ back' = <<>> /\ eof' = FALSE /\ held' = {}
      /\ UNCHANGED <<pool, ack, waitflush, soon, down, told, ignored>>
  BY DEF Connects
<1>2. ToSet(<<>>) = {} /\ IsInjective(<<>>) /\ <<>> \in Seq(Req) /\ <<>> \in Seq(AnswerMsg)
  BY DEF ToSet, IsInjective
<1>3. sendq' \in Seq(Req) /\ asked' \subseteq Req /\ asked \subseteq asked'
  <2>1. asked \subseteq Req /\ \A r \in Req : <<r>> \in Seq(Req)
    BY DEF ReqType
  <2> QED
    BY <1>2, <2>1
<1>4. ReqType'
  BY <1>1, <1>3 DEF ReqType
<1>5. WireType'
  <2>1. eof' \in BOOLEAN
    BY <1>1
  <2> QED
    BY <1>1, <1>2, <2>1 DEF WireType
<1>6. ToldOnce(ack, asked', told)
      /\ (pool # NoPool => SlotsAgree(ack, pool, asked', told))
  BY <1>3 DEF SettleInv, ToldOnce, SlotsAgree
<1>7. \A r \in asked' \ asked : ack[r] = 0 /\ told[r] = <<>>
  BY <1>3 DEF SettleInv, ToldOnce
<1>8. ToldOnce(ack', asked', told')
  BY <1>1, <1>6
<1>9. CASE pool # NoPool
  <2>1. pool' \in Pools /\ sock' \in {"connecting", "dialed", "open"}
    BY <1>1, <1>9 DEF ReqType
  <2>2. asked = {}
    BY <1>1, <1>9 DEF SettleInv, StateInv
  <2>3. QueueAgrees(ack, sendq', asked', told)
    <3>1. CASE sendq' = <<>> /\ asked' = asked
      BY <1>2, <2>2, <3>1 DEF QueueAgrees
    <3>2. CASE \E r \in Req : r \notin asked /\ sendq' = <<r>> /\ asked' = asked \cup {r}
      <4>1. PICK r \in Req : sendq' = <<r>> /\ asked' = {r}
        BY <2>2, <3>2
      <4>2. IsInjective(sendq') /\ ToSet(sendq') = {r}
        BY <4>1, SingleOnce
      <4> QED
        BY <1>7, <2>2, <4>1, <4>2 DEF QueueAgrees
    <3> QED
      BY <3>1, <3>2
  <2>4. FlightAgrees(ack', pool', sendq', to', held', back')
    BY <1>1, EmptyFlight
  <2>5. SlotsAgree(ack', pool', asked', told') /\ QueueAgrees(ack', sendq', asked', told')
    BY <1>1, <1>6, <1>9, <2>3
  <2>6. SettleInv'
    BY <1>8, <2>1, <2>4, <2>5, KeptSettles
  <2> QED
    BY <1>4, <1>5, <2>6
<1>10. CASE pool = NoPool
  <2>1. ToldOnce(ack, asked, told)'
    BY <1>8 DEF ToldOnce
  <2>2. \A r \in asked' : ack[r] # 0 => told[r] # <<>>
    BY <1>7, <1>10 DEF SettleInv, GoneInv
  <2>3. GoneInv' /\ StateInv'
    BY <1>1, <2>2 DEF GoneInv, StateInv
  <2>4. SettleInv'
    BY <1>1, <1>10, <2>1, <2>3 DEF SettleInv
  <2> QED
    BY <1>4, <1>5, <2>4
<1> QED
  BY <1>9, <1>10

\* A step of the socket may send the child a signal.
LEMMA SocketProcess ==
  ASSUME ProcessType, Kills,
         UNCHANGED <<option, pid, proc, listening, restart, exitdue, exits, joined, target>>
  PROVE  ProcessType'
<1>1. killsig' \in BOOLEAN
  BY Zenon DEF Kills
<1>2. /\ option' \in Options /\ pid' \in 1 .. MaxPid /\ target' \in 0 .. MaxPid
      /\ proc' \in {"running", "dead", "none"} /\ exits' \in Nat
      /\ listening' \in BOOLEAN /\ restart' \in BOOLEAN /\ exitdue' \in BOOLEAN /\ joined' \in BOOLEAN
  BY DEF ProcessType
<1>3. (restart' => proc' = "none" /\ option' = "keepalive") /\ (listening' => proc' = "running")
  BY DEF ProcessType
<1> QED
  BY <1>1, <1>2, <1>3 DEF ProcessType

\* The steps of the process that leave the socket alone.
LEMMA ProcessStep ==
  ASSUME ProcessType, Kill \/ Listen \/ Loop
  PROVE  ProcessType' /\ UNCHANGED <<reqVars, respVars, wires>>
<1>1. /\ option \in Options /\ pid \in 1 .. MaxPid /\ target \in 0 .. MaxPid
      /\ proc \in {"running", "dead", "none"} /\ exits \in Nat
      /\ listening \in BOOLEAN /\ killsig \in BOOLEAN
      /\ restart \in BOOLEAN /\ exitdue \in BOOLEAN /\ joined \in BOOLEAN
      /\ (restart => proc = "none" /\ option = "keepalive")
      /\ (listening => proc = "running")
  BY DEF ProcessType
<1>2. CASE Kill
  <2>1. /\ killsig' = TRUE
        /\ UNCHANGED <<reqVars, respVars, wires, target, option, pid, proc, listening,
                       restart, exitdue, exits, joined>>
    BY <1>2 DEF Kill
  <2>2. killsig' \in BOOLEAN
    BY <2>1
  <2> QED
    BY <1>1, <2>1, <2>2 DEF ProcessType
<1>3. CASE Listen
  <2>1. /\ proc = "running" /\ listening' = TRUE
        /\ UNCHANGED <<reqVars, respVars, wires, target, option, pid, proc,
                       killsig, restart, exitdue, exits, joined>>
    BY <1>3 DEF Listen
  <2>2. listening' \in BOOLEAN
    BY <2>1
  <2> QED
    BY <1>1, <2>1, <2>2 DEF ProcessType
<1>4. CASE OnExit
  <2>1. /\ proc = "dead" /\ proc' = "none" /\ restart' = (option = "keepalive")
        /\ joined' = (option = "join") /\ exits' = IF option = "none" THEN exits + 1 ELSE exits
        /\ UNCHANGED <<reqVars, respVars, wires, target, option, pid, listening,
                       killsig, exitdue>>
    BY <1>4 DEF OnExit
  <2>2. (option = "keepalive") \in BOOLEAN /\ (option = "join") \in BOOLEAN
    OBVIOUS
  <2>3. restart' \in BOOLEAN /\ joined' \in BOOLEAN /\ (restart' => option = "keepalive")
    BY <2>1, <2>2, Zenon
  <2>4. exits' \in Nat /\ ~listening
    BY <1>1, <2>1
  <2> QED
    BY <1>1, <2>1, <2>3, <2>4 DEF ProcessType
<1>5. CASE StartWorker
  <2>1. /\ restart /\ restart' = FALSE
        /\ \/ exitdue' = TRUE /\ UNCHANGED <<pid, proc>>
           \/ pid < MaxPid /\ pid' = pid + 1 /\ proc' = "running" /\ UNCHANGED exitdue
        /\ UNCHANGED <<reqVars, respVars, wires, target, option, listening,
                       killsig, exits, joined>>
    BY <1>5 DEF StartWorker
  <2>2. proc = "none" /\ ~listening
    BY <1>1, <2>1
  <2>3. restart' \in BOOLEAN /\ exitdue' \in BOOLEAN /\ ~restart'
    BY <1>1, <2>1
  <2>4. pid' \in 1 .. MaxPid /\ proc' \in {"running", "dead", "none"}
    BY <1>1, <2>1, WorkerAssumption
  <2> QED
    BY <1>1, <2>1, <2>2, <2>3, <2>4 DEF ProcessType
<1>6. CASE EmitExit
  <2>1. /\ exitdue' = FALSE /\ exits' = exits + 1
        /\ UNCHANGED <<reqVars, respVars, wires, target, option, pid, proc, listening,
                       killsig, restart, joined>>
    BY <1>6 DEF EmitExit
  <2>2. exitdue' \in BOOLEAN
    BY <2>1
  <2>3. exits' \in Nat
    <3>1. exits + 1 \in Nat
      BY <1>1
    <3> QED
      BY <2>1, <3>1
  <2> QED
    BY <1>1, <2>1, <2>2, <2>3 DEF ProcessType
<1> QED
  BY <1>2, <1>3, <1>4, <1>5, <1>6 DEF Loop

LEMMA SocketUnchanged ==
  ASSUME ReqType, WireType, UNCHANGED <<reqVars, respVars, wires>>
  PROVE  ReqType' /\ WireType' /\ (SettleInv => SettleInv') /\ down' = down
<1>1. UNCHANGED <<sock, sendq, pool, ack, waitflush, soon, down, asked, told, held, ignored,
                  to, back, eof>>
  BY DEF reqVars, respVars, wires
<1>2. ReqType'
  BY <1>1 DEF ReqType
<1>3. WireType'
  BY <1>1 DEF WireType
<1>4. ASSUME SettleInv PROVE SettleInv'
  <2>1. /\ sock = "closed" => to' = <<>> /\ held' = {} /\ back' = <<>>
        /\ pool = NoPool => back' = back /\ (sock # "destroyed" => to' = <<>> /\ held' = {})
        /\ pool # NoPool => FlightAgrees(ack, pool, sendq, to', held', back')
    BY <1>1, <1>4 DEF SettleInv, GoneInv, StateInv
  <2> QED
    BY <1>1, <1>4, <2>1, FlightSettles
<1> QED
  BY <1>1, <1>2, <1>3, <1>4

LEMMA WholeSteps ==
  ASSUME WholeInv, [Next]_vars
  PROVE  WholeInv'
<1>1. ReqType /\ WireType /\ ProcessType /\ (~down => SettleInv)
  BY DEF WholeInv, TypeInv
<1>2. ASSUME NEW r \in Req, SendConnects(r) PROVE WholeInv'
  <2>1. /\ ~down /\ Connects
        /\ \E x \in Req : x \notin asked /\ sendq' = <<x>> /\ asked' = asked \cup {x}
    BY <1>2 DEF SendConnects, Connects, Up
  <2>2. ReqType' /\ WireType' /\ SettleInv'
    BY <1>1, <2>1, ConnectsStep
  <2>3. target' = pid /\ UNCHANGED workerVars
    BY <2>1 DEF Connects
  <2>4. ProcessType'
    <3>1. /\ UNCHANGED <<option, pid, proc, listening, killsig, restart, exitdue,
                         exits, joined>>
          /\ target' \in 0 .. MaxPid
      BY <1>1, <2>3, WorkerAssumption DEF workerVars, ProcessType
    <3> QED
      BY <1>1, <3>1 DEF ProcessType
  <2> QED
    BY <2>2, <2>4 DEF WholeInv, TypeInv
<1>3. ASSUME NEW r \in Req, SocketStep(Send(r)) PROVE WholeInv'
  <2>1. ~down /\ Send(r) /\ Kills
        /\ UNCHANGED <<option, pid, proc, listening, restart, exitdue, exits, joined, target>>
    BY <1>1, <1>3 DEF SocketStep, Up, ProcessType
  <2> QED
    BY <1>1, <2>1, SendStep, SocketProcess DEF WholeInv, TypeInv
<1>4. ASSUME SocketStep(OnWritable) PROVE WholeInv'
  <2>1. ~down /\ OnWritable /\ Kills
        /\ UNCHANGED <<option, pid, proc, listening, restart, exitdue, exits, joined, target>>
    BY <1>1, <1>4 DEF SocketStep, Up, ProcessType
  <2> QED
    BY <1>1, <2>1, OnWritableStep, SocketProcess DEF WholeInv, TypeInv
<1>5. ASSUME Establish PROVE WholeInv'
  <2>1. ~down /\ Connected /\ Kills
        /\ UNCHANGED <<option, pid, proc, listening, restart, exitdue, exits, joined, target>>
    BY <1>1, <1>5 DEF SocketStep, Establish, Up, ProcessType
  <2> QED
    BY <1>1, <2>1, ConnectedStep, SocketProcess DEF WholeInv, TypeInv
<1>6. ASSUME Reading PROVE WholeInv'
  <2>1. ~down /\ (OnAnswer \/ Destroy) /\ Kills
        /\ UNCHANGED <<option, pid, proc, listening, restart, exitdue, exits, joined, target>>
    BY <1>1, <1>6 DEF Reading, SocketStep, OnEnd, Up, ProcessType
  <2> QED
    BY <1>1, <2>1, OnAnswerStep, DestroyStep, SocketProcess DEF WholeInv, TypeInv
<1>7. ASSUME SocketStep(DestroySoon \/ Destroy) PROVE WholeInv'
  <2>1. ~down /\ (DestroySoon \/ Destroy) /\ Kills
        /\ UNCHANGED <<option, pid, proc, listening, restart, exitdue, exits, joined, target>>
    BY <1>7 DEF SocketStep, Up
  <2> QED
    BY <1>1, <2>1, DestroySoonStep, DestroyStep, SocketProcess DEF WholeInv, TypeInv
<1>8. ASSUME Dial PROVE WholeInv'
  <2>1. /\ ~down /\ sock = "connecting" /\ sock' = "dialed"
        /\ UNCHANGED <<sendq, pool, ack, waitflush, soon, down, told, wires>>
        /\ UNCHANGED <<respVars, asked>>
        /\ UNCHANGED <<target, workerVars>>
    BY <1>8 DEF Dial, Up
  <2>2. ReqType' /\ WireType' /\ SettleInv'
    BY <1>1, <2>1, SameButSock
  <2>3. UNCHANGED <<target, option, pid, proc, listening, killsig, restart, exitdue,
                    exits, joined>>
    BY <2>1 DEF workerVars
  <2>4. ProcessType'
    BY <1>1, <2>3 DEF ProcessType
  <2> QED
    BY <2>2, <2>4 DEF WholeInv, TypeInv
<1>9. ASSUME Responding, UNCHANGED <<target, workerVars>> PROVE WholeInv'
  <2>1. PICK r \in Req : Recv(r) \/ Answer(r)
    BY <1>9 DEF Responding
  <2>2. ReqType' /\ WireType' /\ (~down' => SettleInv')
    BY <1>1, <2>1, RecvStep, AnswerStep
  <2>3. UNCHANGED <<target, option, pid, proc, listening, killsig, restart, exitdue,
                    exits, joined>>
    BY <1>9 DEF workerVars
  <2>4. ProcessType'
    BY <1>1, <2>3 DEF ProcessType
  <2> QED
    BY <2>2, <2>4 DEF WholeInv, TypeInv
<1>10. ASSUME Kill \/ Listen \/ Loop PROVE WholeInv'
  BY <1>1, <1>10, ProcessStep, SocketUnchanged DEF WholeInv, TypeInv
<1>11. ASSUME Die PROVE WholeInv'
  BY <1>1, <1>11, DieStep DEF WholeInv, TypeInv
<1>12. ASSUME UNCHANGED vars PROVE WholeInv'
  <2>1. UNCHANGED <<reqVars, respVars, wires>> /\ UNCHANGED <<target, workerVars>>
    BY <1>12 DEF vars
  <2>2. UNCHANGED <<target, option, pid, proc, listening, killsig, restart, exitdue,
                    exits, joined>>
    BY <2>1 DEF workerVars
  <2>3. ProcessType'
    BY <1>1, <2>2 DEF ProcessType
  <2> QED
    BY <1>1, <2>1, <2>3, SocketUnchanged DEF WholeInv, TypeInv
<1>13. ASSUME Connect PROVE WholeInv'
  <2>1. ~down /\ Connects /\ sendq' = <<>> /\ asked' = asked
    BY <1>13 DEF Connect, Connects, Up
  <2>2. ReqType' /\ WireType' /\ SettleInv'
    BY <1>1, <2>1, ConnectsStep
  <2>3. /\ UNCHANGED <<option, pid, proc, listening, killsig, restart, exitdue,
                       exits, joined>>
        /\ target' \in 0 .. MaxPid
    BY <1>1, <2>1, WorkerAssumption DEF Connects, workerVars, ProcessType
  <2>4. ProcessType'
    BY <1>1, <2>3 DEF ProcessType
  <2> QED
    BY <2>2, <2>4 DEF WholeInv, TypeInv
<1> QED
  BY <1>2, <1>3, <1>4, <1>5, <1>6, <1>7, <1>8, <1>9, <1>10, <1>11, <1>12, <1>13 DEF Next

-----------------------------------------------------------------------------
(* The theorems                                                            *)

LEMMA TypeImplied ==
  ASSUME TypeInv
  PROVE  TypeOK
<1>1. DirectTypeOK
  <2>1. /\ sock \in {"closed", "connecting", "dialed", "open", "destroyed"}
        /\ sendq \in Seq(Req) /\ asked \subseteq Req
    BY DEF TypeInv, ReqType
  <2>2. pool \in [Slots -> Req \cup {Nil}] \cup {NoPool}
    BY DEF TypeInv, ReqType, Pools
  <2>3. ack \in [Req -> 0 .. MaxOut]
    BY DEF TypeInv, ReqType, Acks
  <2>4. \A f \in {waitflush, soon, down, eof} : f \in BOOLEAN
    BY DEF TypeInv, ReqType, WireType
  <2>5. to \in Seq(Req) /\ held \subseteq Req /\ ignored \subseteq Req
    BY DEF TypeInv, WireType
  <2>6. back \in Seq([ack : Slots, of : Req, with : Outcomes])
    BY DEF TypeInv, WireType, AnswerMsg
  <2>7. told \in [Req -> Seq(Calls \X (Req \cup {Nil}))]
    BY DEF TypeInv, ReqType, Tells
  <2> QED
    BY <2>1, <2>2, <2>3, <2>4, <2>5, <2>6, <2>7 DEF DirectTypeOK
<1>2. \A f \in {listening, killsig, restart, exitdue, joined} : f \in BOOLEAN
  BY DEF TypeInv, ProcessType
<1> QED
  BY <1>1, <1>2 DEF TypeInv, ProcessType, TypeOK

LEMMA SettledImplied ==
  ASSUME WholeInv
  PROVE  SettledOnce
<1> SUFFICES ASSUME ~down, NEW r \in asked
             PROVE  /\ ack[r] # 0 => (told[r] = <<>> <=> r \in Waiting)
                    /\ ack[r] = 0 /\ pool # NoPool => r \in ToSet(sendq)
                    /\ Len(told[r]) <= 1
                    /\ \A i \in DOMAIN told[r] : told[r][i][2] \in {r, Nil}
  BY DEF SettledOnce
<1>1. SettleInv /\ ReqType /\ r \in Req /\ r # Nil
  BY DirectReqAssumption DEF WholeInv, TypeInv, ReqType
<1>2. Len(told[r]) <= 1 /\ \A i \in DOMAIN told[r] : told[r][i][2] \in {r, Nil}
  BY <1>1 DEF SettleInv, ToldOnce
<1>3. CASE pool # NoPool
  <2>1. /\ SlotsAgree(ack, pool, asked, told) /\ QueueAgrees(ack, sendq, asked, told)
        /\ pool \in Pools /\ DOMAIN pool = Slots
    BY <1>1, <1>3, NoPoolApart DEF SettleInv, ReqType
  <2>2. ASSUME ack[r] # 0, told[r] = <<>> PROVE r \in Waiting
    <3>1. ack[r] \in Slots
      BY <1>1, <2>2, DirectReqAssumption DEF ReqType, Acks, Slots
    <3>2. pool[ack[r]] = r
      BY <1>1, <2>1, <2>2 DEF SlotsAgree
    <3> QED
      BY <1>1, <2>1, <3>1, <3>2 DEF Waiting
  <2>3. ASSUME r \in Waiting PROVE told[r] = <<>>
    <3>1. PICK s \in Slots : pool[s] = r
      BY <2>1, <2>3 DEF Waiting
    <3> QED
      BY <1>1, <2>1, <3>1 DEF SlotsAgree
  <2>4. ack[r] = 0 => r \in ToSet(sendq)
    BY <2>1 DEF QueueAgrees
  <2> QED
    BY <1>2, <2>2, <2>3, <2>4
<1>4. CASE pool = NoPool
  <2>1. DOMAIN pool = {}
    BY <1>4 DEF NoPool
  <2>2. Waiting = {}
    BY <2>1 DEF Waiting
  <2>3. ack[r] # 0 => told[r] # <<>>
    BY <1>1, <1>4 DEF SettleInv, GoneInv
  <2> QED
    BY <1>2, <1>4, <2>2, <2>3
<1> QED
  BY <1>3, <1>4

\* Every variable of a worker and its socket keeps its type, also when an
\* exception has ended the process that waits and the responder goes on; a
\* restart is due only between processes, and a signal only while one runs
\* (ReqSocket, RespSocket, startWorker, kill).
THEOREM TypeCorrect == Spec => []TypeOK
<1>1. Init => WholeInv
  BY InitSettled
<1>2. WholeInv /\ [Next]_vars => WholeInv'
  BY WholeSteps
<1>3. WholeInv => TypeOK
  BY TypeImplied DEF WholeInv
<1> QED
  BY <1>1, <1>2, <1>3, PTL DEF Spec

\* A request that got an ack is in its slot until it is told, once, and then by
\* its own answer or by the socket's end, whatever is flushed, answered,
\* destroyed, connected again or killed (_writemsg, _processMessage, destroy).
THEOREM SettledOnceCorrect == Spec => []SettledOnce
<1>1. Init => WholeInv
  BY InitSettled
<1>2. WholeInv /\ [Next]_vars => WholeInv'
  BY WholeSteps
<1>3. WholeInv => SettledOnce
  BY SettledImplied
<1> QED
  BY <1>1, <1>2, <1>3, PTL DEF Spec
=============================================================================
