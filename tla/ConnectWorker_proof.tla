-------------------------- MODULE ConnectWorker_proof --------------------------
(***************************************************************************)
(* Proofs about ConnectWorker, for any sockets, slots and attempts.        *)
(***************************************************************************)
EXTENDS ConnectWorker, FiniteSetTheorems, TLAPS

\* Where the attempt of a socket is: nowhere, in a slot, with a callback that is
\* due, at the resolver, or with the kernel.
Single(S) == \E u \in S : S = {u}

Idle(s)   == Queued(s) = {} /\ Due(s) = {} /\ looking[s] = 0 /\ dialing[s] = 0
Waits(s)  == Single(Queued(s)) /\ Due(s) = {} /\ looking[s] = 0 /\ dialing[s] = 0
Called(s) == Queued(s) = {} /\ Single(Due(s)) /\ looking[s] = 0 /\ dialing[s] = 0
Looks(s)  == Queued(s) = {} /\ Due(s) = {} /\ looking[s] = 1 /\ dialing[s] = 0
Dials(s)  == Queued(s) = {} /\ Due(s) = {} /\ looking[s] = 0 /\ dialing[s] = 1

\* A socket that is not idle is connecting or destroyed; a connecting one is not
\* idle, and watched, with a descriptor of its own, just while it is dialed.
AttemptOf(s) ==
  /\ Idle(s) \/ Waits(s) \/ Called(s) \/ Looks(s) \/ Dials(s)
  /\ s \in used \/ (~connecting[s] /\ ~watching[s] /\ s \notin dead)
  /\ connecting[s] => ~Idle(s) /\ s \notin dead
  /\ ~connecting[s] /\ s \notin dead => Idle(s)
  /\ connecting[s] => (watching[s] <=> Dials(s))
  /\ connecting[s] /\ s \in Tcp => (fd[s] <=> Dials(s))

AttemptInv == \A s \in Sock : AttemptOf(s)

-----------------------------------------------------------------------------
(* The slots and the callbacks due                                         *)

LEMMA SlotRange == \A n \in Nat : SlotNo(n) \in 1 .. Slots
<1> SUFFICES ASSUME NEW n \in Nat PROVE SlotNo(n) \in 1 .. Slots
  OBVIOUS
<1>1. n \div AttemptsPerSlot \in Nat
  BY BoundsAssumption
<1> QED
  BY <1>1, BoundsAssumption DEF SlotNo

\* Queued(s), place by place.
Placed ==
  \A s \in Sock :
    /\ \A i, j : <<i, j>> \in Queued(s) <=>
         i \in 1 .. Len(slots) /\ j \in 1 .. Len(slots[i]) /\ slots[i][j] = s
    /\ \A u \in Queued(s) : u = <<u[1], u[2]>>

LEMMA QueuedPlaces == slots \in Seq(Seq(Sock)) => Placed
<1> SUFFICES ASSUME slots \in Seq(Seq(Sock)), NEW s \in Sock
    PROVE  /\ \A i, j : <<i, j>> \in Queued(s) <=>
                i \in 1 .. Len(slots) /\ j \in 1 .. Len(slots[i]) /\ slots[i][j] = s
           /\ \A u \in Queued(s) : u = <<u[1], u[2]>>
  BY DEF Placed
<1>1. /\ DOMAIN slots = 1 .. Len(slots)
      /\ \A i \in 1 .. Len(slots) : DOMAIN slots[i] = 1 .. Len(slots[i])
  OBVIOUS
<1>2. \A u : u \in Queued(s) <=>
        (\E k \in 1 .. Len(slots) : u \in {k} \X DOMAIN slots[k]) /\ slots[u[1]][u[2]] = s
  BY <1>1 DEF Queued
<1>3. \A u : \A k \in 1 .. Len(slots) : u \in {k} \X DOMAIN slots[k] <=>
        u = <<u[1], u[2]>> /\ u[1] = k /\ u[2] \in 1 .. Len(slots[k])
  BY <1>1
<1>4. ASSUME NEW i, NEW j
      PROVE  <<i, j>> \in Queued(s) <=>
               i \in 1 .. Len(slots) /\ j \in 1 .. Len(slots[i]) /\ slots[i][j] = s
  <2>1. <<i, j>> \in Queued(s) <=>
          (\E k \in 1 .. Len(slots) : <<i, j>> \in {k} \X DOMAIN slots[k]) /\ slots[i][j] = s
    BY <1>2
  <2> QED
    BY <1>1, <2>1
<1> QED
  BY <1>2, <1>3, <1>4

LEMMA QueuedPlacesNext == (slots \in Seq(Seq(Sock)))' => Placed'
BY QueuedPlaces, PTL

\* A socket that is put into a slot is there once, if it was in none.
LEMMA QueueingOne ==
  ASSUME TypeOK, NEW s \in Sock, NEW n \in Nat, Enqueue(s, n)
  PROVE  /\ slots' \in Seq(Seq(Sock)) /\ Len(slots') = Slots
         /\ Queued(s) = {} => Single(Queued(s)')
         /\ \A r \in Sock \ {s} : Queued(r)' = Queued(r)
<1>1. PICK k \in 1 .. Slots : k = SlotNo(n)
  BY SlotRange
<1>2. slots \in Seq(Seq(Sock)) /\ Len(slots) = Slots
  BY DEF TypeOK
<1>3. slots' = [slots EXCEPT ![k] = Append(@, s)]
  BY <1>1 DEF Enqueue
<1>4. slots[k] \in Seq(Sock)
  BY <1>2
<1>5. /\ slots' \in Seq(Seq(Sock)) /\ Len(slots') = Slots
      /\ slots'[k] = Append(slots[k], s)
      /\ \A i \in 1 .. Slots : i # k => slots'[i] = slots[i]
  <2>1. Append(slots[k], s) \in Seq(Sock)
    BY <1>4
  <2> QED
    BY <1>2, <1>3, <2>1
<1>6. Placed /\ Placed'
  <2>1. Placed
    BY <1>2, QueuedPlaces
  <2> QED
    BY <1>5, <2>1, QueuedPlacesNext
<1>7. \A i \in 1 .. Slots : \A j : j \in 1 .. Len(slots'[i]) <=>
        j \in 1 .. Len(slots[i]) \/ (i = k /\ j = Len(slots[k]) + 1)
  BY <1>2, <1>4, <1>5
<1>8. \A i \in 1 .. Slots : \A j \in 1 .. Len(slots[i]) : slots'[i][j] = slots[i][j]
  <2>1. \A j \in 1 .. Len(slots[k]) : Append(slots[k], s)[j] = slots[k][j]
    BY <1>4
  <2> QED
    BY <1>5, <2>1
<1>9. slots'[k][Len(slots[k]) + 1] = s
  BY <1>4, <1>5
<1>10. ASSUME NEW r \in Sock, NEW i, NEW j
       PROVE  <<i, j>> \in Queued(r)' <=>
                <<i, j>> \in Queued(r) \/ (r = s /\ i = k /\ j = Len(slots[k]) + 1)
  <2>1. <<i, j>> \in Queued(r)' <=>
          i \in 1 .. Slots /\ j \in 1 .. Len(slots'[i]) /\ slots'[i][j] = r
    BY <1>5, <1>6 DEF Placed
  <2>2. <<i, j>> \in Queued(r) <=>
          i \in 1 .. Slots /\ j \in 1 .. Len(slots[i]) /\ slots[i][j] = r
    BY <1>2, <1>6 DEF Placed
  <2>3. CASE i \in 1 .. Slots /\ j \in 1 .. Len(slots[i])
    <3>1. j # Len(slots[k]) + 1 \/ i # k
      BY <1>4, <2>3
    <3>2. j \in 1 .. Len(slots'[i]) /\ slots'[i][j] = slots[i][j]
      BY <1>7, <1>8, <2>3
    <3> QED
      BY <2>1, <2>2, <2>3, <3>1, <3>2
  <2>4. CASE i = k /\ j = Len(slots[k]) + 1
    <3>1. j \notin 1 .. Len(slots[i])
      BY <1>4, <2>4
    <3>2. j \in 1 .. Len(slots'[i]) /\ slots'[i][j] = s
      BY <1>7, <1>9, <2>4
    <3> QED
      BY <2>1, <2>2, <2>4, <3>1, <3>2
  <2>5. CASE ~(i \in 1 .. Slots /\ j \in 1 .. Len(slots[i])) /\ ~(i = k /\ j = Len(slots[k]) + 1)
    BY <1>7, <2>1, <2>2, <2>5
  <2> QED
    BY <2>3, <2>4, <2>5
<1>11. ASSUME NEW r \in Sock, r # s PROVE Queued(r)' = Queued(r)
  <2>1. \A i, j : <<i, j>> \in Queued(r)' <=> <<i, j>> \in Queued(r)
    BY <1>10, <1>11
  <2>2. \A u : u \in Queued(r)' <=> u \in Queued(r)
    BY <1>6, <2>1 DEF Placed
  <2> QED
    BY <2>2
<1>12. ASSUME Queued(s) = {} PROVE Single(Queued(s)')
  <2>1. \A i, j : <<i, j>> \in Queued(s)' <=> i = k /\ j = Len(slots[k]) + 1
    <3>1. \A i, j : <<i, j>> \notin Queued(s)
      BY <1>12
    <3> QED
      BY <1>10, <3>1
  <2>2. Queued(s)' = {<<k, Len(slots[k]) + 1>>}
    BY <1>6, <2>1 DEF Placed
  <2> QED
    BY <2>2 DEF Single
<1> QED
  BY <1>5, <1>11, <1>12

\* A callback that runs is the first of those due.
LEMMA TakingOne ==
  ASSUME TypeOK, due # <<>>, NEW s \in Sock, s = Head(due), due' = Tail(due)
  PROVE  /\ due' \in Seq(Sock)
         /\ ~(Due(s) = {})
         /\ Single(Due(s)) => Due(s)' = {}
         /\ \A r \in Sock \ {s} : /\ Due(r)' = {} <=> Due(r) = {}
                                  /\ Single(Due(r)) => Single(Due(r)')
<1>1. /\ due \in Seq(Sock) /\ due' \in Seq(Sock) /\ Len(due) \in Nat \ {0}
      /\ Len(due') = Len(due) - 1 /\ due[1] = s
      /\ \A i \in 1 .. Len(due') : due'[i] = due[i + 1]
  BY DEF TypeOK
<1>2. DOMAIN due = 1 .. Len(due) /\ DOMAIN due' = 1 .. Len(due')
  BY <1>1
<1>3. \A r \in Sock : \A i : i \in Due(r)' <=> i \in 1 .. Len(due') /\ i + 1 \in Due(r)
  BY <1>1, <1>2 DEF Due
<1>4. \A r \in Sock : Due(r) \subseteq 1 .. Len(due)
  BY <1>2 DEF Due
<1>5. \A r \in Sock : 1 \in Due(r) <=> r = s
  BY <1>1, <1>2 DEF Due
<1>6. ASSUME Single(Due(s)) PROVE Due(s)' = {}
  <2>1. Due(s) = {1}
    BY <1>5, <1>6 DEF Single
  <2> QED
    BY <1>1, <1>3, <2>1
<1>7. ASSUME NEW r \in Sock, r # s
      PROVE  /\ Due(r)' = {} <=> Due(r) = {}
             /\ Single(Due(r)) => Single(Due(r)')
  <2>1. \A i \in Due(r) : i \in 2 .. Len(due) /\ i - 1 \in Due(r)'
    BY <1>1, <1>3, <1>4, <1>5, <1>7
  <2>2. \A i \in Due(r)' : i + 1 \in Due(r) /\ i \in Nat
    BY <1>1, <1>3
  <2>3. Due(r)' = {} <=> Due(r) = {}
    BY <2>1, <2>2
  <2>4. ASSUME NEW i \in Due(r), Due(r) = {i} PROVE Due(r)' = {i - 1}
    BY <2>1, <2>2, <2>4
  <2> QED
    BY <2>1, <2>3, <2>4 DEF Single
<1> QED
  BY <1>1, <1>5, <1>6, <1>7

\* The sockets of the first slot get a callback each, and the others stay.
LEMMA RotatingOne ==
  ASSUME TypeOK, due' = due \o Head(slots), Rotate
  PROVE  /\ slots' \in Seq(Seq(Sock)) /\ Len(slots') = Slots /\ due' \in Seq(Sock)
         /\ \A r \in Sock :
              /\ Queued(r) = {} => Queued(r)' = {} /\ Due(r)' = Due(r)
              /\ Single(Queued(r)) /\ Due(r) = {} =>
                   \/ Queued(r)' = {} /\ Single(Due(r)')
                   \/ Single(Queued(r)') /\ Due(r)' = {}
<1>1. /\ slots \in Seq(Seq(Sock)) /\ Len(slots) = Slots /\ Slots \in Nat \ {0}
      /\ due \in Seq(Sock)
  BY BoundsAssumption DEF TypeOK
<1>2. PICK h \in Seq(Sock) : h = slots[1]
  BY <1>1
<1>3. /\ due' = due \o h /\ due' \in Seq(Sock) /\ Len(due') = Len(due) + Len(h)
      /\ \A i \in 1 .. Len(due) : due'[i] = due[i]
      /\ \A i \in 1 .. Len(h) : due'[Len(due) + i] = h[i]
  BY <1>1, <1>2
<1>4. /\ slots' \in Seq(Seq(Sock)) /\ Len(slots') = Slots
      /\ \A i \in 1 .. Slots - 1 : slots'[i] = slots[i + 1]
      /\ slots'[Slots] = <<>>
  <2>1. <<>> \in Seq(Sock)
    OBVIOUS
  <2>2. Tail(slots) \in Seq(Seq(Sock)) /\ Len(Tail(slots)) = Slots - 1
        /\ \A i \in 1 .. Slots - 1 : Tail(slots)[i] = slots[i + 1]
    BY <1>1
  <2> QED
    BY <1>1, <2>1, <2>2 DEF Rotate
<1>5. Placed /\ Placed'
  <2>1. Placed
    BY <1>1, QueuedPlaces
  <2> QED
    BY <1>4, <2>1, QueuedPlacesNext
<1>6. ASSUME NEW r \in Sock
      PROVE  /\ Queued(r) = {} => Queued(r)' = {} /\ Due(r)' = Due(r)
             /\ Single(Queued(r)) /\ Due(r) = {} =>
                  \/ Queued(r)' = {} /\ Single(Due(r)')
                  \/ Single(Queued(r)') /\ Due(r)' = {}
  <2>1. \A i, j : <<i, j>> \in Queued(r)' <=>
          i \in 1 .. Slots - 1 /\ <<i + 1, j>> \in Queued(r)
    <3> SUFFICES ASSUME NEW i, NEW j
                 PROVE  <<i, j>> \in Queued(r)' <=>
                          i \in 1 .. Slots - 1 /\ <<i + 1, j>> \in Queued(r)
      OBVIOUS
    <3>1. <<i, j>> \in Queued(r)' <=>
            i \in 1 .. Slots /\ j \in 1 .. Len(slots'[i]) /\ slots'[i][j] = r
      BY <1>4, <1>5 DEF Placed
    <3>2. CASE i \in 1 .. Slots - 1
      <4>1. <<i + 1, j>> \in Queued(r) <=>
              i + 1 \in 1 .. Slots /\ j \in 1 .. Len(slots[i + 1]) /\ slots[i + 1][j] = r
        BY <1>1, <1>5 DEF Placed
      <4>2. slots'[i] = slots[i + 1] /\ i \in 1 .. Slots /\ i + 1 \in 1 .. Slots
        BY <1>1, <1>4, <3>2
      <4> QED
        BY <3>1, <3>2, <4>1, <4>2
    <3>3. CASE i \notin 1 .. Slots - 1
      <4>1. i \in 1 .. Slots => i = Slots
        BY <1>1, <3>3
      <4>2. Len(slots'[Slots]) = 0
        BY <1>4
      <4> QED
        BY <3>1, <3>3, <4>1, <4>2
    <3> QED
      BY <3>2, <3>3
  <2>2. \A u \in Queued(r)' : u = <<u[1], u[2]>>
    BY <1>5 DEF Placed
  <2>3. \A j \in 1 .. Len(h) : h[j] = r <=> <<1, j>> \in Queued(r)
    BY <1>1, <1>2, <1>5 DEF Placed
  <2>4. \A i : i \in Due(r)' <=>
          i \in Due(r) \/ \E j \in 1 .. Len(h) : i = Len(due) + j /\ h[j] = r
    BY <1>1, <1>2, <1>3 DEF Due
  <2>5. ASSUME Queued(r) = {} PROVE Queued(r)' = {} /\ Due(r)' = Due(r)
    <3>1. \A u : u \notin Queued(r)'
      BY <1>1, <2>1, <2>2, <2>5
    <3>2. \A i : i \in Due(r)' <=> i \in Due(r)
      BY <2>3, <2>4, <2>5
    <3> QED
      BY <3>1, <3>2
  <2>6. ASSUME NEW u \in Queued(r), Queued(r) = {u}, Due(r) = {}
        PROVE  \/ Queued(r)' = {} /\ Single(Due(r)')
               \/ Single(Queued(r)') /\ Due(r)' = {}
    <3>1. PICK i, j : u = <<i, j>>
      BY <1>5, <2>6 DEF Placed
    <3>4. i \in 1 .. Slots /\ j \in 1 .. Len(slots[i])
      BY <1>1, <1>5, <2>6, <3>1 DEF Placed
    <3>2. CASE i = 1
      <4>1. \A v : v \notin Queued(r)'
        BY <1>1, <2>1, <2>2, <2>6, <3>1, <3>2, <3>4
      <4>2. \A k : k \in Due(r)' <=> k = Len(due) + j
        BY <1>2, <2>3, <2>4, <2>6, <3>1, <3>2, <3>4
      <4>3. Due(r)' = {Len(due) + j}
        BY <4>2
      <4> QED
        BY <4>1, <4>3 DEF Single
    <3>3. CASE i # 1
      <4>1. \A k, n : <<k, n>> \in Queued(r)' <=> k = i - 1 /\ n = j
        <5>1. \A k, n : <<k, n>> \in Queued(r) <=> k = i /\ n = j
          BY <2>6, <3>1
        <5>2. \A k \in 1 .. Slots - 1 : k + 1 = i <=> k = i - 1
          BY <1>1, <3>4
        <5>3. i - 1 \in 1 .. Slots - 1
          BY <1>1, <3>3, <3>4
        <5> QED
          BY <2>1, <5>1, <5>2, <5>3
      <4>2. Queued(r)' = {<<i - 1, j>>}
        BY <2>2, <4>1
      <4>3. \A k : k \notin Due(r)'
        BY <2>3, <2>4, <2>6, <3>1, <3>3
      <4> QED
        BY <4>2, <4>3 DEF Single
    <3> QED
      BY <3>2, <3>3
  <2> QED
    BY <2>5, <2>6 DEF Single
<1> QED
  BY <1>3, <1>4, <1>6

-----------------------------------------------------------------------------
(* One attempt                                                             *)

LEMMA AttemptInit == Init => TypeOK /\ AttemptInv
<1> SUFFICES ASSUME Init PROVE TypeOK /\ AttemptInv
  OBVIOUS
<1>1. /\ slots \in Seq(Seq(Sock)) /\ Len(slots) = Slots /\ due = <<>>
      /\ \A i \in 1 .. Slots : slots[i] = <<>>
  <2>1. slots = [i \in 1 .. Slots |-> <<>>] /\ due = <<>> /\ Slots \in Nat
    BY BoundsAssumption DEF Init
  <2> QED
    BY <2>1
<1>2. TypeOK
  <2>1. handler \in BOOLEAN /\ down \in BOOLEAN
    BY Zenon DEF Init
  <2>3. stray \in Nat /\ due \in Seq(Sock)
    BY <1>1 DEF Init
  <2>2. /\ looking \in [Sock -> Nat] /\ dialing \in [Sock -> Nat] /\ attempt \in [Sock -> Nat]
        /\ connecting \in [Sock -> BOOLEAN] /\ fd \in [Sock -> BOOLEAN]
        /\ watching \in [Sock -> BOOLEAN]
    BY DEF Init, None, Zero
  <2> QED
    BY <1>1, <2>1, <2>2, <2>3 DEF Init, TypeOK
<1>3. ASSUME NEW s \in Sock PROVE Queued(s) = {} /\ Due(s) = {}
  <2>1. Placed
    BY <1>1, QueuedPlaces
  <2>2. \A i, j : <<i, j>> \notin Queued(s)
    <3>1. \A i \in 1 .. Len(slots) : Len(slots[i]) = 0
      BY <1>1
    <3> SUFFICES ASSUME NEW i, NEW j, <<i, j>> \in Queued(s) PROVE FALSE
      OBVIOUS
    <3>2. i \in 1 .. Len(slots) /\ j \in 1 .. Len(slots[i])
      BY <2>1 DEF Placed
    <3> QED
      BY <3>1, <3>2
  <2>3. Queued(s) = {}
    BY <2>1, <2>2 DEF Placed
  <2> QED
    BY <1>1, <2>3 DEF Due
<1>4. AttemptInv
  BY <1>3 DEF AttemptInv, AttemptOf, Idle, Waits, Called, Looks, Dials, Init, None, Zero
<1> QED
  BY <1>2, <1>4

\* What a step leaves of a socket it is not about.
Untouched(r) ==
  /\ connecting'[r] = connecting[r] /\ watching'[r] = watching[r] /\ fd'[r] = fd[r]
  /\ looking'[r] = looking[r] /\ dialing'[r] = dialing[r]
  /\ (r \in used' <=> r \in used) /\ (r \in dead' <=> r \in dead)

LEMMA OthersKeep ==
  ASSUME NEW r \in Sock, AttemptOf(r), Untouched(r), Queued(r)' = Queued(r),
         Due(r)' = {} <=> Due(r) = {}, Single(Due(r)) => Single(Due(r)')
  PROVE  AttemptOf(r)'
<1>2. /\ (Waits(r) => Waits(r)') /\ (Called(r) => Called(r)') /\ (Looks(r) => Looks(r)')
      /\ (Idle(r)' <=> Idle(r)) /\ (Dials(r)' <=> Dials(r))
  BY DEF Idle, Waits, Called, Looks, Dials, Untouched
<1> QED
  BY <1>2 DEF AttemptOf, Untouched

\* The attempt of s failed and nothing of it is left: s waits again, unless it
\* is destroyed or gives up.
LEMMA ErrorKeeps ==
  ASSUME TypeOK, NEW s \in Sock, AttemptOf(s), NEW has \in BOOLEAN, ConnectError(s, has),
         Queued(s) = {}, Due(s)' = {}, looking'[s] = 0, dialing'[s] = 0,
         s \in used, used' = used, s \in dead \/ connecting[s]
  PROVE  /\ AttemptOf(s)'
         /\ \A r \in Sock \ {s} :
              /\ Queued(r)' = Queued(r)
              /\ connecting'[r] = connecting[r] /\ watching'[r] = watching[r] /\ fd'[r] = fd[r]
              /\ (r \in dead' <=> r \in dead)
<1>1. CASE ~connecting[s]
  <2>1. /\ watching' = [watching EXCEPT ![s] = FALSE] /\ fd' = [fd EXCEPT ![s] = has]
        /\ UNCHANGED <<slots, connecting, attempt, dead>>
    BY <1>1 DEF ConnectError, worker
  <2>2. \A r \in Sock : Queued(r)' = Queued(r)
    BY <2>1 DEF Queued
  <2>3. Idle(s)'
    BY <2>2 DEF Idle
  <2> QED
    BY <1>1, <2>1, <2>2, <2>3 DEF AttemptOf, TypeOK
<1>2. CASE connecting[s] /\ LastAttempt(s)
  <2>1. Destroyed(s) /\ UNCHANGED slots
    BY <1>2 DEF ConnectError, worker
  <2>2. \A r \in Sock : Queued(r)' = Queued(r)
    BY <2>1 DEF Queued
  <2>3. Idle(s)'
    BY <2>2 DEF Idle
  <2>4. ~connecting'[s] /\ s \in dead'
    BY <2>1 DEF Destroyed, TypeOK
  <2> QED
    BY <2>1, <2>2, <2>3, <2>4 DEF AttemptOf, Destroyed, TypeOK
<1>3. CASE connecting[s] /\ ~LastAttempt(s)
  <2>1. /\ watching' = [watching EXCEPT ![s] = FALSE] /\ Refreshed(s)
        /\ Enqueue(s, attempt[s] + 1) /\ UNCHANGED <<connecting, dead>>
    BY <1>3 DEF ConnectError
  <2>2. attempt[s] + 1 \in Nat
    BY DEF TypeOK
  <2>3. Single(Queued(s)') /\ \A r \in Sock \ {s} : Queued(r)' = Queued(r)
    BY <2>1, <2>2, QueueingOne
  <2>4. Waits(s)' /\ ~Idle(s)' /\ ~Dials(s)'
    BY <2>3 DEF Waits, Idle, Dials, Single
  <2>5. ~watching'[s] /\ (s \in Tcp => ~fd'[s]) /\ connecting'[s] /\ s \notin dead'
    BY <1>3, <2>1 DEF Refreshed, TypeOK, AttemptOf
  <2>6. \A r \in Sock \ {s} : watching'[r] = watching[r] /\ fd'[r] = fd[r]
    BY <2>1 DEF Refreshed, TypeOK
  <2> QED
    BY <2>1, <2>3, <2>4, <2>5, <2>6 DEF AttemptOf
<1> QED
  BY <1>1, <1>2, <1>3

\* The descriptor of s connects and is watched, unless s is destroyed.
LEMMA WatchKeeps ==
  ASSUME TypeOK, NEW s \in Sock, AttemptOf(s), Watch(s),
         Queued(s) = {}, Due(s)' = {}, looking'[s] = 0, dialing[s] = 0,
         s \in used, used' = used, s \in dead \/ connecting[s]
  PROVE  /\ AttemptOf(s)'
         /\ \A r \in Sock \ {s} :
              /\ Queued(r)' = Queued(r)
              /\ connecting'[r] = connecting[r] /\ watching'[r] = watching[r] /\ fd'[r] = fd[r]
              /\ dialing'[r] = dialing[r] /\ (r \in dead' <=> r \in dead)
<1>1. /\ fd' = [fd EXCEPT ![s] = TRUE] /\ UNCHANGED <<slots, connecting, attempt, dead>>
  BY DEF Watch, worker
<1>2. \A r \in Sock : Queued(r)' = Queued(r)
  BY <1>1 DEF Queued
<1>3. CASE s \in dead
  <2>1. UNCHANGED <<watching, dialing>>
    BY <1>3 DEF Watch
  <2>2. Idle(s)'
    BY <1>2, <2>1 DEF Idle
  <2> QED
    BY <1>1, <1>2, <1>3, <2>1, <2>2 DEF AttemptOf, TypeOK
<1>4. CASE s \notin dead
  <2>1. watching' = [watching EXCEPT ![s] = TRUE] /\ dialing' = [dialing EXCEPT ![s] = @ + 1]
    BY <1>4 DEF Watch
  <2>2. Dials(s)' /\ ~Idle(s)'
    BY <1>2, <2>1 DEF Dials, Idle, TypeOK
  <2> QED
    BY <1>1, <1>2, <1>4, <2>1, <2>2 DEF AttemptOf, TypeOK
<1> QED
  BY <1>3, <1>4

LEMMA Busy ==
  ASSUME NEW s \in Sock, AttemptOf(s), ~Idle(s)
  PROVE  s \in used /\ (s \in dead \/ connecting[s])
BY DEF AttemptOf

\* The callback of s that is due is all there is of its attempt.
LEMMA FirstDue ==
  ASSUME TypeOK, NEW s \in Sock, AttemptOf(s), due # <<>>, s = Head(due), due' = Tail(due)
  PROVE  /\ Called(s) /\ ~Idle(s) /\ Due(s)' = {}
         /\ \A r \in Sock \ {s} : /\ Due(r)' = {} <=> Due(r) = {}
                                  /\ Single(Due(r)) => Single(Due(r)')
<1>1. Due(s) # {}
  BY TakingOne
<1>2. Called(s)
  BY <1>1 DEF AttemptOf, Idle, Waits, Called, Looks, Dials
<1> QED
  BY <1>1, <1>2, TakingOne DEF Called, Idle

LEMMA ConnectKeeps ==
  ASSUME TypeOK, AttemptInv, NEW s \in Sock, Connect(s)
  PROVE  AttemptInv'
<1>1. /\ used' = used \cup {s} /\ connecting' = [connecting EXCEPT ![s] = TRUE]
      /\ Enqueue(s, 0) /\ s \notin used
      /\ UNCHANGED <<due, looking, dialing, attempt, watching, dead>>
  BY DEF Connect
<1>2. AttemptOf(s)
  BY DEF AttemptInv
<1>3. Idle(s)
  BY <1>1, <1>2 DEF AttemptOf
<1>4. /\ Single(Queued(s)') /\ \A r \in Sock \ {s} : Queued(r)' = Queued(r)
      /\ \A r \in Sock : Due(r)' = Due(r)
  <2>1. 0 \in Nat
    OBVIOUS
  <2> QED
    BY <1>1, <1>3, <2>1, QueueingOne DEF Idle, Due
<1>5. AttemptOf(s)'
  <2>1. Waits(s)' /\ ~Idle(s)' /\ ~Dials(s)'
    BY <1>1, <1>3, <1>4 DEF Idle, Waits, Dials, Single
  <2>2. s \in Tcp => ~fd'[s]
    <3>1. fd' = [fd EXCEPT ![s] = s \notin Tcp]
      BY DEF Connect
    <3>2. ASSUME s \in Tcp PROVE fd' = [fd EXCEPT ![s] = FALSE]
      BY <3>1, <3>2, Zenon
    <3> QED
      BY <3>2 DEF TypeOK
  <2> QED
    BY <1>1, <1>2, <2>1, <2>2 DEF AttemptOf, TypeOK
<1>6. ASSUME NEW r \in Sock, r # s PROVE AttemptOf(r)'
  <2>1. Untouched(r)
    <3>1. fd'[r] = fd[r]
      BY <1>6 DEF Connect, TypeOK
    <3> QED
      BY <1>1, <1>6, <3>1 DEF Untouched, TypeOK
  <2> QED
    BY <1>4, <1>6, <2>1, OthersKeep DEF AttemptInv
<1> QED
  BY <1>5, <1>6 DEF AttemptInv

LEMMA DialKeeps ==
  ASSUME TypeOK, AttemptInv, NEW s \in Sock, DialTcp(s) \/ \E ok \in BOOLEAN : Dial(s, ok)
  PROVE  AttemptInv'
<1>1. due # <<>> /\ s = Head(due) /\ due' = Tail(due) /\ used' = used
  BY DEF DialTcp, Dial
<1>2. AttemptOf(s)
  BY DEF AttemptInv
<1>3. /\ Called(s) /\ ~Idle(s) /\ Due(s)' = {} /\ s \in used /\ (s \in dead \/ connecting[s])
      /\ \A r \in Sock \ {s} : /\ Due(r)' = {} <=> Due(r) = {}
                               /\ Single(Due(r)) => Single(Due(r)')
  BY <1>1, <1>2, FirstDue, Busy
<1>4. Queued(s) = {} /\ looking[s] = 0 /\ dialing[s] = 0
  BY <1>3 DEF Called
<1>5. CASE DialTcp(s)
  <2>1. looking' = [looking EXCEPT ![s] = @ + 1]
        /\ UNCHANGED <<slots, dialing, connecting, attempt, fd, watching, dead>>
    BY <1>5 DEF DialTcp, worker
  <2>2. \A r \in Sock : Queued(r)' = Queued(r)
    BY <2>1 DEF Queued
  <2>3. Looks(s)' /\ ~Idle(s)' /\ ~Dials(s)' /\ ~Dials(s)
    BY <1>3, <1>4, <2>1, <2>2 DEF Looks, Idle, Dials, TypeOK
  <2>4. AttemptOf(s)'
    BY <1>1, <1>2, <1>3, <2>1, <2>3 DEF AttemptOf
  <2>5. \A r \in Sock \ {s} : Untouched(r)
    BY <1>1, <2>1 DEF Untouched, TypeOK
  <2> QED
    BY <1>3, <2>2, <2>4, <2>5, OthersKeep DEF AttemptInv
<1>6. ASSUME NEW ok \in BOOLEAN, Dial(s, ok) PROVE AttemptInv'
  <2>1. looking' = looking
    BY <1>6 DEF Dial
  <2>2. CASE fd[s] /\ Watch(s)
    <3>1. AttemptOf(s)' /\ \A r \in Sock \ {s} : Untouched(r) /\ Queued(r)' = Queued(r)
      BY <1>1, <1>2, <1>3, <1>4, <2>1, <2>2, WatchKeeps DEF Untouched
    <3> QED
      BY <1>3, <3>1, OthersKeep DEF AttemptInv
  <2>3. CASE ConnectError(s, fd[s]) /\ UNCHANGED <<dialing, down>>
    <3>1. fd[s] \in BOOLEAN
      BY DEF TypeOK
    <3>2. AttemptOf(s)' /\ \A r \in Sock \ {s} : Untouched(r) /\ Queued(r)' = Queued(r)
      BY <1>1, <1>2, <1>3, <1>4, <2>1, <2>3, <3>1, ErrorKeeps DEF Untouched
    <3> QED
      BY <1>3, <3>2, OthersKeep DEF AttemptInv
  <2> QED
    BY <1>6, <2>2, <2>3 DEF Dial
<1> QED
  BY <1>5, <1>6

LEMMA LookupKeeps ==
  ASSUME TypeOK, AttemptInv, NEW s \in Sock, NEW found \in BOOLEAN, NEW ok \in BOOLEAN,
         Lookup(s, found, ok)
  PROVE  AttemptInv'
<1>1. /\ looking[s] > 0 /\ looking' = [looking EXCEPT ![s] = @ - 1]
      /\ due' = due /\ used' = used
  BY DEF Lookup
<1>2. AttemptOf(s) /\ \A r \in Sock : Due(r)' = Due(r)
  BY <1>1 DEF AttemptInv, Due
<1>3. Looks(s) /\ ~Idle(s)
  BY <1>1, <1>2 DEF AttemptOf, Idle, Waits, Called, Looks, Dials
<1>4. /\ Queued(s) = {} /\ Due(s)' = {} /\ looking'[s] = 0 /\ dialing[s] = 0
      /\ s \in used /\ (s \in dead \/ connecting[s])
  BY <1>1, <1>2, <1>3, Busy DEF Looks, TypeOK
<1>5. \A r \in Sock \ {s} : looking'[r] = looking[r]
  BY <1>1 DEF TypeOK
<1>6. CASE Watch(s)
  <2>1. AttemptOf(s)' /\ \A r \in Sock \ {s} : Untouched(r) /\ Queued(r)' = Queued(r)
    BY <1>1, <1>2, <1>4, <1>5, <1>6, WatchKeeps DEF Untouched
  <2> QED
    BY <1>2, <2>1, OthersKeep DEF AttemptInv
<1>7. CASE ConnectError(s, found) /\ UNCHANGED <<dialing, down>>
  <2>1. AttemptOf(s)' /\ \A r \in Sock \ {s} : Untouched(r) /\ Queued(r)' = Queued(r)
    BY <1>1, <1>2, <1>4, <1>5, <1>7, ErrorKeeps DEF Untouched
  <2> QED
    BY <1>2, <2>1, OthersKeep DEF AttemptInv
<1> QED
  BY <1>6, <1>7 DEF Lookup

LEMMA WatchedKeeps ==
  ASSUME TypeOK, AttemptInv, NEW s \in Sock,
         Refused(s) \/ \E throws \in BOOLEAN : Established(s, throws)
  PROVE  AttemptInv'
<1>1. /\ watching[s] /\ connecting[s] /\ dialing' = [dialing EXCEPT ![s] = @ - 1]
      /\ UNCHANGED <<due, looking, used>>
  BY DEF Refused, Established
<1>2. AttemptOf(s) /\ \A r \in Sock : Due(r)' = Due(r)
  BY <1>1 DEF AttemptInv, Due
<1>3. Dials(s) /\ ~Idle(s)
  BY <1>1, <1>2 DEF AttemptOf
<1>4. /\ Queued(s) = {} /\ Due(s)' = {} /\ looking'[s] = 0 /\ dialing'[s] = 0
      /\ s \in used /\ (s \in dead \/ connecting[s])
  BY <1>1, <1>2, <1>3, Busy DEF Dials, TypeOK
<1>5. \A r \in Sock \ {s} : dialing'[r] = dialing[r]
  BY <1>1 DEF TypeOK
<1>6. CASE Refused(s)
  <2>1. ConnectError(s, fd[s]) /\ fd[s] \in BOOLEAN
    BY <1>6 DEF Refused, TypeOK
  <2>2. AttemptOf(s)' /\ \A r \in Sock \ {s} : Untouched(r) /\ Queued(r)' = Queued(r)
    BY <1>1, <1>2, <1>4, <1>5, <2>1, ErrorKeeps DEF Untouched
  <2> QED
    BY <1>2, <2>2, OthersKeep DEF AttemptInv
<1>7. ASSUME NEW throws \in BOOLEAN, Established(s, throws) PROVE AttemptInv'
  <2>1. UNCHANGED slots
    BY <1>7 DEF Established, worker
  <2>2. \A r \in Sock : Queued(r)' = Queued(r)
    BY <2>1 DEF Queued
  <2>3. Idle(s)'
    BY <1>4, <2>2 DEF Idle
  <2>4. connecting' = [connecting EXCEPT ![s] = FALSE]
    BY <1>7 DEF Established, Destroyed
  <2>5. AttemptOf(s)'
    BY <1>1, <1>4, <2>3, <2>4 DEF AttemptOf, TypeOK
  <2>6. ASSUME NEW r \in Sock, r # s PROVE Untouched(r)
    <3>1. watching'[r] = watching[r] /\ fd'[r] = fd[r] /\ (r \in dead' <=> r \in dead)
      BY <1>7, <2>6 DEF Established, Destroyed, TypeOK
    <3> QED
      BY <1>1, <1>5, <2>4, <2>6, <3>1 DEF Untouched, TypeOK
  <2> QED
    BY <1>2, <2>2, <2>5, <2>6, OthersKeep DEF AttemptInv
<1> QED
  BY <1>6, <1>7

LEMMA DestroyKeeps ==
  ASSUME TypeOK, AttemptInv, NEW s \in Sock, Destroy(s)
  PROVE  AttemptInv'
<1>1. /\ Destroyed(s) /\ s \in used
      /\ UNCHANGED <<slots, due, looking, dialing, used>>
  BY DEF Destroy, worker
<1>2. \A r \in Sock : Queued(r)' = Queued(r) /\ Due(r)' = Due(r)
  BY <1>1 DEF Queued, Due
<1>3. AttemptOf(s)'
  <2>1. (Idle(s) <=> Idle(s)') /\ (Waits(s) <=> Waits(s)') /\ (Called(s) <=> Called(s)')
        /\ (Looks(s) <=> Looks(s)') /\ (Dials(s) <=> Dials(s)')
    BY <1>1, <1>2 DEF Idle, Waits, Called, Looks, Dials
  <2>2. ~connecting'[s] /\ s \in dead' /\ s \in used'
    BY <1>1 DEF Destroyed, TypeOK
  <2> QED
    BY <2>1, <2>2 DEF AttemptInv, AttemptOf
<1>4. \A r \in Sock \ {s} : Untouched(r)
  BY <1>1 DEF Untouched, Destroyed, TypeOK
<1> QED
  BY <1>2, <1>3, <1>4, OthersKeep DEF AttemptInv

LEMMA LoopKeeps ==
  ASSUME TypeOK, AttemptInv, NEW named \in BOOLEAN, HandlerLoop(named)
  PROVE  AttemptInv'
<1>1. /\ due' = due \o Head(slots) /\ Rotate
      /\ UNCHANGED <<looking, dialing, connecting, fd, watching, used, dead>>
  BY DEF HandlerLoop
<1> SUFFICES ASSUME NEW r \in Sock PROVE AttemptOf(r)'
  BY DEF AttemptInv
<1>2. AttemptOf(r)
  BY DEF AttemptInv
<1>3. CASE Waits(r)
  <2>1. Waits(r)' \/ Called(r)'
    BY <1>1, <1>3, RotatingOne DEF Waits, Called
  <2>2. ~Idle(r)' /\ ~Dials(r)' /\ ~Dials(r) /\ ~Idle(r)
    BY <1>3, <2>1 DEF Idle, Dials, Waits, Called, Single
  <2> QED
    BY <1>1, <1>2, <2>1, <2>2 DEF AttemptOf
<1>4. CASE ~Waits(r)
  <2>1. Queued(r) = {}
    BY <1>2, <1>4 DEF AttemptOf, Idle, Called, Looks, Dials
  <2>2. Queued(r)' = Queued(r) /\ Due(r)' = Due(r)
    BY <1>1, <2>1, RotatingOne
  <2>3. Untouched(r)
    BY <1>1 DEF Untouched
  <2> QED
    BY <1>2, <2>2, <2>3, OthersKeep
<1> QED
  BY <1>3, <1>4

LEMMA AttemptStep == TypeOK /\ AttemptInv /\ [Next]_vars => AttemptInv'
<1> SUFFICES ASSUME TypeOK, AttemptInv, [Next]_vars PROVE AttemptInv'
  OBVIOUS
<1>1. ASSUME NEW s \in Sock, Connect(s) \/ Attempt(s) \/ Destroy(s) PROVE AttemptInv'
  BY <1>1, ConnectKeeps, DialKeeps, LookupKeeps, WatchedKeeps, DestroyKeeps DEF Attempt
<1>2. ASSUME NEW named \in BOOLEAN, HandlerLoop(named) PROVE AttemptInv'
  BY <1>2, LoopKeeps
<1>3. CASE UNCHANGED vars
  <2>1. \A s \in Sock : Queued(s)' = Queued(s) /\ Due(s)' = Due(s) /\ Untouched(s)
    BY <1>3 DEF vars, worker, Queued, Due, Untouched
  <2> QED
    BY <2>1, OthersKeep DEF AttemptInv
<1> QED
  BY <1>1, <1>2, <1>3 DEF Next

-----------------------------------------------------------------------------
(* Types and the loops                                                     *)

LEMMA ErrorType ==
  ASSUME TypeOK, NEW s \in Sock, NEW has \in BOOLEAN, ConnectError(s, has)
  PROVE  /\ slots' \in Seq(Seq(Sock)) /\ Len(slots') = Slots /\ stray' \in Nat
         /\ handler' \in BOOLEAN
         /\ connecting' \in [Sock -> BOOLEAN] /\ attempt' \in [Sock -> Nat]
         /\ fd' \in [Sock -> BOOLEAN] /\ watching' \in [Sock -> BOOLEAN] /\ dead' \subseteq Sock
<1>1. CASE UNCHANGED worker
  <2>1. slots' = slots /\ stray' = stray /\ handler' = handler
    BY <1>1 DEF worker
  <2>2. connecting' \in [Sock -> BOOLEAN] /\ watching' \in [Sock -> BOOLEAN] /\ dead' \subseteq Sock
    BY DEF ConnectError, Destroyed, TypeOK
  <2>3. fd' \in [Sock -> BOOLEAN]
    BY DEF ConnectError, Destroyed, Refreshed, TypeOK
  <2>4. attempt' \in [Sock -> Nat]
    <3>1. attempt \in [Sock -> Nat]
      BY DEF TypeOK
    <3>2. attempt' = attempt \/ attempt' = [attempt EXCEPT ![s] = @ + 1]
      BY Zenon DEF ConnectError, Refreshed
    <3> QED
      BY <3>1, <3>2
  <2> QED
    BY <2>1, <2>2, <2>3, <2>4 DEF TypeOK
<1>2. CASE /\ watching' = [watching EXCEPT ![s] = FALSE] /\ Refreshed(s)
           /\ Enqueue(s, attempt[s] + 1) /\ UNCHANGED <<connecting, dead>>
  <2>1. attempt[s] + 1 \in Nat
    BY DEF TypeOK
  <2>2. slots' \in Seq(Seq(Sock)) /\ Len(slots') = Slots
    BY <1>2, <2>1, QueueingOne
  <2>3. handler' = TRUE /\ stray' = stray
    BY <1>2 DEF Enqueue, StartLoop
  <2>4. handler' \in BOOLEAN /\ stray' \in Nat
    BY <2>3 DEF TypeOK
  <2>5. fd' \in [Sock -> BOOLEAN] /\ attempt' \in [Sock -> Nat]
    <3>1. attempt \in [Sock -> Nat] /\ fd \in [Sock -> BOOLEAN]
      BY DEF TypeOK
    <3>2. fd' \in [Sock -> BOOLEAN]
      BY <1>2, <3>1 DEF Refreshed
    <3>3. attempt' \in [Sock -> Nat]
      BY <1>2, <3>1 DEF Refreshed
    <3> QED
      BY <3>2, <3>3
  <2>6. connecting' \in [Sock -> BOOLEAN] /\ watching' \in [Sock -> BOOLEAN] /\ dead' \subseteq Sock
    BY <1>2 DEF TypeOK
  <2> QED
    BY <2>2, <2>4, <2>5, <2>6
<1> QED
  BY <1>1, <1>2 DEF ConnectError

LEMMA WatchType ==
  ASSUME TypeOK, NEW s \in Sock, Watch(s)
  PROVE  /\ slots' \in Seq(Seq(Sock)) /\ Len(slots') = Slots /\ stray' \in Nat
         /\ handler' \in BOOLEAN /\ down' \in BOOLEAN /\ dialing' \in [Sock -> Nat]
         /\ connecting' \in [Sock -> BOOLEAN] /\ attempt' \in [Sock -> Nat]
         /\ fd' \in [Sock -> BOOLEAN] /\ watching' \in [Sock -> BOOLEAN] /\ dead' \subseteq Sock
<1>1. down' \in BOOLEAN
  BY Zenon DEF Watch, TypeOK
<1>2. fd' \in [Sock -> BOOLEAN] /\ UNCHANGED <<worker, connecting, attempt, dead>>
  BY DEF Watch, TypeOK
<1>3. dialing' \in [Sock -> Nat] /\ watching' \in [Sock -> BOOLEAN]
  <2>1. \/ UNCHANGED <<watching, dialing>>
        \/ /\ watching' = [watching EXCEPT ![s] = TRUE]
           /\ dialing' = [dialing EXCEPT ![s] = @ + 1]
    BY DEF Watch
  <2>2. dialing' \in [Sock -> Nat]
    <3>1. dialing \in [Sock -> Nat]
      BY DEF TypeOK
    <3> QED
      BY <2>1, <3>1
  <2>3. watching' \in [Sock -> BOOLEAN]
    BY <2>1 DEF TypeOK
  <2> QED
    BY <2>2, <2>3
<1> QED
  BY <1>1, <1>2, <1>3 DEF worker, TypeOK

LEMMA LoopType ==
  ASSUME TypeOK, NEW named \in BOOLEAN, HandlerLoop(named)
  PROVE  TypeOK'
<1>1. /\ due' = due \o Head(slots) /\ Rotate /\ handler' = FALSE
      /\ UNCHANGED <<looking, dialing, connecting, attempt, fd, watching, used, dead, down>>
  BY DEF HandlerLoop
<1>2. PICK kept : kept = IF named THEN stray ELSE IF handler THEN stray ELSE stray - 1
  OBVIOUS
<1>3. stray' = kept \/ stray' = kept + 1
  BY <1>2 DEF HandlerLoop
<1>4. kept \in Nat
  <2>1. stray \in Nat /\ (named \/ stray > 0)
    BY DEF HandlerLoop, TypeOK
  <2> QED
    BY <1>2, <2>1
<1>5. stray' \in Nat
  BY <1>3, <1>4
<1>6. handler' \in BOOLEAN
  BY <1>1
<1> QED
  BY <1>1, <1>5, <1>6, RotatingOne DEF TypeOK

LEMMA TypeStep == TypeOK /\ AttemptInv /\ [Next]_vars => TypeOK'
<1> SUFFICES ASSUME TypeOK, AttemptInv, [Next]_vars PROVE TypeOK'
  OBVIOUS
<1>1. ASSUME NEW s \in Sock, Connect(s) PROVE TypeOK'
  <2>1. slots' \in Seq(Seq(Sock)) /\ Len(slots') = Slots /\ handler' = TRUE /\ stray' = stray
    <3>1. 0 \in Nat /\ Enqueue(s, 0)
      BY <1>1 DEF Connect
    <3> QED
      BY <3>1, QueueingOne DEF Enqueue, StartLoop
  <2>2. handler' \in BOOLEAN
    BY <2>1
  <2>3. fd' \in [Sock -> BOOLEAN]
    <3>1. (s \notin Tcp) \in BOOLEAN /\ fd' = [fd EXCEPT ![s] = s \notin Tcp]
      BY <1>1, Zenon DEF Connect
    <3> QED
      BY <3>1 DEF TypeOK
  <2> QED
    BY <1>1, <2>1, <2>2, <2>3 DEF Connect, TypeOK
<1>2. ASSUME NEW s \in Sock, DialTcp(s) PROVE TypeOK'
  BY <1>2, TakingOne, SMTT(30) DEF DialTcp, worker, TypeOK
<1>3. ASSUME NEW s \in Sock, NEW ok \in BOOLEAN, Dial(s, ok) PROVE TypeOK'
  <2>1. due' \in Seq(Sock) /\ UNCHANGED <<looking, used>>
    BY <1>3, TakingOne DEF Dial
  <2>2. fd[s] \in BOOLEAN
    BY DEF TypeOK
  <2>3. CASE Watch(s)
    BY <2>1, <2>3, WatchType DEF TypeOK
  <2>4. CASE ConnectError(s, fd[s]) /\ UNCHANGED <<dialing, down>>
    BY <2>1, <2>2, <2>4, ErrorType DEF TypeOK
  <2> QED
    BY <1>3, <2>3, <2>4 DEF Dial
<1>4. ASSUME NEW s \in Sock, NEW found \in BOOLEAN, NEW ok \in BOOLEAN, Lookup(s, found, ok)
      PROVE  TypeOK'
  <2>1. looking' \in [Sock -> Nat] /\ UNCHANGED <<due, used>>
    BY <1>4 DEF Lookup, TypeOK
  <2>2. CASE Watch(s)
    BY <2>1, <2>2, WatchType DEF TypeOK
  <2>3. CASE ConnectError(s, found) /\ UNCHANGED <<dialing, down>>
    BY <2>1, <2>3, ErrorType DEF TypeOK
  <2> QED
    BY <1>4, <2>2, <2>3 DEF Lookup
<1>5. ASSUME NEW s \in Sock, Refused(s) \/ \E throws \in BOOLEAN : Established(s, throws)
      PROVE  TypeOK'
  <2>1. dialing[s] = 1
    BY <1>5 DEF Refused, Established, AttemptInv, AttemptOf, Dials
  <2>2. dialing' \in [Sock -> Nat] /\ UNCHANGED <<due, looking, used, down>>
    <3>1. /\ dialing' = [dialing EXCEPT ![s] = @ - 1]
          /\ UNCHANGED <<due, looking, used, down>>
      BY <1>5 DEF Refused, Established
    <3> QED
      BY <2>1, <3>1 DEF TypeOK
  <2>3. CASE Refused(s)
    <3>1. ConnectError(s, fd[s]) /\ fd[s] \in BOOLEAN
      BY <2>3 DEF Refused, TypeOK
    <3> QED
      BY <2>2, <3>1, ErrorType DEF TypeOK
  <2>4. ASSUME NEW throws \in BOOLEAN, Established(s, throws) PROVE TypeOK'
    BY <2>2, <2>4 DEF Established, Destroyed, worker, TypeOK
  <2> QED
    BY <1>5, <2>3, <2>4
<1>6. ASSUME NEW s \in Sock, Destroy(s) PROVE TypeOK'
  BY <1>6 DEF Destroy, Destroyed, worker, TypeOK
<1>7. ASSUME NEW named \in BOOLEAN, HandlerLoop(named) PROVE TypeOK'
  BY <1>7, LoopType
<1>8. CASE UNCHANGED vars
  BY <1>8 DEF TypeOK, vars, worker
<1> QED
  BY <1>1, <1>2, <1>3, <1>4, <1>5, <1>6, <1>7, <1>8 DEF Next, Attempt

\* Whoever enters a slot starts the timer, and a loop that leaves some waiting
\* repeats.
LEMMA LoopStep == TypeOK /\ LoopForWaiting /\ [Next]_vars => LoopForWaiting'
<1> SUFFICES ASSUME TypeOK, LoopForWaiting, [Next]_vars PROVE LoopForWaiting'
  OBVIOUS
<1>1. CASE UNCHANGED worker
  BY <1>1 DEF LoopForWaiting, Queued, worker
<1>2. CASE handler' = TRUE
  BY <1>2 DEF LoopForWaiting
<1>3. ASSUME NEW named \in BOOLEAN, HandlerLoop(named) PROVE LoopForWaiting'
  <2>1. /\ Rotate /\ stray \in Nat /\ (named \/ stray > 0)
        /\ slots \in Seq(Seq(Sock)) /\ Len(slots) \in Nat \ {0}
    BY <1>3, BoundsAssumption DEF HandlerLoop, TypeOK
  <2>2. CASE MoreJobs(Tail(slots))
    <3>1. PICK kept : kept = IF named THEN stray ELSE IF handler THEN stray ELSE stray - 1
      OBVIOUS
    <3>2. stray' = kept + 1
      BY <1>3, <2>2, <3>1 DEF HandlerLoop
    <3>3. kept \in Nat
      BY <2>1, <3>1
    <3> QED
      BY <3>2, <3>3 DEF LoopForWaiting
  <2>3. CASE ~MoreJobs(Tail(slots))
    <3>1. Tail(slots) \in Seq(Seq(Sock))
      BY <2>1
    <3>2. \A i \in 1 .. Len(Tail(slots)) : Tail(slots)[i] = <<>>
      <4>1. DOMAIN Tail(slots) = 1 .. Len(Tail(slots))
        BY <3>1
      <4> QED
        BY <2>3, <4>1, Zenon DEF MoreJobs
    <3>3. \A i \in DOMAIN slots' : slots'[i] = <<>>
      BY <2>1, <3>1, <3>2 DEF Rotate
    <3>4. \A s \in Sock : Queued(s)' = {}
      BY <3>3 DEF Queued
    <3> QED
      BY <3>4 DEF LoopForWaiting
  <2> QED
    BY <2>2, <2>3
<1> QED
  <2>1. ASSUME NEW s \in Sock, Connect(s) \/ Attempt(s) \/ Destroy(s)
        PROVE  UNCHANGED worker \/ handler' = TRUE
    BY <2>1 DEF Connect, Attempt, DialTcp, Dial, Lookup, Established, Refused, Destroy, Watch,
      ConnectError, Enqueue, StartLoop
  <2> QED
    BY <1>1, <1>2, <1>3, <2>1 DEF Next, vars

-----------------------------------------------------------------------------
(* The theorems                                                            *)

\* The types: no counter of callbacks goes below zero.
THEOREM TypeCorrect == Spec => []TypeOK
BY AttemptInit, TypeStep, AttemptStep, PTL DEF Spec

\* A connecting socket has exactly one attempt waiting or under way, which the
\* socket watches while the kernel has it: no retry is lost, and none doubled.
THEOREM OneAttemptCorrect == Spec => []OneAttempt
<1>1. TypeOK /\ AttemptInv => OneAttempt
  <2> SUFFICES ASSUME TypeOK, AttemptInv, NEW s \in Sock
      PROVE  LET places == Cardinality(Queued(s)) + Cardinality(Due(s)) + looking[s] + dialing[s]
             IN /\ connecting[s] => places = 1
                /\ places <= 1
                /\ connecting[s] /\ dialing[s] = 1 => watching[s]
    BY DEF OneAttempt
  <2>1. AttemptOf(s)
    BY DEF AttemptInv
  <2>2. /\ Cardinality({}) = 0
        /\ Single(Queued(s)) => Cardinality(Queued(s)) = 1
        /\ Single(Due(s)) => Cardinality(Due(s)) = 1
    BY FS_EmptySet, FS_Singleton DEF Single
  <2> QED
    BY <2>1, <2>2 DEF AttemptOf, Idle, Waits, Called, Looks, Dials
<1> QED
  BY <1>1, AttemptInit, TypeStep, AttemptStep, PTL DEF Spec

\* As long as a socket waits in a slot, a timer is there to run handlerloop.
THEOREM LoopForWaitingCorrect == Spec => []LoopForWaiting
<1>1. Init => LoopForWaiting
  <2> SUFFICES ASSUME Init PROVE LoopForWaiting
    OBVIOUS
  <2>1. \A s \in Sock : Queued(s) = {}
    BY DEF Init, Queued
  <2> QED
    BY <2>1 DEF LoopForWaiting
<1> QED
  BY <1>1, AttemptInit, TypeStep, AttemptStep, LoopStep, PTL DEF Spec

\* A connecting tcp socket has a descriptor just while the kernel connects it.
THEOREM FreshDescriptorCorrect == Spec => []FreshDescriptor
<1>1. TypeOK /\ AttemptInv => FreshDescriptor
  <2> SUFFICES ASSUME TypeOK, AttemptInv, NEW s \in Tcp, connecting[s]
      PROVE  fd[s] <=> dialing[s] = 1
    BY DEF FreshDescriptor
  <2>1. AttemptOf(s)
    BY TcpAssumption DEF AttemptInv
  <2> QED
    BY <2>1 DEF AttemptOf, Idle, Waits, Called, Looks, Dials
<1> QED
  BY <1>1, AttemptInit, TypeStep, AttemptStep, PTL DEF Spec
=============================================================================
