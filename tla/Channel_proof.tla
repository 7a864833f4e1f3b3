---------------------------- MODULE Channel_proof ----------------------------
(***************************************************************************)
(* Proofs about Channel, for any sockets and listeners, finitely many or   *)
(* not: a channel has attached finitely many at any time.                  *)
(***************************************************************************)
EXTENDS Channel, FiniteSetTheorems, TLAPS

-----------------------------------------------------------------------------
(* Types                                                                   *)

\* close() raises at most one `close', and what it waits for at most one more: a
\* channel that has closed has nothing left to count, and one that was never told
\* to close has no path to unlink.
Unlinking == {l \in Listener : listeners[l] = "unlinking"}
CloseCount ==
  /\ ~closing /\ ~closed => closes = 0 /\ Unlinking = {}
  /\ closing => closes <= 1
  /\ ~closing /\ closed => waits <= 0

\* Only what was attached or told to listen can be counted.
Used == {l \in Listener : listeners[l] # "idle"}
FiniteInv == IsFiniteSet(sockets) /\ IsFiniteSet(Used)

TypeInv == TypeOK /\ CloseCount /\ FiniteInv

LEMMA CountDownType ==
  ASSUME TypeOK, CloseCount, CountDown, closing \/ closed
  PROVE  /\ closing' \in BOOLEAN /\ closed' \in BOOLEAN /\ waits' \in Int /\ closes' \in 0 .. 2
         /\ CloseCount'
<1>1. waits \in Int /\ closes \in 0 .. 2 /\ closing \in BOOLEAN /\ closed \in BOOLEAN
  BY DEF TypeOK
<1>2. /\ waits' = waits - 1 /\ closing' = (closing /\ waits' # 0) /\ closed' = (closed \/ waits' = 0)
      /\ closes' = IF waits' = 0 THEN closes + 1 ELSE closes
  BY DEF CountDown
<1>0. waits' \in Int
  BY <1>1, <1>2
<1>3. closing' \in BOOLEAN /\ closed' \in BOOLEAN /\ waits' \in Int
  BY <1>0, <1>2, Zenon
<1>4. (closing' \/ closed') /\ (closing' => closing /\ waits' # 0)
  BY <1>2, Zenon
<1>5. closing => closes <= 1
  BY DEF CloseCount
<1>6. CASE closing
  <2>1. closes' \in 0 .. 2 /\ (waits' # 0 => closes' <= 1)
    BY <1>1, <1>2, <1>5, <1>6
  <2>2. ~closing' => waits' <= 0
    <3>1. ~closing' => waits' = 0
      BY <1>2, <1>6, Zenon
    <3> QED
      BY <3>1
  <2> QED
    BY <1>3, <1>4, <2>1, <2>2, Zenon DEF CloseCount
<1>7. CASE ~closing
  <2>1. waits <= 0
    BY <1>7 DEF CloseCount
  <2>2. waits' < 0
    BY <1>1, <1>2, <2>1
  <2>3. waits' # 0 /\ waits' <= 0
    BY <1>3, <2>2
  <2>4. closes' = closes
    BY <1>2, <2>3
  <2> QED
    BY <1>1, <1>3, <1>4, <1>7, <2>3, <2>4, Zenon DEF CloseCount
<1> QED
  BY <1>6, <1>7

LEMMA WaitOverType ==
  ASSUME TypeOK, CloseCount, WaitOver, UNCHANGED listeners
  PROVE  /\ closing' \in BOOLEAN /\ closed' \in BOOLEAN /\ waits' \in Int /\ closes' \in 0 .. 2
         /\ CloseCount'
<1>1. CASE closing
  BY <1>1, CountDownType DEF WaitOver
<1>2. CASE ~closing
  BY <1>2 DEF WaitOver, TypeOK, CloseCount, Unlinking
<1> QED
  BY <1>1, <1>2

LEMMA TypeInit == Init => TypeInv
<1> SUFFICES ASSUME Init PROVE TypeInv
  OBVIOUS
<1>1. closing \in BOOLEAN /\ closed \in BOOLEAN /\ down \in BOOLEAN
  BY Zenon DEF Init
<1>3. TypeOK /\ CloseCount
  BY <1>1 DEF Init, TypeOK, CloseCount, Unlinking
<1>2. sockets = {} /\ Used = {}
  BY DEF Init, Used
<1> QED
  BY <1>2, <1>3, FS_EmptySet DEF TypeInv, FiniteInv

LEMMA FiniteStep == TypeInv /\ [Next]_vars => FiniteInv'
<1> SUFFICES ASSUME TypeOK, FiniteInv, [Next]_vars PROVE FiniteInv'
  BY DEF TypeInv
<1>1. IsFiniteSet(sockets')
  <2>1. \/ \E s \in Sock : sockets' = sockets \cup {s}
        \/ sockets' \subseteq sockets
    BY DEF Next, Connect, Attach, Accept, AttachOpen, Enter, OnConnect, OnClose, Drop, DropAgain,
      Listen, AcceptFails, Unlinked, PathFree, Resolved, Listening, ListenStep, MemListening,
      Close, CloseThrows, sockVars, vars
  <2> QED
    BY <2>1, FS_AddElement, FS_Subset DEF FiniteInv
<1>2. IsFiniteSet(Used')
  <2>1. CASE UNCHANGED listeners
    BY <2>1 DEF Used, FiniteInv
  <2>2. ASSUME NEW l \in Listener, NEW v, listeners' = [listeners EXCEPT ![l] = v]
        PROVE  IsFiniteSet(Used')
    <3>1. Used' \subseteq Used \cup {l}
      BY <2>2 DEF Used, TypeOK
    <3> QED
      BY <3>1, FS_AddElement, FS_Subset DEF FiniteInv
  <2>3. CASE Close
    <3>1. \A l \in Listener : listeners[l] = "idle" => listeners'[l] = "idle"
      BY <2>3 DEF Close
    <3>2. Used' \subseteq Used
      BY <3>1 DEF Used
    <3> QED
      BY <3>2, FS_Subset DEF FiniteInv
  <2> QED
    BY <2>1, <2>2, <2>3 DEF Next, Connect, Attach, Accept, AttachOpen, Enter, OnConnect, OnClose,
      Drop, DropAgain, Listen, AcceptFails, Unlinked, PathFree, Resolved, Listening, ListenStep,
      MemListening, Bind, CloseThrows, vars
<1> QED
  BY <1>1, <1>2 DEF FiniteInv

LEMMA EnterType ==
  ASSUME TypeOK, NEW s \in Sock, Enter(s)
  PROVE  sockets' \subseteq Sock /\ late' \subseteq Sock
BY DEF TypeOK, Enter

LEMMA TwiceType ==
  ASSUME NEW f \in [Sock -> 0 .. 2], NEW s \in Sock
  PROVE  [f EXCEPT ![s] = Twice(@)] \in [Sock -> 0 .. 2]
BY DEF Twice

\* Steps of the sockets other than their `close' event.
LEMMA TypeSocket ==
  ASSUME TypeOK, CloseCount, NEW s \in Sock,
         \/ Connect(s) \/ AttachOpen(s) \/ OnConnect(s) \/ DropAgain(s)
         \/ \E err \in BOOLEAN : Drop(s, err)
  PROVE  TypeOK' /\ CloseCount'
<1>1. /\ sockets' \subseteq Sock /\ late' \subseteq Sock /\ failed' \subseteq Sock
  BY EnterType DEF Connect, AttachOpen, OnConnect, Drop, DropAgain, TypeOK, sockVars
<1>2. connects' \in [Sock -> 0 .. 2]
  <2>1. connects \in [Sock -> 0 .. 2]
    BY DEF TypeOK
  <2>2. UNCHANGED connects \/ connects' = [connects EXCEPT ![s] = Twice(@)]
    BY DEF Connect, AttachOpen, OnConnect, Drop, DropAgain, sockVars
  <2> QED
    BY <2>1, <2>2, TwiceType
<1>3. life' \in [Sock -> {"new", "connecting", "open", "dying", "silent", "dead"}]
  BY DEF Connect, AttachOpen, OnConnect, Drop, DropAgain, Gone, TypeOK, sockVars
<1>4. UNCHANGED <<closing, closed, waits, disconnects, listeners, closes, counted>>
  BY DEF Connect, AttachOpen, OnConnect, Drop, DropAgain, sockVars
<1>5. down' = down \/ down' = TRUE \/ down' = FALSE
  <2>1. ASSUME NEW c \in BOOLEAN, Gone(s, c) PROVE down' = down \/ down' = TRUE \/ down' = FALSE
    BY <2>1, Zenon DEF Gone
  <2> QED
    BY <2>1, Zenon DEF Connect, AttachOpen, OnConnect, Drop, DropAgain
<1>6. down' \in BOOLEAN
  BY <1>5, Zenon DEF TypeOK
<1> QED
  BY <1>1, <1>2, <1>3, <1>4, <1>6 DEF TypeOK, CloseCount, Unlinking

LEMMA TypeOnClose ==
  ASSUME TypeOK, CloseCount, NEW s \in Sock, OnClose(s)
  PROVE  TypeOK' /\ CloseCount'
<1>1. /\ life' \in [Sock -> {"new", "connecting", "open", "dying", "silent", "dead"}]
      /\ UNCHANGED <<failed, connects, late, listeners, counted>>
  BY DEF OnClose, TypeOK
<1>2. CASE (s \in failed /\ s \notin Watched) \/ s \notin sockets
  <2>1. down' \in BOOLEAN /\ UNCHANGED <<sockets, disconnects, waits, closing, closed, closes>>
    BY <1>2, Zenon DEF OnClose
  <2> QED
    BY <1>1, <2>1 DEF TypeOK, CloseCount, Unlinking
<1>3. CASE ~((s \in failed /\ s \notin Watched) \/ s \notin sockets)
  <2>1. sockets' = sockets \ {s} /\ Disconnected(s) /\ WaitOver /\ UNCHANGED down
    BY <1>3, Zenon DEF OnClose
  <2>2. disconnects' \in [Sock -> 0 .. 2]
    BY <2>1, TwiceType DEF Disconnected, TypeOK
  <2> QED
    BY <1>1, <2>1, <2>2, WaitOverType DEF TypeOK
<1> QED
  BY <1>2, <1>3

\* Only a listener that is active comes to unlink its path.
LEMMA UnlinkingStep ==
  ASSUME TypeOK, NEW l \in Listener,
         \/ Listen(l) \/ AcceptFails(l)
         \/ \E ok \in BOOLEAN :
              PathFree(l, ok) \/ Resolved(l, ok) \/ Listening(l, ok) \/ MemListening(l, ok)
  PROVE  Unlinking' = Unlinking
<1>1. PICK v : listeners' = [listeners EXCEPT ![l] = v] /\ v # "unlinking"
  BY DEF Listen, AcceptFails, PathFree, Resolved, Listening, ListenStep, MemListening, Bind
<1>2. listeners[l] # "unlinking"
  BY DEF Listen, AcceptFails, PathFree, Resolved, Listening, MemListening
<1> QED
  BY <1>1, <1>2 DEF Unlinking, TypeOK

LEMMA TypeListener ==
  ASSUME TypeOK, CloseCount, NEW l \in Listener,
         \/ Listen(l) \/ AcceptFails(l) \/ Unlinked(l)
         \/ \E ok \in BOOLEAN :
              PathFree(l, ok) \/ Resolved(l, ok) \/ Listening(l, ok) \/ MemListening(l, ok)
  PROVE  TypeOK' /\ CloseCount'
<1>1. listeners' \in [Listener -> {"idle", "resolving", "bound", "active", "failed",
                                   "unlinking", "stopped", "threw"}]
  BY DEF Listen, AcceptFails, Unlinked, PathFree, Resolved, Listening, ListenStep, MemListening,
    Bind, TypeOK
<1>2. UNCHANGED <<sockVars, counted>>
  BY DEF Listen, AcceptFails, Unlinked, PathFree, Resolved, Listening, ListenStep, MemListening
<1>3. CASE Unlinked(l)
  <2>1. CountDown /\ UNCHANGED down /\ l \in Unlinking
    BY <1>3 DEF Unlinked, Unlinking
  <2>2. closing \/ closed
    BY <2>1 DEF CloseCount
  <2> QED
    BY <1>1, <1>2, <2>1, <2>2, CountDownType DEF TypeOK, sockVars
<1>4. CASE ~Unlinked(l)
  <2>1. UNCHANGED <<closing, closed, waits, closes>>
    BY <1>4 DEF Listen, AcceptFails, PathFree, Resolved, Listening, ListenStep, MemListening
  <2>2. down' \in BOOLEAN
    BY <1>4, Zenon DEF Listen, AcceptFails, PathFree, Resolved, Listening, ListenStep,
      MemListening, Bind, TypeOK
  <2>3. Unlinking' = Unlinking
    BY <1>4, UnlinkingStep
  <2> QED
    BY <1>1, <1>2, <2>1, <2>2, <2>3 DEF TypeOK, CloseCount, sockVars
<1> QED
  BY <1>3, <1>4

LEMMA ClosedType ==
  ASSUME TypeOK, NEW S
  PROVE  Closed(S) \in [Sock -> {"new", "connecting", "open", "dying", "silent", "dead"}]
BY DEF Closed, TypeOK

LEMMA TypeClose ==
  ASSUME TypeOK, CloseCount, FiniteInv, Close
  PROVE  TypeOK' /\ CloseCount'
<1>1. PICK unlinks : unlinks = {l \in Unix : listeners[l] = "active"}
  OBVIOUS
<1>2. PICK n : n = Cardinality(Counted) + Cardinality(unlinks)
  OBVIOUS
<1>3. /\ ~closing /\ ~closed /\ closing' = TRUE /\ waits' = n /\ counted' = sockets
      /\ closed' = (n # 0) /\ closes' = IF n # 0 THEN closes + 1 ELSE closes
      /\ UNCHANGED <<sockets, failed, connects, disconnects, late, down>>
  BY <1>1, <1>2, Zenon DEF Close, Counted
<1>4. n \in Nat
  <2>1. unlinks \subseteq Used
    BY <1>1, KindAssumption DEF Used
  <2>2. Cardinality(unlinks) \in Nat /\ Cardinality(sockets) \in Nat
    BY <2>1, FS_Subset, FS_CardinalityType DEF FiniteInv
  <2> QED
    BY <1>2, <2>2 DEF Counted
<1>5. /\ life' \in [Sock -> {"new", "connecting", "open", "dying", "silent", "dead"}]
      /\ listeners' \in [Listener -> {"idle", "resolving", "bound", "active", "failed",
                                      "unlinking", "stopped", "threw"}]
  BY ClosedType DEF Close, TypeOK
<1>6. closed' \in BOOLEAN
  BY <1>3, Zenon
<1>7. closes = 0
  BY <1>3 DEF CloseCount
<1>8. closes' \in 0 .. 1
  BY <1>3, <1>7
<1> QED
  BY <1>3, <1>4, <1>5, <1>6, <1>8 DEF TypeOK, CloseCount

LEMMA TypeCloseThrows ==
  ASSUME TypeOK, CloseCount, FiniteInv, NEW s \in sockets, NEW S \in SUBSET sockets,
         CloseThrows(s, S)
  PROVE  TypeOK' /\ CloseCount'
<1>1. /\ ~closing /\ ~closed /\ closing' = TRUE /\ waits' = Cardinality(S) + 1
      /\ counted' = S \cup {s} /\ late' = sockets \ counted' /\ down' \in BOOLEAN
      /\ UNCHANGED <<closed, sockets, failed, connects, disconnects, listeners, closes>>
  BY DEF CloseThrows
<1>2. IsFiniteSet(S)
  BY FS_Subset DEF FiniteInv
<1>3. waits' \in Int
  BY <1>1, <1>2, FS_CardinalityType
<1>4. life' \in [Sock -> {"new", "connecting", "open", "dying", "silent", "dead"}]
  BY ClosedType DEF CloseThrows, TypeOK
<1>5. counted' \subseteq Sock /\ late' \subseteq Sock
  BY <1>1 DEF TypeOK
<1> QED
  BY <1>1, <1>3, <1>4, <1>5 DEF TypeOK, CloseCount, Unlinking

LEMMA TypeStep == TypeInv /\ [Next]_vars => TypeInv'
<1> SUFFICES ASSUME TypeInv, [Next]_vars PROVE TypeInv'
  OBVIOUS
<1>1. TypeOK /\ CloseCount /\ FiniteInv
  BY DEF TypeInv
<1>2. TypeOK' /\ CloseCount'
  <2>1. ASSUME NEW s \in Sock,
               \/ Connect(s) \/ Attach(s) \/ OnConnect(s) \/ OnClose(s) \/ DropAgain(s)
               \/ \E err \in BOOLEAN : Drop(s, err)
               \/ \E l \in Listener : Accept(l, s)
        PROVE  TypeOK' /\ CloseCount'
    BY <1>1, <2>1, TypeSocket, TypeOnClose DEF Attach, Accept
  <2>2. ASSUME NEW l \in Listener,
               \/ Listen(l) \/ AcceptFails(l) \/ Unlinked(l)
               \/ \E ok \in BOOLEAN :
                    PathFree(l, ok) \/ Resolved(l, ok) \/ Listening(l, ok) \/ MemListening(l, ok)
        PROVE  TypeOK' /\ CloseCount'
    BY <1>1, <2>2, TypeListener
  <2>3. CASE Close
    BY <1>1, <2>3, TypeClose
  <2>4. ASSUME NEW s \in sockets, NEW S \in SUBSET sockets, CloseThrows(s, S)
        PROVE  TypeOK' /\ CloseCount'
    BY <1>1, <2>4, TypeCloseThrows
  <2>5. CASE UNCHANGED vars
    BY <1>1, <2>5 DEF TypeOK, CloseCount, Unlinking, vars, sockVars
  <2> QED
    BY <2>1, <2>2, <2>3, <2>4, <2>5 DEF Next
<1> QED
  BY <1>1, <1>2, FiniteStep DEF TypeInv

\* The channel's types: among them, that it raises `close' twice at most.
THEOREM TypeCorrect == Spec => []TypeOK
<1>1. TypeInv => TypeOK
  BY DEF TypeInv
<1> QED
  BY <1>1, TypeInit, TypeStep, PTL DEF Spec

-----------------------------------------------------------------------------
(* The events of a socket                                                  *)

\* What each socket was told, by where it stands.
PairOf(s) ==
  /\ life[s] \in {"new", "connecting"} => connects[s] = 0
  /\ life[s] = "open" => connects[s] = 1
  /\ connects[s] <= 1
  /\ disconnects[s] = IF life[s] = "dead" THEN connects[s] ELSE 0

PairInv == ~down => \A s \in Sock : PairOf(s)

LEMMA PairInit == Init => PairInv
BY DEF Init, PairInv, PairOf

LEMMA PairStep == TypeOK /\ PairInv /\ [Next]_vars => PairInv'
<1> SUFFICES ASSUME TypeOK, PairInv, [Next]_vars, ~down', NEW r \in Sock PROVE PairOf(r)'
  BY DEF PairInv
<1> USE DEF PairOf
<1>1. CASE ~down /\ UNCHANGED <<life, connects, disconnects>>
  BY <1>1 DEF PairInv
<1>2. ASSUME NEW s \in Sock,
             \/ Connect(s) \/ (~down /\ AttachOpen(s)) \/ OnConnect(s) \/ DropAgain(s)
             \/ \E err \in BOOLEAN : Drop(s, err)
      PROVE  PairOf(r)'
  <2>1. ~down
    BY <1>2 DEF Connect, OnConnect, Drop, DropAgain
  <2>2. PairOf(r) /\ PairOf(s)
    BY <2>1 DEF PairInv
  <2>3. CASE DropAgain(s)
    BY <1>1, <2>1, <2>3 DEF DropAgain, sockVars
  <2>4. CASE Connect(s) \/ AttachOpen(s)
    BY <2>2, <2>4 DEF Connect, AttachOpen, Twice, TypeOK
  <2>5. CASE OnConnect(s)
    <3>1. CASE ~closing
      <4>1. /\ life[s] = "connecting" /\ life' = [life EXCEPT ![s] = "open"]
            /\ connects' = [connects EXCEPT ![s] = Twice(@)] /\ UNCHANGED disconnects
        BY <2>5, <3>1, Zenon DEF OnConnect
      <4> QED
        BY <2>2, <4>1 DEF Twice, TypeOK
    <3>2. CASE closing
      <4>1. UNCHANGED <<connects, disconnects>> /\ Gone(s, FALSE) /\ life[s] = "connecting"
        BY <2>5, <3>2 DEF OnConnect
      <4>2. PICK g \in {"dying", "silent"} : life' = [life EXCEPT ![s] = g]
        BY <4>1 DEF Gone
      <4> QED
        BY <2>2, <4>1, <4>2 DEF TypeOK
    <3> QED
      BY <3>1, <3>2
  <2>6. CASE \E err \in BOOLEAN : Drop(s, err)
    BY <2>2, <2>6 DEF Drop, Gone, TypeOK
  <2> QED
    BY <1>2, <2>3, <2>4, <2>5, <2>6
<1>3. ASSUME NEW s \in Sock, OnClose(s) PROVE PairOf(r)'
  <2>1. ~down /\ life[s] = "dying" /\ life' = [life EXCEPT ![s] = "dead"] /\ UNCHANGED connects
        /\ Disconnected(s)
    BY <1>3, Zenon DEF OnClose
  <2> QED
    BY <2>1 DEF PairInv, Disconnected, Twice, TypeOK
<1>4. CASE Close
  BY <1>4 DEF Close, Closed, PairInv, TypeOK
<1>7. ASSUME NEW s \in sockets, NEW S \in SUBSET sockets, CloseThrows(s, S) PROVE PairOf(r)'
  <2>1. /\ ~down /\ life[s] \in {"open", "silent"} /\ life' = [Closed(S) EXCEPT ![s] = "silent"]
        /\ UNCHANGED <<connects, disconnects>>
    BY <1>7 DEF CloseThrows
  <2> QED
    BY <2>1 DEF Closed, PairInv, TypeOK
<1>5. ASSUME NEW l \in Listener,
             \/ Listen(l) \/ AcceptFails(l) \/ Unlinked(l)
             \/ \E ok \in BOOLEAN :
                  PathFree(l, ok) \/ Resolved(l, ok) \/ Listening(l, ok) \/ MemListening(l, ok)
      PROVE  PairOf(r)'
  BY <1>1, <1>5 DEF Listen, AcceptFails, Unlinked, PathFree, Resolved, Listening, ListenStep,
    MemListening, sockVars
<1>6. CASE UNCHANGED vars
  BY <1>1, <1>6 DEF vars, sockVars
<1> QED
  <2>1. ASSUME NEW s \in Sock,
               \/ Connect(s) \/ Attach(s) \/ OnConnect(s) \/ OnClose(s) \/ DropAgain(s)
               \/ \E err \in BOOLEAN : Drop(s, err)
               \/ \E l \in Listener : Accept(l, s)
        PROVE  PairOf(r)'
    BY <1>2, <1>3, <2>1 DEF Attach, Accept
  <2> QED
    BY <1>4, <1>5, <1>6, <1>7, <2>1 DEF Next

\* A socket gets `connect' at most once, and `disconnect' exactly when it is
\* gone and had got `connect' before.
THEOREM EventsPairedCorrect == Spec => []EventsPaired
<1>1. TypeInv => TypeOK
  BY DEF TypeInv
<1>2. TypeOK /\ PairInv => EventsPaired
  BY DEF TypeOK, PairInv, PairOf, EventsPaired
<1> QED
  BY <1>1, <1>2, TypeInit, TypeStep, PairInit, PairStep, PTL DEF Spec

-----------------------------------------------------------------------------
(* The list of sockets                                                     *)

LEMMA ListInit == Init => ListExact
BY DEF Init, ListExact

LEMMA ListOnClose ==
  ASSUME TypeOK, ListExact, NEW s \in Sock, OnClose(s)
  PROVE  ListExact'
<1>1. ~down /\ life[s] = "dying" /\ life' = [life EXCEPT ![s] = "dead"]
      /\ UNCHANGED <<failed, listeners>>
  BY DEF OnClose
<1>2. s \in sockets
  BY <1>1 DEF ListExact
<1>3. CASE s \in failed /\ s \notin Watched
  <2>1. down'
    BY <1>3 DEF OnClose
  <2>2. s \in failed' /\ life'[s] = "dead"
    BY <1>1, <1>3 DEF TypeOK
  <2> QED
    BY <1>3, <2>1, <2>2 DEF ListExact
<1>4. CASE ~(s \in failed /\ s \notin Watched)
  <2>1. sockets' = sockets \ {s} /\ ~down'
    BY <1>1, <1>2, <1>4, Zenon DEF OnClose
  <2>2. sockets' = {r \in Sock : life'[r] \notin {"new", "dead"}}
    BY <1>1, <2>1 DEF ListExact, TypeOK
  <2> QED
    BY <2>1, <2>2 DEF ListExact
<1> QED
  BY <1>3, <1>4

LEMMA ListSocket ==
  ASSUME TypeOK, ListExact, NEW s \in Sock,
         \/ Connect(s) \/ (~down /\ AttachOpen(s)) \/ OnConnect(s) \/ DropAgain(s)
         \/ \E err \in BOOLEAN : Drop(s, err)
  PROVE  ListExact'
<1>1. ~down
  BY DEF Connect, OnConnect, Drop, DropAgain
<1>2. sockets = {r \in Sock : life[r] \notin {"new", "dead"}}
  BY <1>1 DEF ListExact
<1>3. CASE Connect(s) \/ AttachOpen(s)
  <2>1. ~down'
    BY <1>1, <1>3 DEF Connect, AttachOpen
  <2>2. sockets' = {r \in Sock : life'[r] \notin {"new", "dead"}}
    BY <1>2, <1>3 DEF Connect, AttachOpen, Enter, TypeOK
  <2> QED
    BY <2>1, <2>2, Zenon DEF ListExact
<1>4. ASSUME NEW c \in BOOLEAN, Gone(s, c), UNCHANGED sockets, life[s] \in {"connecting", "open"}
      PROVE  ListExact'
  <2>1. sockets' = {r \in Sock : life'[r] \notin {"new", "dead"}}
    BY <1>2, <1>4 DEF Gone, TypeOK
  <2>2. down' => s \in MemSock /\ life'[s] = "silent"
    BY <1>1, <1>4 DEF Gone, TypeOK
  <2> QED
    BY <2>1, <2>2, Zenon DEF ListExact
<1>5. CASE OnConnect(s)
  <2>1. CASE ~closing
    <3>1. ~down'
      BY <1>1, <1>5, <2>1 DEF OnConnect
    <3>2. sockets' = {r \in Sock : life'[r] \notin {"new", "dead"}}
      BY <1>2, <1>5, <2>1 DEF OnConnect, TypeOK
    <3> QED
      BY <3>1, <3>2, Zenon DEF ListExact
  <2>2. CASE closing
    BY <1>4, <1>5, <2>2 DEF OnConnect
  <2> QED
    BY <2>1, <2>2
<1>6. ASSUME NEW err \in BOOLEAN, Drop(s, err) PROVE ListExact'
  BY <1>4, <1>6 DEF Drop
<1>7. CASE DropAgain(s)
  BY <1>7 DEF DropAgain, ListExact, sockVars
<1> QED
  BY <1>3, <1>5, <1>6, <1>7

LEMMA ListStep == TypeOK /\ ListExact /\ [Next]_vars => ListExact'
<1> SUFFICES ASSUME TypeOK, ListExact, [Next]_vars PROVE ListExact'
  OBVIOUS
<1>1. ASSUME NEW s \in Sock,
             \/ Connect(s) \/ Attach(s) \/ OnConnect(s) \/ OnClose(s) \/ DropAgain(s)
             \/ \E err \in BOOLEAN : Drop(s, err)
             \/ \E l \in Listener : Accept(l, s)
      PROVE  ListExact'
  BY <1>1, ListSocket, ListOnClose DEF Attach, Accept
<1>2. ASSUME NEW l \in Listener,
             \/ Listen(l) \/ AcceptFails(l) \/ Unlinked(l)
             \/ \E ok \in BOOLEAN :
                  PathFree(l, ok) \/ Resolved(l, ok) \/ Listening(l, ok) \/ MemListening(l, ok)
      PROVE  ListExact'
  <2>1. ~down /\ UNCHANGED <<sockets, life>>
    BY <1>2 DEF Listen, AcceptFails, Unlinked, PathFree, Resolved, Listening, ListenStep,
      MemListening, sockVars
  <2>2. down' => listeners'[l] = "threw"
    BY <1>2, <2>1 DEF Listen, AcceptFails, Unlinked, PathFree, Resolved, Listening, ListenStep,
      MemListening, Bind, TypeOK
  <2> QED
    BY <2>1, <2>2 DEF ListExact
<1>3. CASE Close
  <2>1. ~down /\ UNCHANGED <<down, sockets>>
    BY <1>3 DEF Close
  <2>2. \A r \in Sock : life'[r] \in {"new", "dead"} <=> life[r] \in {"new", "dead"}
    BY <1>3 DEF Close, Closed
  <2> QED
    BY <2>1, <2>2 DEF ListExact
<1>4. ASSUME NEW s \in sockets, NEW S \in SUBSET sockets, CloseThrows(s, S) PROVE ListExact'
  <2>1. /\ ~down /\ UNCHANGED sockets /\ s \in MemSock /\ life[s] \in {"open", "silent"}
        /\ life' = [Closed(S) EXCEPT ![s] = "silent"]
    BY <1>4 DEF CloseThrows
  <2>2. \A r \in Sock : life'[r] \in {"new", "dead"} <=> life[r] \in {"new", "dead"}
    BY <2>1 DEF Closed
  <2>3. s \in Sock /\ life'[s] = "silent"
    BY <2>1 DEF Closed, TypeOK
  <2> QED
    BY <2>1, <2>2, <2>3 DEF ListExact
<1>5. CASE UNCHANGED vars
  BY <1>5 DEF ListExact, vars, sockVars
<1> QED
  BY <1>1, <1>2, <1>3, <1>4, <1>5 DEF Next

\* The list holds the attached sockets that are not gone, so that the assertion
\* of the close handler (`socket not in list') never fires.
THEOREM ListExactCorrect == Spec => []ListExact
<1>1. TypeInv => TypeOK
  BY DEF TypeInv
<1> QED
  BY <1>1, TypeInit, TypeStep, ListInit, ListStep, PTL DEF Spec

-----------------------------------------------------------------------------
(* The count of close()                                                    *)

Going == counted \cap sockets

\* The count is exact while the channel closes and nothing is missed; then the
\* list only loses sockets close() counted.
WaitInv ==
  ~down /\ closing /\ late = {} =>
    /\ sockets \subseteq counted
    /\ waits = Cardinality(Going) + Cardinality(Unlinking)

LEMMA WaitFinite ==
  ASSUME FiniteInv
  PROVE  IsFiniteSet(sockets) /\ IsFiniteSet(Going) /\ IsFiniteSet(Unlinking)
<1>1. Going \subseteq sockets /\ Unlinking \subseteq Used
  BY DEF Going, Unlinking, Used
<1> QED
  BY <1>1, FS_Subset DEF FiniteInv

LEMMA WaitInit == Init => WaitInv
BY DEF Init, WaitInv

\* The count goes down by one with each of the two things it counts.
LEMMA CountDownExact ==
  ASSUME TypeOK, FiniteInv, WaitInv, ~down, UNCHANGED <<late, counted>>, CountDown,
         \/ \E s \in sockets : sockets' = sockets \ {s} /\ Unlinking' = Unlinking
         \/ \E l \in Unlinking : Unlinking' = Unlinking \ {l} /\ sockets' = sockets
  PROVE  WaitInv'
<1>1. SUFFICES ASSUME closing, late = {}
               PROVE  /\ sockets' \subseteq counted'
                      /\ waits' = Cardinality(Going') + Cardinality(Unlinking')
  BY DEF CountDown, WaitInv
<1>2. /\ sockets \subseteq counted /\ waits = Cardinality(Going) + Cardinality(Unlinking)
      /\ waits' = waits - 1
  BY <1>1 DEF WaitInv, CountDown
<1>3. /\ IsFiniteSet(Going) /\ IsFiniteSet(Unlinking)
      /\ Cardinality(Going) \in Nat /\ Cardinality(Unlinking) \in Nat
  BY WaitFinite, FS_CardinalityType
<1>4. ASSUME NEW s \in sockets, sockets' = sockets \ {s}, Unlinking' = Unlinking
      PROVE  waits' = Cardinality(Going') + Cardinality(Unlinking')
  <2>1. s \in Going /\ Going' = Going \ {s}
    BY <1>2, <1>4 DEF Going
  <2>2. Cardinality(Going') = Cardinality(Going) - 1
    BY <1>3, <2>1, FS_RemoveElement
  <2> QED
    BY <1>2, <1>3, <1>4, <2>2
<1>5. ASSUME NEW l \in Unlinking, Unlinking' = Unlinking \ {l}, sockets' = sockets
      PROVE  waits' = Cardinality(Going') + Cardinality(Unlinking')
  <2>1. Going' = Going
    BY <1>5 DEF Going
  <2>2. Cardinality(Unlinking') = Cardinality(Unlinking) - 1
    BY <1>3, <1>5, FS_RemoveElement
  <2> QED
    BY <1>2, <1>3, <2>1, <2>2
<1> QED
  BY <1>2, <1>4, <1>5

LEMMA WaitClose ==
  ASSUME TypeOK, CloseCount, FiniteInv, Close
  PROVE  WaitInv'
<1>1. PICK unlinks : unlinks = {l \in Unix : listeners[l] = "active"}
  OBVIOUS
<1>2. /\ ~closing /\ ~closed /\ closing' /\ counted' = sockets /\ sockets' = sockets
      /\ waits' = Cardinality(sockets) + Cardinality(unlinks)
      /\ listeners' = [l \in Listener |->
           IF listeners[l] # "active" THEN listeners[l]
           ELSE IF l \in unlinks THEN "unlinking" ELSE "stopped"]
  BY <1>1, Zenon DEF Close, Counted
<1>3. Unlinking = {}
  BY <1>2 DEF CloseCount
<1>4. Unlinking' = unlinks
  BY <1>1, <1>2, <1>3, KindAssumption DEF Unlinking
<1>5. Going' = sockets
  BY <1>2 DEF Going
<1> QED
  BY <1>2, <1>4, <1>5 DEF WaitInv

LEMMA WaitCloseThrows ==
  ASSUME TypeOK, CloseCount, FiniteInv, NEW s \in sockets, NEW S \in SUBSET sockets,
         CloseThrows(s, S)
  PROVE  WaitInv'
<1>1. /\ ~closing /\ ~closed /\ s \notin S /\ waits' = Cardinality(S) + 1
      /\ counted' = S \cup {s} /\ late' = sockets \ counted'
      /\ UNCHANGED <<sockets, listeners>>
  BY DEF CloseThrows
<1>2. SUFFICES ASSUME late' = {}
               PROVE  /\ sockets' \subseteq counted'
                      /\ waits' = Cardinality(Going') + Cardinality(Unlinking')
  BY DEF WaitInv
<1>3. sockets' \subseteq counted' /\ Going' = S \cup {s}
  BY <1>1, <1>2 DEF Going
<1>4. Unlinking' = {}
  BY <1>1 DEF CloseCount, Unlinking
<1>5. IsFiniteSet(S)
  BY FS_Subset DEF FiniteInv
<1>6. Cardinality(S \cup {s}) = Cardinality(S) + 1 /\ Cardinality(S) \in Nat
  BY <1>1, <1>5, FS_AddElement, FS_CardinalityType
<1>7. Cardinality(Unlinking') = 0
  BY <1>4, FS_EmptySet
<1> QED
  BY <1>1, <1>3, <1>6, <1>7

\* What neither closes nor is waited for.
LEMMA WaitOther ==
  ASSUME TypeOK, WaitInv, UNCHANGED <<closing, closed, waits, counted>>, ~down,
         Unlinking' = Unlinking,
         \/ UNCHANGED <<sockets, late>>
         \/ \E s \in Sock : Enter(s)
  PROVE  WaitInv'
<1>1. CASE UNCHANGED <<sockets, late>>
  BY <1>1 DEF WaitInv, Going
<1>2. ASSUME NEW s \in Sock, Enter(s) PROVE WaitInv'
  BY <1>2 DEF WaitInv, Enter
<1> QED
  BY <1>1, <1>2

LEMMA WaitStep == TypeInv /\ WaitInv /\ [Next]_vars => WaitInv'
<1> SUFFICES ASSUME TypeInv, WaitInv, [Next]_vars PROVE WaitInv'
  OBVIOUS
<1> USE DEF TypeInv
<1>1. ASSUME NEW s \in Sock, OnClose(s) PROVE WaitInv'
  <2>1. ~down /\ UNCHANGED <<late, counted, listeners>>
    BY <1>1 DEF OnClose
  <2>2. Unlinking' = Unlinking
    BY <2>1 DEF Unlinking
  <2>3. CASE (s \in failed /\ s \notin Watched) \/ s \notin sockets
    <3>1. UNCHANGED <<sockets, waits, closing, closed>>
      BY <1>1, <2>3, Zenon DEF OnClose
    <3> QED
      BY <2>1, <2>2, <3>1, WaitOther
  <2>4. CASE ~((s \in failed /\ s \notin Watched) \/ s \notin sockets)
    <3>1. s \in sockets /\ sockets' = sockets \ {s} /\ WaitOver
      BY <1>1, <2>4, Zenon DEF OnClose
    <3>2. CASE closing
      BY <2>1, <2>2, <3>1, <3>2, CountDownExact DEF WaitOver
    <3>3. CASE ~closing
      BY <3>1, <3>3 DEF WaitOver, WaitInv
    <3> QED
      BY <3>2, <3>3
  <2> QED
    BY <2>3, <2>4
<1>2. ASSUME NEW s \in Sock,
             \/ Connect(s) \/ (~down /\ AttachOpen(s)) \/ OnConnect(s) \/ DropAgain(s)
             \/ \E err \in BOOLEAN : Drop(s, err)
      PROVE  WaitInv'
  <2>1. ~down /\ UNCHANGED <<closing, closed, waits, counted, listeners>>
    BY <1>2 DEF Connect, AttachOpen, OnConnect, Drop, DropAgain
  <2>2. UNCHANGED <<sockets, late>> \/ Enter(s)
    BY <1>2 DEF Connect, AttachOpen, OnConnect, Drop, DropAgain, sockVars
  <2>3. Unlinking' = Unlinking
    BY <2>1 DEF Unlinking
  <2> QED
    BY <2>1, <2>2, <2>3, WaitOther
<1>3. ASSUME NEW s \in Sock,
             \/ Connect(s) \/ Attach(s) \/ OnConnect(s) \/ OnClose(s) \/ DropAgain(s)
             \/ \E err \in BOOLEAN : Drop(s, err)
             \/ \E l \in Listener : Accept(l, s)
      PROVE  WaitInv'
  BY <1>1, <1>2, <1>3 DEF Attach, Accept
<1>4. ASSUME NEW l \in Listener, Unlinked(l) PROVE WaitInv'
  <2>1. /\ ~down /\ UNCHANGED <<late, counted, sockets>> /\ CountDown
        /\ listeners[l] = "unlinking" /\ listeners' = [listeners EXCEPT ![l] = "stopped"]
    BY <1>4 DEF Unlinked, sockVars
  <2>2. l \in Unlinking /\ Unlinking' = Unlinking \ {l}
    BY <2>1 DEF Unlinking, TypeOK
  <2> QED
    BY <2>1, <2>2, CountDownExact
<1>5. ASSUME NEW l \in Listener,
             \/ Listen(l) \/ AcceptFails(l)
             \/ \E ok \in BOOLEAN :
                  PathFree(l, ok) \/ Resolved(l, ok) \/ Listening(l, ok) \/ MemListening(l, ok)
      PROVE  WaitInv'
  <2>1. ~down /\ UNCHANGED <<closing, closed, waits, counted, sockets, late>>
    BY <1>5 DEF Listen, AcceptFails, PathFree, Resolved, Listening, ListenStep, MemListening,
      sockVars
  <2>2. Unlinking' = Unlinking
    BY <1>5, UnlinkingStep
  <2> QED
    BY <2>1, <2>2, WaitOther
<1>6. ASSUME NEW s \in sockets, NEW S \in SUBSET sockets, CloseThrows(s, S) PROVE WaitInv'
  BY <1>6, WaitCloseThrows
<1>7. CASE UNCHANGED vars
  BY <1>7 DEF WaitInv, Going, Unlinking, vars, sockVars
<1> QED
  BY <1>3, <1>4, <1>5, <1>6, <1>7, WaitClose DEF Next

\* While the channel closes and nothing enters it, its count is the sockets and
\* the paths that are still to go: it cannot pass zero, nor miss it.
THEOREM WaitCountCorrect == Spec => []WaitCountExact
<1>1. WaitInv => WaitCountExact
  BY DEF WaitInv, WaitCountExact, Going, Unlinking
<1> QED
  BY <1>1, TypeInit, TypeStep, WaitInit, WaitStep, PTL DEF Spec
=============================================================================
