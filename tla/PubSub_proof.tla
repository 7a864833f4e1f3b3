------------------------------ MODULE PubSub_proof ------------------------------
(***************************************************************************)
(* Proofs about PubSub, for any channels, connections, patterns and        *)
(* sources.                                                                *)
(***************************************************************************)
EXTENDS PubSub, SequenceLemmas

\* The channel lists, once each, the sockets that are connected or whose `close'
\* is due.
ConnsInv ==
  /\ IsInjective(conns)
  /\ \A c \in Conn : c \in ToSet(conns) <=> pubEnd[c] \in {"open", "closing"}

\* The entry of a pattern holds, once each, the sockets that list it; those that
\* are gone too.
RouteInv ==
  \A p \in Pattern :
    /\ IsInjective(routes[p])
    /\ \A c \in Conn : c \in ToSet(routes[p]) <=> Listed(c, p)

\* The calls of exclude are finitely many.
FiniteInv == \A a \in Sub : IsFiniteSet(excl[a])

\* What SubSocket filed is what the sub channel excludes, once it is open, and
\* some of it before.
FiledInv ==
  \A c \in Conn :
    /\ subEnd[c] = "new" => exkeys[c] = {} /\ wire[c] = <<>> /\ pubEnd[c] = "new"
    /\ subEnd[c] = "connecting" => exkeys[c] \subseteq excl[Owner[c]]
    /\ subEnd[c] = "open" => exkeys[c] = excl[Owner[c]]
    /\ pubEnd[c] = "new" => pubExcl[c] = {}

\* Option message m is about excluding x, and message i is the last of w that is.
About(m, x) == m.op \in {"exclude", "include"} /\ m.arg = x
LastAbout(w, x, i) ==
  i \in DOMAIN w /\ About(w[i], x) /\ \A j \in DOMAIN w : j > i => ~About(w[j], x)

\* With w under way, the last message about x says whether x is among the keys
\* filed at the subscriber; when there is none the publisher knows.
Replays(w, x, filed, known) ==
  /\ \A i \in DOMAIN w : LastAbout(w, x, i) => (w[i].op = "exclude" <=> x \in filed)
  /\ (\A i \in DOMAIN w : ~About(w[i], x)) => (x \in known <=> x \in filed)

Live(c) == subEnd[c] \in {"connecting", "open"} /\ pubEnd[c] \in {"new", "open"}

\* The sources whose key the publisher's end has.
Known(c) == {x \in Source : Ascii[x] \in pubExcl[c]}

\* Both ends of a live connection agree on the exclusions but for what is under
\* way, and for sources that share a key.
ReplayInv ==
  \A c \in Conn, x \in Source :
    Live(c) /\ Alone(x) => Replays(wire[c], x, exkeys[c], Known(c))

\* TypeOK is inductive only together with what makes every splice find its
\* entry and the longest pattern exist.
ListInv == TypeOK /\ ConnsInv /\ RouteInv /\ FiniteInv /\ LongestCovers

StepInv == ListInv /\ FiledInv /\ ReplayInv

-----------------------------------------------------------------------------
\* Splicing a list without repetition takes out just that entry.
LEMMA SplicedOnce ==
  ASSUME NEW S, NEW q \in Seq(S), IsInjective(q), NEW e \in ToSet(q)
  PROVE  /\ Spliced(q, e) \in Seq(S) /\ IsInjective(Spliced(q, e))
         /\ ToSet(Spliced(q, e)) = ToSet(q) \ {e}
<1>1. PICK k \in DOMAIN q : q[k] = e
  BY DEF ToSet
<1>2. k \in DOMAIN q /\ q[k] = e /\ \A j \in DOMAIN q : j < k => q[j] # e
  BY <1>1 DEF IsInjective
<1>3. PICK i : i = CHOOSE n \in DOMAIN q : q[n] = e /\ \A j \in DOMAIN q : j < n => q[j] # e
  OBVIOUS
<1>4. i \in DOMAIN q /\ q[i] = e
  BY <1>2, <1>3
<1>5. Spliced(q, e) = RemoveAt(q, i)
  BY <1>3 DEF Spliced
<1>6. RemoveAt(q, i) \in Seq(S)
  <2>1. SubSeq(q, 1, i - 1) \in Seq(S) /\ SubSeq(q, i + 1, Len(q)) \in Seq(S)
    BY <1>4
  <2> QED
    BY <2>1 DEF RemoveAt
<1> QED
  BY <1>4, <1>5, <1>6, RemoveOnce

\* The longest pattern of a list exists.
LEMMA MaxLenGreatest ==
  ASSUME NEW q \in Seq(Pattern), NEW n \in Nat, \A i \in DOMAIN q : Len(q[i]) <= n
  PROVE  MaxLen(q) \in Nat \cup {-1} /\ \A i \in DOMAIN q : Len(q[i]) <= MaxLen(q)
<1>1. CASE q = <<>>
  BY <1>1 DEF MaxLen
<1>2. CASE q # <<>>
  <2> DEFINE T == {Len(q[i]) : i \in DOMAIN q}
  <2>1. \A i \in DOMAIN q : q[i] \in Seq(Nat) /\ Len(q[i]) \in Nat
    BY BytesAssumption
  <2>2. T \in SUBSET Nat /\ T # {} /\ \A x \in T : x <= n
    <3>1. 1 \in DOMAIN q
      BY <1>2
    <3> QED
      BY <2>1, <3>1
  <2>3. PICK x \in T : \A y \in T : y <= x
    <3> HIDE DEF T
    <3> QED
      BY <2>2, GreatestNatural
  <2>4. \A i \in DOMAIN q : Len(q[i]) <= x
    BY <2>3
  <2>5. PICK m : m = CHOOSE y \in T : \A i \in DOMAIN q : Len(q[i]) <= y
    OBVIOUS
  <2>6. m \in T /\ \A i \in DOMAIN q : Len(q[i]) <= m
    BY <2>3, <2>4, <2>5
  <2>7. MaxLen(q) = m
    BY <1>2, <2>5 DEF MaxLen
  <2> QED
    BY <2>2, <2>6, <2>7
<1> QED
  BY <1>1, <1>2

-----------------------------------------------------------------------------
\* Options
Opt == [op : {"subscribe", "unsubscribe"}, arg : Pattern]
       \cup [op : {"exclude", "include"}, arg : Source]

LEMMA TellTyped ==
  ASSUME TypeOK, NEW who, NEW op, NEW arg, [op |-> op, arg |-> arg] \in Opt, Tell(who, op, arg)
  PROVE  wire' \in [Conn -> Seq(Opt)]
<1>1. PICK m \in Opt : m = [op |-> op, arg |-> arg]
  OBVIOUS
<1>2. wire \in [Conn -> Seq(Opt)]
  BY DEF TypeOK, Opt
<1>3. wire' = [c \in Conn |-> IF c \in who THEN Append(wire[c], m) ELSE wire[c]]
  BY <1>1 DEF Tell
<1>4. \A c \in Conn : Append(wire[c], m) \in Seq(Opt)
  BY <1>2
<1> QED
  BY <1>2, <1>3, <1>4

\* Sending the exclusions of a new connection.
LEMMA UntoldSeq ==
  ASSUME ListInv, NEW c \in Conn, NEW rest \in SetToSeqs(Untold(c))
  PROVE  rest \in Seq(Source) /\ ToSet(rest) = Untold(c)
<1> DEFINE U == Untold(c)
<1>1. U \subseteq Source /\ IsFiniteSet(U)
  <2>1. Owner[c] \in Sub /\ excl[Owner[c]] \subseteq Source /\ IsFiniteSet(excl[Owner[c]])
    BY OwnerAssumption DEF ListInv, TypeOK, FiniteInv
  <2> QED
    BY <2>1, FS_Subset DEF Untold
<1> HIDE DEF U
<1>2. PICK n \in Nat : n = Cardinality(U)
  BY <1>1, FS_CardinalityType
<1>3. rest \in [1 .. n -> U] /\ \A i, j \in 1 .. n : i # j => rest[i] # rest[j]
  BY <1>2 DEF SetToSeqs, U
<1>4. rest \in Injection(1 .. n, U)
  BY <1>3 DEF Injection, IsInjective
<1>5. Cardinality(1 .. n) = n
  BY FS_Interval
<1>6. rest \in Surjection(1 .. n, U)
  BY <1>1, <1>2, <1>4, <1>5, FS_Injection
<1>7. rest \in Seq(Source) /\ DOMAIN rest = 1 .. n
  BY <1>1, <1>3
<1> QED
  BY <1>3, <1>6, <1>7 DEF Surjection, ToSet, U

-----------------------------------------------------------------------------
\* Types
LEMMA CallTyped ==
  ASSUME TypeOK, NEW a \in Sub, Call(a)
  PROVE  TypeOK'
<1>1. calls' \in Nat
  <2>1. calls \in Nat /\ Calls(a)
    BY DEF TypeOK, Call, Subscribe, Unsubscribe, Exclude, Include
  <2> QED
    BY <2>1 DEF Calls
<1>2. ASSUME NEW p \in Pattern, Subscribe(a, p) PROVE TypeOK'
  <2> USE DEF Subscribe, SockSubscribe
  <2>1. wire' \in [Conn -> Seq(Opt)]
    BY <1>2, TellTyped DEF Opt
  <2>2. subs' \in [Sub -> SUBSET Pattern]
    BY <1>2 DEF TypeOK
  <2>3. keys' \in [Conn -> SUBSET {Key(q) : q \in Pattern}]
    BY <1>2 DEF TypeOK
  <2>4. UNCHANGED <<excl, subEnd, exkeys, pubEnd, pubSock, conns, routes>>
    BY <1>2
  <2> QED
    BY <1>1, <2>1, <2>2, <2>3, <2>4 DEF TypeOK, Opt, pubSock
<1>3. ASSUME NEW p \in Pattern, Unsubscribe(a, p) PROVE TypeOK'
  <2> USE DEF Unsubscribe, SockUnsubscribe
  <2>1. wire' \in [Conn -> Seq(Opt)]
    BY <1>3, TellTyped DEF Opt
  <2>2. subs' \in [Sub -> SUBSET Pattern]
    BY <1>3 DEF TypeOK
  <2>3. keys' \in [Conn -> SUBSET {Key(q) : q \in Pattern}]
    BY <1>3 DEF TypeOK
  <2>4. UNCHANGED <<excl, subEnd, exkeys, pubEnd, pubSock, conns, routes>>
    BY <1>3
  <2> QED
    BY <1>1, <2>1, <2>2, <2>3, <2>4 DEF TypeOK, Opt, pubSock
<1>4. ASSUME NEW x \in Source, Exclude(a, x) PROVE TypeOK'
  <2> USE DEF Exclude, SockExclude
  <2>1. wire' \in [Conn -> Seq(Opt)]
    BY <1>4, TellTyped DEF Opt
  <2>2. excl' \in [Sub -> SUBSET Source]
    BY <1>4 DEF TypeOK
  <2>3. exkeys' \in [Conn -> SUBSET Source]
    BY <1>4 DEF TypeOK
  <2>4. UNCHANGED <<subs, subEnd, keys, pubEnd, pubSock, conns, routes>>
    BY <1>4
  <2> QED
    BY <1>1, <2>1, <2>2, <2>3, <2>4 DEF TypeOK, Opt, pubSock
<1>5. ASSUME NEW x \in Source, Include(a, x) PROVE TypeOK'
  <2> USE DEF Include, SockInclude
  <2>1. wire' \in [Conn -> Seq(Opt)]
    BY <1>5, TellTyped DEF Opt
  <2>2. excl' \in [Sub -> SUBSET Source]
    BY <1>5 DEF TypeOK
  <2>3. exkeys' \in [Conn -> SUBSET Source]
    BY <1>5 DEF TypeOK
  <2>4. UNCHANGED <<subs, subEnd, keys, pubEnd, pubSock, conns, routes>>
    BY <1>5
  <2> QED
    BY <1>1, <2>1, <2>2, <2>3, <2>4 DEF TypeOK, Opt, pubSock
<1> QED
  BY <1>2, <1>3, <1>4, <1>5 DEF Call

\* What a new connection sends: the patterns, then the exclusions.
LEMMA OnConnectSends ==
  ASSUME ListInv, NEW c \in Conn, OnConnect(c)
  PROVE  \E f \in Seq(Opt), r \in Seq(Opt) :
           /\ wire' = [wire EXCEPT ![c] = (@ \o f) \o r]
           /\ \A i \in DOMAIN f : f[i].op = "subscribe"
           /\ \A i \in DOMAIN r : r[i].op = "exclude" /\ r[i].arg \in Untold(c)
           /\ \A x \in Untold(c) : \E i \in DOMAIN r : r[i].arg = x
<1> DEFINE fresh == {p \in subs[Owner[c]] : Key(p) \notin keys[c]}
<1>1. PICK first \in {<<p>> : p \in fresh} \cup {<<>>}, rest \in SetToSeqs(Untold(c)) :
        wire' = [wire EXCEPT ![c] = @
                   \o [i \in DOMAIN first |-> [op |-> "subscribe", arg |-> first[i]]]
                   \o [i \in DOMAIN rest |-> [op |-> "exclude", arg |-> rest[i]]]]
  BY DEF OnConnect
<1>2. fresh \subseteq Pattern
  BY OwnerAssumption DEF ListInv, TypeOK
<1>3. first \in Seq(Pattern)
  <2> HIDE DEF fresh
  <2>1. CASE first = <<>>
    BY <2>1
  <2>2. CASE first # <<>>
    <3>1. PICK p \in fresh : first = <<p>>
      BY <1>1, <2>2
    <3> QED
      BY <1>2, <3>1
  <2> QED
    BY <2>1, <2>2
<1>4. rest \in Seq(Source) /\ ToSet(rest) = Untold(c)
  BY UntoldSeq
<1>5. PICK f : f = [i \in DOMAIN first |-> [op |-> "subscribe", arg |-> first[i]]]
  OBVIOUS
<1>6. PICK r : r = [i \in DOMAIN rest |-> [op |-> "exclude", arg |-> rest[i]]]
  OBVIOUS
<1>7. f \in Seq(Opt) /\ DOMAIN f = DOMAIN first /\ \A i \in DOMAIN f : f[i].op = "subscribe"
  <2>1. \A i \in DOMAIN first : [op |-> "subscribe", arg |-> first[i]] \in Opt
    BY <1>3 DEF Opt
  <2>2. DOMAIN first = 1 .. Len(first) /\ Len(first) \in Nat
    BY <1>3
  <2>3. f \in [1 .. Len(first) -> Opt]
    BY <1>5, <2>1, <2>2
  <2>4. f \in Seq(Opt)
    BY <2>2, <2>3
  <2> QED
    BY <1>5, <2>4
<1>8. r \in Seq(Opt) /\ DOMAIN r = DOMAIN rest
      /\ \A i \in DOMAIN r : r[i].op = "exclude" /\ r[i].arg = rest[i]
  <2>1. \A i \in DOMAIN rest : [op |-> "exclude", arg |-> rest[i]] \in Opt
    BY <1>4 DEF Opt
  <2>2. DOMAIN rest = 1 .. Len(rest) /\ Len(rest) \in Nat
    BY <1>4
  <2>3. r \in [1 .. Len(rest) -> Opt]
    BY <1>6, <2>1, <2>2
  <2>4. r \in Seq(Opt)
    BY <2>2, <2>3
  <2> QED
    BY <1>6, <2>4
<1>9. wire' = [wire EXCEPT ![c] = (@ \o f) \o r]
  BY <1>1, <1>5, <1>6
<1>10. /\ \A i \in DOMAIN r : r[i].arg \in Untold(c)
       /\ \A x \in Untold(c) : \E i \in DOMAIN r : r[i].arg = x
  BY <1>4, <1>8 DEF ToSet
<1> QED
  BY <1>7, <1>8, <1>9, <1>10

LEMMA ConnTyped ==
  ASSUME ListInv, NEW c \in Conn,
         Connect(c) \/ OnConnect(c) \/ SubClose(c) \/ Accept(c) \/ PubDestroy(c) \/ PubGone(c)
  PROVE  TypeOK'
<1>1. ASSUME Connect(c) PROVE TypeOK'
  BY <1>1 DEF ListInv, TypeOK, Connect, subChan, pubSock
<1>2. ASSUME OnConnect(c) PROVE TypeOK'
  <2>1. wire' \in [Conn -> Seq(Opt)]
    <3>1. PICK f \in Seq(Opt), r \in Seq(Opt) :
                 /\ wire' = [wire EXCEPT ![c] = (@ \o f) \o r]
                 /\ \A i \in DOMAIN f : f[i].op = "subscribe"
                 /\ \A i \in DOMAIN r : r[i].op = "exclude" /\ r[i].arg \in Untold(c)
                 /\ \A x \in Untold(c) : \E i \in DOMAIN r : r[i].arg = x
      BY <1>2, OnConnectSends
    <3>2. wire \in [Conn -> Seq(Opt)]
      BY DEF ListInv, TypeOK, Opt
    <3>3. (wire[c] \o f) \o r \in Seq(Opt)
      BY <3>2
    <3> QED
      BY <3>1, <3>2, <3>3
  <2>2. keys' \in [Conn -> SUBSET {Key(q) : q \in Pattern}]
    <3>1. keys' = [keys EXCEPT ![c] =
                     @ \cup {Key(p) : p \in {p \in subs[Owner[c]] : Key(p) \notin keys[c]}}]
      BY <1>2 DEF OnConnect
    <3>2. {Key(p) : p \in {p \in subs[Owner[c]] : Key(p) \notin keys[c]}}
            \subseteq {Key(q) : q \in Pattern}
      BY OwnerAssumption DEF ListInv, TypeOK
    <3>3. keys \in [Conn -> SUBSET {Key(q) : q \in Pattern}]
      BY DEF ListInv, TypeOK
    <3> QED
      BY <3>1, <3>2, <3>3
  <2>3. exkeys' \in [Conn -> SUBSET Source]
    BY <1>2, OwnerAssumption DEF ListInv, TypeOK, OnConnect, Untold
  <2>4. subEnd' \in [Conn -> {"new", "connecting", "open", "closed"}]
    BY <1>2 DEF ListInv, TypeOK, OnConnect
  <2>5. UNCHANGED <<subChan, pubEnd, pubSock, conns, routes>>
    BY <1>2 DEF OnConnect
  <2> QED
    BY <2>1, <2>2, <2>3, <2>4, <2>5 DEF ListInv, TypeOK, Opt, subChan, pubSock
<1>3. ASSUME SubClose(c) PROVE TypeOK'
  <2>1. wire' \in [Conn -> Seq(Opt)]
    <3>1. PICK n \in 0 .. Len(wire[c]) : wire' = [wire EXCEPT ![c] = SubSeq(@, 1, n)]
      BY <1>3 DEF SubClose
    <3>2. wire \in [Conn -> Seq(Opt)]
      BY DEF ListInv, TypeOK, Opt
    <3>3. SubSeq(wire[c], 1, n) \in Seq(Opt)
      BY <3>2
    <3> QED
      BY <3>1, <3>2, <3>3
  <2>2. subEnd' \in [Conn -> {"new", "connecting", "open", "closed"}]
    BY <1>3 DEF ListInv, TypeOK, SubClose
  <2>3. UNCHANGED <<subChan, keys, exkeys, pubEnd, pubSock, conns, routes>>
    BY <1>3 DEF SubClose
  <2> QED
    BY <2>1, <2>2, <2>3 DEF ListInv, TypeOK, Opt, subChan, pubSock
<1>4. ASSUME Accept(c) PROVE TypeOK'
  BY <1>4 DEF ListInv, TypeOK, Accept, subChan, subSock, pubSock
<1>5. ASSUME PubDestroy(c) PROVE TypeOK'
  BY <1>5 DEF ListInv, TypeOK, PubDestroy, subChan, subSock, pubSock
<1>6. ASSUME PubGone(c) PROVE TypeOK'
  <2>1. conns' \in Seq(Conn)
    BY <1>6, SplicedOnce DEF ListInv, TypeOK, ConnsInv, PubGone
  <2>2. pubEnd' \in [Conn -> {"new", "open", "closing", "closed"}]
    BY <1>6 DEF ListInv, TypeOK, PubGone
  <2>3. UNCHANGED <<subChan, subSock, wire, pubSock, routes>>
    BY <1>6 DEF PubGone
  <2> QED
    BY <2>1, <2>2, <2>3 DEF ListInv, TypeOK, subChan, subSock, pubSock
<1> QED
  BY <1>1, <1>2, <1>3, <1>4, <1>5, <1>6

LEMMA TakesTyped ==
  ASSUME TypeOK, NEW c \in Conn, NEW op, NEW arg, Takes(c, op, arg)
  PROVE  /\ wire' \in [Conn -> Seq(Opt)]
         /\ UNCHANGED <<subs, excl, calls, subEnd, keys, exkeys, pubEnd, conns>>
<1>1. wire \in [Conn -> Seq(Opt)] /\ wire[c] # <<>> /\ wire' = [wire EXCEPT ![c] = Tail(@)]
  BY DEF TypeOK, Opt, Takes
<1>2. Tail(wire[c]) \in Seq(Opt)
  BY <1>1
<1> QED
  BY <1>1, <1>2 DEF Takes, subChan, subSock

\* The lists after a pattern was added and after one was taken out.
LEMMA SubscribedLists ==
  ASSUME ListInv, NEW c \in Conn, NEW p \in Pattern, OnSubscribe(c, p)
  PROVE  /\ list' \in [Conn -> Seq(Pattern)] /\ routes' \in [Pattern -> Seq(Conn)]
         /\ \A d \in Conn \ {c} : list'[d] = list[d]
         /\ \A q \in Pattern \ {p} : routes'[q] = routes[q]
         /\ ToSet(list'[c]) = ToSet(list[c]) \cup {p} /\ IsInjective(list'[c])
         /\ ToSet(routes'[p]) = ToSet(routes[p]) \cup {c} /\ IsInjective(routes'[p])
<1>1. /\ list \in [Conn -> Seq(Pattern)] /\ IsInjective(list[c]) /\ p \notin ToSet(list[c])
      /\ list' = [list EXCEPT ![c] = Append(@, p)]
  BY DEF ListInv, TypeOK, OnSubscribe, Listed
<1>2. /\ routes \in [Pattern -> Seq(Conn)] /\ IsInjective(routes[p]) /\ c \notin ToSet(routes[p])
      /\ routes' = [routes EXCEPT ![p] = Append(@, c)]
  BY DEF ListInv, TypeOK, RouteInv, OnSubscribe, Listed
<1>3. /\ ToSet(Append(list[c], p)) = ToSet(list[c]) \cup {p} /\ IsInjective(Append(list[c], p))
  BY <1>1, AppendOnce
<1>4. /\ ToSet(Append(routes[p], c)) = ToSet(routes[p]) \cup {c}
      /\ IsInjective(Append(routes[p], c))
  BY <1>2, AppendOnce
<1>5. list'[c] = Append(list[c], p) /\ routes'[p] = Append(routes[p], c)
  BY <1>1, <1>2
<1> QED
  BY <1>1, <1>2, <1>3, <1>4, <1>5

LEMMA UnsubscribedLists ==
  ASSUME ListInv, NEW c \in Conn, NEW p \in Pattern, OnUnsubscribe(c, p)
  PROVE  /\ list' \in [Conn -> Seq(Pattern)] /\ routes' \in [Pattern -> Seq(Conn)]
         /\ \A d \in Conn \ {c} : list'[d] = list[d]
         /\ \A q \in Pattern \ {p} : routes'[q] = routes[q]
         /\ list'[c] = Spliced(list[c], p)
         /\ ToSet(list'[c]) = ToSet(list[c]) \ {p} /\ IsInjective(list'[c])
         /\ ToSet(routes'[p]) = ToSet(routes[p]) \ {c} /\ IsInjective(routes'[p])
<1>1. /\ list \in [Conn -> Seq(Pattern)] /\ IsInjective(list[c]) /\ p \in ToSet(list[c])
      /\ list' = [list EXCEPT ![c] = Spliced(list[c], p)]
  BY DEF ListInv, TypeOK, OnUnsubscribe, Listed
<1>2. /\ routes \in [Pattern -> Seq(Conn)] /\ IsInjective(routes[p]) /\ c \in ToSet(routes[p])
      /\ routes' = [routes EXCEPT ![p] = Spliced(routes[p], c)]
  BY DEF ListInv, TypeOK, RouteInv, OnUnsubscribe, Listed, Unrouted
<1>3. /\ Spliced(list[c], p) \in Seq(Pattern) /\ IsInjective(Spliced(list[c], p))
      /\ ToSet(Spliced(list[c], p)) = ToSet(list[c]) \ {p}
  BY <1>1, SplicedOnce
<1>4. /\ Spliced(routes[p], c) \in Seq(Conn) /\ IsInjective(Spliced(routes[p], c))
      /\ ToSet(Spliced(routes[p], c)) = ToSet(routes[p]) \ {c}
  BY <1>2, SplicedOnce
<1>5. list'[c] = Spliced(list[c], p) /\ routes'[p] = Spliced(routes[p], c)
  BY <1>1, <1>2
<1> QED
  BY <1>1, <1>2, <1>3, <1>4, <1>5

\* The longest pattern and the shortcut for "all messages" after a change.
LEMMA SubscribedLongest ==
  ASSUME ListInv, NEW c \in Conn, NEW p \in Pattern, OnSubscribe(c, p)
  PROVE  /\ longest' \in [Conn -> Nat \cup {-1}] /\ null' \in [Conn -> BOOLEAN]
         /\ \A d \in Conn \ {c} : longest'[d] = longest[d] /\ (null'[d] <=> null[d])
         /\ \A i \in DOMAIN list'[c] : Len(list'[c][i]) <= longest'[c]
         /\ null'[c] => <<>> \in ToSet(list'[c])
<1>1. Len(p) \in Nat /\ (Len(p) = 0 => p = <<>>)
  BY BytesAssumption
<1>2. longest \in [Conn -> Nat \cup {-1}] /\ null \in [Conn -> BOOLEAN]
  BY DEF ListInv, TypeOK
<1>3. /\ longest' = [longest EXCEPT ![c] = Longer(c, p)]
      /\ null' = [null EXCEPT ![c] = @ \/ Len(p) = 0]
  BY DEF OnSubscribe
<1>4. Longer(c, p) \in Nat /\ Len(p) <= Longer(c, p) /\ longest[c] <= Longer(c, p)
  BY <1>1, <1>2 DEF Longer
<1>5. null' \in [Conn -> BOOLEAN] /\ \A d \in Conn \ {c} : null'[d] <=> null[d]
  BY <1>2, <1>3, Zenon
<1>6. null'[c] <=> null[c] \/ Len(p) = 0
  BY <1>2, <1>3, Zenon
<1>7. list'[c] \in Seq(Pattern) /\ ToSet(list'[c]) = ToSet(list[c]) \cup {p}
  BY SubscribedLists
<1>8. ASSUME NEW i \in DOMAIN list'[c] PROVE Len(list'[c][i]) <= longest'[c]
  <2>1. list'[c][i] \in ToSet(list[c]) \cup {p}
    BY <1>7 DEF ToSet
  <2>2. CASE list'[c][i] = p
    BY <1>2, <1>3, <1>4, <2>2
  <2>3. CASE list'[c][i] \in ToSet(list[c])
    <3>1. PICK j \in DOMAIN list[c] : list[c][j] = list'[c][i]
      BY <2>3 DEF ToSet
    <3>2. Len(list[c][j]) <= longest[c] /\ Len(list[c][j]) \in Nat
      BY BytesAssumption DEF ListInv, LongestCovers, TypeOK
    <3> QED
      BY <1>2, <1>3, <1>4, <3>1, <3>2
  <2> QED
    BY <2>1, <2>2, <2>3
<1>9. null[c] => <<>> \in ToSet(list[c])
  BY DEF ListInv, LongestCovers
<1>10. null'[c] => <<>> \in ToSet(list'[c])
  BY <1>1, <1>6, <1>7, <1>9
<1> QED
  BY <1>2, <1>3, <1>4, <1>5, <1>8, <1>10

LEMMA UnsubscribedLongest ==
  ASSUME ListInv, NEW c \in Conn, NEW p \in Pattern, OnUnsubscribe(c, p)
  PROVE  /\ longest' \in [Conn -> Nat \cup {-1}] /\ null' \in [Conn -> BOOLEAN]
         /\ \A d \in Conn \ {c} : longest'[d] = longest[d] /\ (null'[d] <=> null[d])
         /\ \A i \in DOMAIN list'[c] : Len(list'[c][i]) <= longest'[c]
         /\ null'[c] => <<>> \in ToSet(list'[c])
<1>1. PICK rest : rest = Spliced(list[c], p)
  OBVIOUS
<1>2. PICK recalc \in BOOLEAN : recalc <=> Len(p) = longest[c] /\ variants[c] = "true"
  OBVIOUS
<1>3. PICK length : length = IF recalc /\ rest # <<>> THEN Len(rest[1]) ELSE Len(p)
  OBVIOUS
<1>4. longest' = [longest EXCEPT ![c] = IF recalc THEN MaxLen(rest) ELSE @]
  BY <1>1, <1>2 DEF OnUnsubscribe
<1>5. null' = [null EXCEPT ![c] = @ /\ length # 0]
  BY <1>1, <1>2, <1>3 DEF OnUnsubscribe
<1>6. list'[c] = rest /\ rest \in Seq(Pattern) /\ ToSet(rest) = ToSet(list[c]) \ {p}
  <2>1. list'[c] = Spliced(list[c], p) /\ list' \in [Conn -> Seq(Pattern)]
        /\ ToSet(list'[c]) = ToSet(list[c]) \ {p}
    BY UnsubscribedLists
  <2>2. list'[c] \in Seq(Pattern)
    BY <2>1
  <2> QED
    BY <1>1, <2>1, <2>2
<1>7. longest \in [Conn -> Nat \cup {-1}] /\ null \in [Conn -> BOOLEAN]
  BY DEF ListInv, TypeOK
<1>8. p \in ToSet(list[c])
  BY DEF OnUnsubscribe, Listed
<1>9. \A q \in ToSet(list[c]) : Len(q) \in Nat /\ Len(q) <= longest[c] /\ (Len(q) = 0 => q = <<>>)
  <2>1. list[c] \in Seq(Pattern) /\ \A i \in DOMAIN list[c] : Len(list[c][i]) <= longest[c]
    BY DEF ListInv, LongestCovers, TypeOK
  <2> QED
    BY <2>1, BytesAssumption DEF ToSet
<1>10. longest[c] \in Nat
  BY <1>7, <1>8, <1>9
<1>11. \A i \in DOMAIN rest : rest[i] \in ToSet(list[c]) /\ rest[i] \in ToSet(rest)
  BY <1>6 DEF ToSet
<1>12. MaxLen(rest) \in Nat \cup {-1} /\ \A i \in DOMAIN rest : Len(rest[i]) <= MaxLen(rest)
  BY <1>6, <1>9, <1>10, <1>11, MaxLenGreatest
<1>13. longest' \in [Conn -> Nat \cup {-1}] /\ \A d \in Conn \ {c} : longest'[d] = longest[d]
  BY <1>4, <1>7, <1>12
<1>14. ASSUME NEW i \in DOMAIN rest PROVE Len(rest[i]) <= longest'[c]
  <2>1. CASE recalc
    BY <1>4, <1>7, <1>12, <2>1
  <2>2. CASE ~recalc
    BY <1>4, <1>7, <1>9, <1>11, <2>2
  <2> QED
    BY <2>1, <2>2
<1>15. null' \in [Conn -> BOOLEAN] /\ (\A d \in Conn \ {c} : null'[d] <=> null[d])
       /\ (null'[c] <=> null[c] /\ length # 0)
  BY <1>5, <1>7, Zenon
<1>16. ASSUME null'[c] PROVE <<>> \in ToSet(rest)
  <2>1. <<>> \in ToSet(list[c])
    BY <1>15, <1>16 DEF ListInv, LongestCovers
  <2>2. CASE p # <<>>
    BY <1>6, <2>1, <2>2
  <2>3. CASE p = <<>>
    <3>1. length # 0 /\ Len(p) = 0
      BY <1>15, <1>16, <2>3
    <3>2. recalc /\ rest # <<>> /\ Len(rest[1]) # 0
      BY <1>3, <3>1
    <3>3. 1 \in DOMAIN rest
      BY <1>6, <3>2
    <3>4. Len(rest[1]) \in Nat /\ Len(rest[1]) <= longest[c]
      BY <1>9, <1>11, <3>3
    <3>5. longest[c] = 0
      BY <1>2, <3>1, <3>2
    <3> QED
      BY <3>2, <3>4, <3>5
  <2> QED
    BY <2>2, <2>3
<1> QED
  BY <1>6, <1>13, <1>14, <1>15, <1>16

LEMMA ProcessTyped ==
  ASSUME ListInv, NEW c \in Conn, Process(c)
  PROVE  TypeOK'
<1>1. ASSUME NEW x \in Source, OnExclude(c, x) \/ OnInclude(c, x) PROVE TypeOK'
  <2>1. PICK op : Takes(c, op, x)
    BY <1>1 DEF OnExclude, OnInclude
  <2>2. /\ wire' \in [Conn -> Seq(Opt)]
        /\ UNCHANGED <<subs, excl, calls, subEnd, keys, exkeys, pubEnd, conns>>
    BY <2>1, TakesTyped DEF ListInv
  <2>3. pubExcl' \in [Conn -> SUBSET {Ascii[z] : z \in Source}] /\ UNCHANGED <<list, longest, variants, null, routes>>
    <3>1. pubExcl \in [Conn -> SUBSET {Ascii[z] : z \in Source}]
      BY DEF ListInv, TypeOK
    <3> QED
      BY <1>1, <3>1 DEF OnExclude, OnInclude
  <2> QED
    BY <2>2, <2>3 DEF ListInv, TypeOK, Opt
<1>2. ASSUME NEW p \in Pattern, NEW op \in {"subscribe", "unsubscribe"}, OnIgnored(c, op, p)
      PROVE  TypeOK'
  <2>1. /\ wire' \in [Conn -> Seq(Opt)]
        /\ UNCHANGED <<subs, excl, calls, subEnd, keys, exkeys, pubEnd, conns>>
    BY <1>2, TakesTyped DEF ListInv, OnIgnored
  <2>2. UNCHANGED <<pubSock, routes>>
    BY <1>2 DEF OnIgnored
  <2> QED
    BY <2>1, <2>2 DEF ListInv, TypeOK, Opt, pubSock
<1>3. ASSUME NEW p \in Pattern, OnSubscribe(c, p) PROVE TypeOK'
  <2>1. /\ wire' \in [Conn -> Seq(Opt)]
        /\ UNCHANGED <<subs, excl, calls, subEnd, keys, exkeys, pubEnd, conns>>
    BY <1>3, TakesTyped DEF ListInv, OnSubscribe
  <2>2. variants' \in [Conn -> {"null", "false", "true"}] /\ UNCHANGED pubExcl
    BY <1>3 DEF ListInv, TypeOK, OnSubscribe
  <2>3. list' \in [Conn -> Seq(Pattern)] /\ \A d \in Conn : IsInjective(list'[d])
    BY <1>3, SubscribedLists DEF ListInv, TypeOK
  <2>4. routes' \in [Pattern -> Seq(Conn)]
    BY <1>3, SubscribedLists
  <2>5. longest' \in [Conn -> Nat \cup {-1}] /\ null' \in [Conn -> BOOLEAN]
    BY <1>3, SubscribedLongest
  <2> QED
    BY <2>1, <2>2, <2>3, <2>4, <2>5 DEF ListInv, TypeOK, Opt
<1>4. ASSUME NEW p \in Pattern, OnUnsubscribe(c, p) PROVE TypeOK'
  <2>1. /\ wire' \in [Conn -> Seq(Opt)]
        /\ UNCHANGED <<subs, excl, calls, subEnd, keys, exkeys, pubEnd, conns>>
    BY <1>4, TakesTyped DEF ListInv, OnUnsubscribe
  <2>2. variants' \in [Conn -> {"null", "false", "true"}] /\ UNCHANGED pubExcl
    BY <1>4 DEF ListInv, TypeOK, OnUnsubscribe
  <2>3. list' \in [Conn -> Seq(Pattern)] /\ \A d \in Conn : IsInjective(list'[d])
    BY <1>4, UnsubscribedLists DEF ListInv, TypeOK
  <2>4. routes' \in [Pattern -> Seq(Conn)]
    BY <1>4, UnsubscribedLists
  <2>5. longest' \in [Conn -> Nat \cup {-1}] /\ null' \in [Conn -> BOOLEAN]
    BY <1>4, UnsubscribedLongest
  <2> QED
    BY <2>1, <2>2, <2>3, <2>4, <2>5 DEF ListInv, TypeOK, Opt
<1> QED
  BY <1>1, <1>2, <1>3, <1>4 DEF Process

-----------------------------------------------------------------------------
\* A step that takes no pattern leaves the lists and the routing table alone.
LEMMA ListsKept ==
  ASSUME [Next]_vars
  PROVE  \/ \E d \in Conn, p \in Pattern : OnSubscribe(d, p) \/ OnUnsubscribe(d, p)
         \/ UNCHANGED <<list, longest, null, routes>>
<1> USE DEF pubSock
<1>1. ASSUME NEW a \in Sub, Call(a) PROVE UNCHANGED <<list, longest, null, routes>>
  BY <1>1 DEF Call, Subscribe, Unsubscribe, Exclude, Include
<1>2. ASSUME NEW d \in Conn,
             Connect(d) \/ OnConnect(d) \/ SubClose(d) \/ Accept(d) \/ PubDestroy(d) \/ PubGone(d)
      PROVE  UNCHANGED <<list, longest, null, routes>>
  BY <1>2 DEF Connect, OnConnect, SubClose, Accept, PubDestroy, PubGone
<1>3. ASSUME NEW d \in Conn, Process(d),
             ~ \E p \in Pattern : OnSubscribe(d, p) \/ OnUnsubscribe(d, p)
      PROVE  UNCHANGED <<list, longest, null, routes>>
  BY <1>3 DEF Process, OnIgnored, OnExclude, OnInclude
<1> QED
  BY <1>1, <1>2, <1>3 DEF Next, vars

LEMMA RouteStep ==
  ASSUME ListInv, [Next]_vars
  PROVE  RouteInv'
<1>1. ASSUME NEW c \in Conn, NEW p \in Pattern, OnSubscribe(c, p) PROVE RouteInv'
  <2>1. \A q \in Pattern : IsInjective(routes'[q])
    BY <1>1, SubscribedLists DEF ListInv, RouteInv
  <2>2. ASSUME NEW q \in Pattern, NEW d \in Conn
        PROVE  d \in ToSet(routes'[q]) <=> q \in ToSet(list'[d])
    <3>1. d \in ToSet(routes[q]) <=> q \in ToSet(list[d])
      BY DEF ListInv, RouteInv, Listed
    <3>2. d \in ToSet(routes'[q]) <=> d \in ToSet(routes[q]) \/ (q = p /\ d = c)
      <4>1. CASE q = p
        <5>1. ToSet(routes'[p]) = ToSet(routes[p]) \cup {c}
          BY <1>1, SubscribedLists
        <5> QED
          BY <4>1, <5>1
      <4>2. CASE q # p
        BY <1>1, <4>2, SubscribedLists
      <4> QED
        BY <4>1, <4>2
    <3>3. q \in ToSet(list'[d]) <=> q \in ToSet(list[d]) \/ (q = p /\ d = c)
      <4>1. CASE d = c
        <5>1. ToSet(list'[c]) = ToSet(list[c]) \cup {p}
          BY <1>1, SubscribedLists
        <5> QED
          BY <4>1, <5>1
      <4>2. CASE d # c
        <5>1. list'[d] = list[d]
          BY <1>1, <4>2, SubscribedLists
        <5> QED
          BY <4>2, <5>1
      <4> QED
        BY <4>1, <4>2
    <3> QED
      BY <3>1, <3>2, <3>3
  <2> QED
    BY <2>1, <2>2 DEF RouteInv, Listed
<1>2. ASSUME NEW c \in Conn, NEW p \in Pattern, OnUnsubscribe(c, p) PROVE RouteInv'
  <2>1. /\ \A d \in Conn \ {c} : list'[d] = list[d]
        /\ \A q \in Pattern \ {p} : routes'[q] = routes[q]
        /\ ToSet(list'[c]) = ToSet(list[c]) \ {p}
        /\ ToSet(routes'[p]) = ToSet(routes[p]) \ {c} /\ IsInjective(routes'[p])
    BY <1>2, UnsubscribedLists
  <2>2. ASSUME NEW q \in Pattern PROVE IsInjective(routes'[q])
    <3>1. CASE q = p
      BY <2>1, <3>1
    <3>2. CASE q # p
      BY <2>1, <3>2 DEF ListInv, RouteInv
    <3> QED
      BY <3>1, <3>2
  <2>3. ASSUME NEW q \in Pattern, NEW d \in Conn
        PROVE  d \in ToSet(routes'[q]) <=> q \in ToSet(list'[d])
    <3>1. d \in ToSet(routes[q]) <=> q \in ToSet(list[d])
      BY DEF ListInv, RouteInv, Listed
    <3>2. d \in ToSet(routes'[q]) <=> d \in ToSet(routes[q]) /\ ~(q = p /\ d = c)
      <4>1. CASE q = p
        BY <2>1, <4>1
      <4>2. CASE q # p
        BY <2>1, <4>2
      <4> QED
        BY <4>1, <4>2
    <3>3. q \in ToSet(list'[d]) <=> q \in ToSet(list[d]) /\ ~(q = p /\ d = c)
      <4>1. CASE d = c
        BY <2>1, <4>1
      <4>2. CASE d # c
        BY <2>1, <4>2
      <4> QED
        BY <4>1, <4>2
    <3> QED
      BY <3>1, <3>2, <3>3
  <2> QED
    BY <2>2, <2>3 DEF RouteInv, Listed
<1>3. CASE UNCHANGED <<list, longest, null, routes>>
  BY <1>3 DEF ListInv, RouteInv, Listed
<1> QED
  BY <1>1, <1>2, <1>3, ListsKept

LEMMA LongestStep ==
  ASSUME ListInv, [Next]_vars
  PROVE  LongestCovers'
<1>1. ASSUME NEW c \in Conn, NEW p \in Pattern, OnSubscribe(c, p) PROVE LongestCovers'
  <2>1. \A d \in Conn \ {c} : list'[d] = list[d]
    BY <1>1, SubscribedLists
  <2>2. \A d \in Conn \ {c} : longest'[d] = longest[d] /\ (null'[d] <=> null[d])
    BY <1>1, SubscribedLongest
  <2>3. /\ \A i \in DOMAIN list'[c] : Len(list'[c][i]) <= longest'[c]
        /\ null'[c] => <<>> \in ToSet(list'[c])
    BY <1>1, SubscribedLongest
  <2> QED
    BY <2>1, <2>2, <2>3 DEF ListInv, LongestCovers
<1>2. ASSUME NEW c \in Conn, NEW p \in Pattern, OnUnsubscribe(c, p) PROVE LongestCovers'
  <2>1. \A d \in Conn \ {c} : list'[d] = list[d]
    BY <1>2, UnsubscribedLists
  <2>2. \A d \in Conn \ {c} : longest'[d] = longest[d] /\ (null'[d] <=> null[d])
    BY <1>2, UnsubscribedLongest
  <2>3. /\ \A i \in DOMAIN list'[c] : Len(list'[c][i]) <= longest'[c]
        /\ null'[c] => <<>> \in ToSet(list'[c])
    BY <1>2, UnsubscribedLongest
  <2> QED
    BY <2>1, <2>2, <2>3 DEF ListInv, LongestCovers
<1>3. CASE UNCHANGED <<list, longest, null, routes>>
  BY <1>3 DEF ListInv, LongestCovers
<1> QED
  BY <1>1, <1>2, <1>3, ListsKept

LEMMA ConnsStep ==
  ASSUME ListInv, [Next]_vars
  PROVE  ConnsInv'
<1> USE DEF ConnsInv
<1>1. ASSUME NEW c \in Conn, Accept(c) PROVE ConnsInv'
  <2>1. conns \in Seq(Conn) /\ IsInjective(conns) /\ c \notin ToSet(conns)
    BY <1>1 DEF ListInv, TypeOK, Accept
  <2>2. ToSet(Append(conns, c)) = ToSet(conns) \cup {c} /\ IsInjective(Append(conns, c))
    BY <2>1, AppendOnce
  <2>3. conns' = Append(conns, c) /\ pubEnd' = [pubEnd EXCEPT ![c] = "open"]
    BY <1>1 DEF Accept
  <2> QED
    BY <2>2, <2>3 DEF ListInv, TypeOK
<1>2. ASSUME NEW c \in Conn, PubGone(c) PROVE ConnsInv'
  <2>1. conns \in Seq(Conn) /\ IsInjective(conns) /\ c \in ToSet(conns)
    BY <1>2 DEF ListInv, TypeOK, PubGone
  <2>2. ToSet(Spliced(conns, c)) = ToSet(conns) \ {c} /\ IsInjective(Spliced(conns, c))
    BY <2>1, SplicedOnce
  <2>3. conns' = Spliced(conns, c) /\ pubEnd' = [pubEnd EXCEPT ![c] = "closed"]
    BY <1>2 DEF PubGone
  <2> QED
    BY <2>2, <2>3 DEF ListInv, TypeOK
<1>3. ASSUME NEW c \in Conn, PubDestroy(c) PROVE ConnsInv'
  BY <1>3 DEF ListInv, TypeOK, PubDestroy
<1>4. CASE UNCHANGED <<conns, pubEnd>>
  BY <1>4 DEF ListInv
<1>5. ASSUME NEW a \in Sub, Call(a) PROVE UNCHANGED <<conns, pubEnd>>
  BY <1>5 DEF Call, Subscribe, Unsubscribe, Exclude, Include
<1>6. ASSUME NEW c \in Conn, Process(c) PROVE UNCHANGED <<conns, pubEnd>>
  <2>1. PICK op, arg : Takes(c, op, arg)
    BY <1>6 DEF Process, OnSubscribe, OnUnsubscribe, OnIgnored, OnExclude, OnInclude
  <2> QED
    BY <2>1 DEF Takes
<1>7. ASSUME NEW c \in Conn, Connect(c) \/ OnConnect(c) \/ SubClose(c)
      PROVE  UNCHANGED <<conns, pubEnd>>
  BY <1>7 DEF Connect, OnConnect, SubClose
<1> QED
  BY <1>1, <1>2, <1>3, <1>4, <1>5, <1>6, <1>7 DEF Next, vars

LEMMA FiniteStep ==
  ASSUME ListInv, [Next]_vars
  PROVE  FiniteInv'
<1>1. ASSUME NEW a \in Sub, NEW x \in Source, Exclude(a, x) PROVE FiniteInv'
  <2>1. IsFiniteSet(excl[a] \cup {x})
    BY FS_AddElement DEF ListInv, FiniteInv
  <2>2. excl' = [excl EXCEPT ![a] = @ \cup {x}] /\ excl \in [Sub -> SUBSET Source]
    BY <1>1 DEF ListInv, TypeOK, Exclude
  <2> QED
    BY <2>1, <2>2 DEF ListInv, FiniteInv
<1>2. ASSUME NEW a \in Sub, NEW x \in Source, Include(a, x) PROVE FiniteInv'
  <2>1. IsFiniteSet(excl[a] \ {x})
    BY FS_RemoveElement DEF ListInv, FiniteInv
  <2>2. excl' = [excl EXCEPT ![a] = @ \ {x}] /\ excl \in [Sub -> SUBSET Source]
    BY <1>2 DEF ListInv, TypeOK, Include
  <2> QED
    BY <2>1, <2>2 DEF ListInv, FiniteInv
<1>3. CASE UNCHANGED excl
  BY <1>3 DEF ListInv, FiniteInv
<1>4. ASSUME NEW a \in Sub, Call(a), ~ \E x \in Source : Exclude(a, x) \/ Include(a, x)
      PROVE  UNCHANGED excl
  BY <1>4 DEF Call, Subscribe, Unsubscribe
<1>5. ASSUME NEW c \in Conn, Process(c) PROVE UNCHANGED excl
  <2>1. PICK op, arg : Takes(c, op, arg)
    BY <1>5 DEF Process, OnSubscribe, OnUnsubscribe, OnIgnored, OnExclude, OnInclude
  <2> QED
    BY <2>1 DEF Takes, subChan
<1>6. ASSUME NEW c \in Conn,
             Connect(c) \/ OnConnect(c) \/ SubClose(c) \/ Accept(c) \/ PubDestroy(c) \/ PubGone(c)
      PROVE  UNCHANGED excl
  BY <1>6 DEF Connect, OnConnect, SubClose, Accept, PubDestroy, PubGone, subChan
<1> QED
  BY <1>1, <1>2, <1>3, <1>4, <1>5, <1>6 DEF Next, vars, subChan

LEMMA ListInit ==
  ASSUME Init
  PROVE  ListInv
<1> USE DEF Init, SubChannel, SubSocket, PubSocket, PubChannel
<1>1. IsInjective(<<>>) /\ ToSet(<<>>) = {} /\ DOMAIN <<>> = {}
  BY DEF IsInjective, ToSet
<1>2. TypeOK
  BY <1>1 DEF TypeOK
<1>3. ConnsInv
  BY <1>1 DEF ConnsInv
<1>4. RouteInv
  BY <1>1 DEF RouteInv, Listed
<1>5. FiniteInv
  BY FS_EmptySet DEF FiniteInv
<1>6. LongestCovers
  BY <1>1 DEF LongestCovers
<1> QED
  BY <1>2, <1>3, <1>4, <1>5, <1>6 DEF ListInv

LEMMA ListStep ==
  ASSUME ListInv, [Next]_vars
  PROVE  ListInv'
<1>1. TypeOK'
  <2>1. ASSUME NEW a \in Sub, Call(a) PROVE TypeOK'
    BY <2>1, CallTyped DEF ListInv
  <2>2. ASSUME NEW c \in Conn, Process(c) PROVE TypeOK'
    BY <2>2, ProcessTyped
  <2>3. ASSUME NEW c \in Conn,
               Connect(c) \/ OnConnect(c) \/ SubClose(c) \/ Accept(c) \/ PubDestroy(c) \/ PubGone(c)
        PROVE  TypeOK'
    BY <2>3, ConnTyped
  <2>4. CASE UNCHANGED vars
    BY <2>4 DEF ListInv, TypeOK, vars, subChan, subSock, pubSock
  <2> QED
    BY <2>1, <2>2, <2>3, <2>4 DEF Next
<1> QED
  BY <1>1, ConnsStep, RouteStep, FiniteStep, LongestStep DEF ListInv

LEMMA ListHolds == Spec => []ListInv
<1>1. Init => ListInv
  BY ListInit
<1>2. ListInv /\ [Next]_vars => ListInv'
  BY ListStep
<1> QED
  BY <1>1, <1>2, PTL DEF Spec

\* Every variable has its type, and no socket of the pub channel lists a pattern
\* twice: every splice of a handler of lib/pub.js finds the entry it takes out.
THEOREM TypeCorrect == Spec => []TypeOK
<1>1. ListInv => TypeOK
  BY DEF ListInv
<1> QED
  BY <1>1, ListHolds, PTL

\* The routing table of the channel and the pattern lists of its sockets agree,
\* so that the assertions of onsubscribe and onunsubscribe (lib/pub.js) hold.
THEOREM RoutesAgreeCorrect == Spec => []RoutesAgree
<1>1. ASSUME ListInv, NEW c \in Conn, NEW p \in Pattern
      PROVE  Times(c, routes[p]) = (IF Listed(c, p) THEN 1 ELSE 0)
  <2> DEFINE T == {i \in DOMAIN routes[p] : routes[p][i] = c}
  <2>1. IsInjective(routes[p]) /\ (c \in ToSet(routes[p]) <=> Listed(c, p))
    BY <1>1 DEF ListInv, RouteInv
  <2>2. CASE Listed(c, p)
    <3>1. PICK i \in DOMAIN routes[p] : routes[p][i] = c
      BY <2>1, <2>2 DEF ToSet
    <3>2. T = {i}
      BY <2>1, <3>1 DEF IsInjective
    <3>3. Cardinality(T) = 1
      BY <3>2, FS_Singleton
    <3> QED
      BY <2>2, <3>3 DEF Times
  <2>3. CASE ~Listed(c, p)
    <3>1. T = {}
      BY <2>1, <2>3 DEF ToSet
    <3>2. Cardinality(T) = 0
      BY <3>1, FS_EmptySet
    <3> QED
      BY <2>3, <3>2 DEF Times
  <2> QED
    BY <2>2, <2>3
<1>2. ListInv => RoutesAgree
  BY <1>1 DEF RoutesAgree
<1> QED
  BY <1>2, ListHolds, PTL

\* The length rawPatternFilter cuts a message to covers every pattern of the
\* socket, and the shortcut for "all messages" is taken only for a socket that
\* asked for all, through every recalculation of onunsubscribe.
THEOREM LongestCoversCorrect == Spec => []LongestCovers
<1>1. ListInv => LongestCovers
  BY DEF ListInv
<1> QED
  BY <1>1, ListHolds, PTL

-----------------------------------------------------------------------------
\* What is under way: the lemmas about Replays, for any sequence of options.
LEMMA ReplaysAppend ==
  ASSUME NEW S, NEW w \in Seq(S), NEW m, NEW x, NEW filed, NEW filed2, NEW known,
         Replays(w, x, filed, known),
         \/ ~About(m, x) /\ (x \in filed2 <=> x \in filed)
         \/ About(m, x) /\ (m.op = "exclude" <=> x \in filed2)
  PROVE  Replays(Append(w, m), x, filed2, known)
<1> DEFINE u == Append(w, m)
<1>1. /\ DOMAIN w = 1 .. Len(w) /\ Len(w) \in Nat /\ DOMAIN u = 1 .. Len(w) + 1
      /\ \A i \in 1 .. Len(w) : u[i] = w[i] /\ i \in 1 .. Len(w) + 1 /\ Len(w) + 1 > i
      /\ u[Len(w) + 1] = m /\ Len(w) + 1 \in 1 .. Len(w) + 1
      /\ \A i \in 1 .. Len(w) + 1 : i \in 1 .. Len(w) \/ i = Len(w) + 1
  OBVIOUS
<1> HIDE DEF u
<1>2. ASSUME NEW i \in DOMAIN u, LastAbout(u, x, i)
      PROVE  u[i].op = "exclude" <=> x \in filed2
  <2>1. CASE About(m, x)
    <3>1. i = Len(w) + 1
      BY <1>1, <1>2, <2>1 DEF LastAbout
    <3> QED
      BY <1>1, <2>1, <3>1
  <2>2. CASE ~About(m, x)
    <3>1. i \in 1 .. Len(w) /\ u[i] = w[i]
      BY <1>1, <1>2, <2>2 DEF LastAbout
    <3>2. LastAbout(w, x, i)
      BY <1>1, <1>2, <3>1 DEF LastAbout
    <3> QED
      BY <1>1, <2>2, <3>1, <3>2 DEF Replays
  <2> QED
    BY <2>1, <2>2
<1>3. ASSUME \A i \in DOMAIN u : ~About(u[i], x) PROVE x \in known <=> x \in filed2
  <2>1. ~About(m, x) /\ \A i \in DOMAIN w : ~About(w[i], x)
    BY <1>1, <1>3
  <2> QED
    BY <2>1 DEF Replays
<1> QED
  BY <1>2, <1>3 DEF Replays, u

LEMMA ReplaysTail ==
  ASSUME NEW S, NEW w \in Seq(S), w # <<>>, NEW x, NEW filed, NEW known, NEW known2,
         Replays(w, x, filed, known),
         \/ ~About(Head(w), x) /\ (x \in known2 <=> x \in known)
         \/ About(Head(w), x) /\ (Head(w).op = "exclude" <=> x \in known2)
  PROVE  Replays(Tail(w), x, filed, known2)
<1> DEFINE u == Tail(w)
<1>1. /\ DOMAIN w = 1 .. Len(w) /\ Len(w) \in Nat \ {0} /\ DOMAIN u = 1 .. Len(w) - 1
      /\ \A i \in 1 .. Len(w) - 1 : u[i] = w[i + 1] /\ i + 1 \in 1 .. Len(w)
      /\ \A i \in 1 .. Len(w) : i = 1 \/ (i - 1 \in 1 .. Len(w) - 1 /\ (i - 1) + 1 = i)
      /\ Head(w) = w[1] /\ 1 \in 1 .. Len(w)
  OBVIOUS
<1>2. \A i \in 1 .. Len(w) - 1, j \in 1 .. Len(w) : j > i + 1 => j - 1 > i /\ j # 1
  BY <1>1
<1> HIDE DEF u
<1>3. \A j \in 1 .. Len(w) : j = 1 \/ (j - 1 \in DOMAIN u /\ w[j] = u[j - 1])
  BY <1>1
<1>4. ASSUME NEW i \in DOMAIN u, LastAbout(u, x, i)
      PROVE  u[i].op = "exclude" <=> x \in filed
  <2>1. i + 1 \in DOMAIN w /\ w[i + 1] = u[i] /\ About(w[i + 1], x)
    BY <1>1, <1>4 DEF LastAbout
  <2>2. ASSUME NEW j \in DOMAIN w, j > i + 1 PROVE ~About(w[j], x)
    BY <1>1, <1>2, <1>3, <1>4, <2>2 DEF LastAbout
  <2>3. LastAbout(w, x, i + 1)
    BY <2>1, <2>2 DEF LastAbout
  <2> QED
    BY <2>1, <2>3 DEF Replays
<1>5. ASSUME \A i \in DOMAIN u : ~About(u[i], x) PROVE x \in known2 <=> x \in filed
  <2>1. CASE About(Head(w), x)
    <3>1. LastAbout(w, x, 1)
      BY <1>1, <1>3, <1>5, <2>1 DEF LastAbout
    <3>2. w[1].op = "exclude" <=> x \in filed
      BY <1>1, <3>1 DEF Replays
    <3> QED
      BY <1>1, <2>1, <3>2
  <2>2. CASE ~About(Head(w), x)
    <3>1. \A i \in DOMAIN w : ~About(w[i], x)
      BY <1>1, <1>3, <1>5, <2>2
    <3> QED
      BY <2>2, <3>1 DEF Replays
  <2> QED
    BY <2>1, <2>2
<1> QED
  BY <1>4, <1>5 DEF Replays, u

\* Exclusions sent in a row, each of which is filed.
LEMMA ReplaysConcat ==
  ASSUME NEW S, NEW w \in Seq(S), NEW r \in Seq(S), NEW x,
         NEW filed, NEW filed2, NEW known,
         Replays(w, x, filed, known),
         \A i \in DOMAIN r : About(r[i], x) => r[i].op = "exclude" /\ x \in filed2,
         (\A i \in DOMAIN r : ~About(r[i], x)) => (x \in filed2 <=> x \in filed)
  PROVE  Replays(w \o r, x, filed2, known)
<1> DEFINE u == w \o r
<1>1. /\ Len(w) \in Nat /\ Len(r) \in Nat /\ DOMAIN w = 1 .. Len(w) /\ DOMAIN r = 1 .. Len(r)
      /\ DOMAIN u = 1 .. Len(w) + Len(r)
      /\ \A i \in 1 .. Len(w) : u[i] = w[i]
      /\ \A i \in 1 .. Len(r) : u[Len(w) + i] = r[i]
  BY ConcatAt
<1> HIDE DEF u
<1>2. \A i \in 1 .. Len(w) : i \in DOMAIN u
  BY <1>1
<1>3. \A i \in 1 .. Len(r) : Len(w) + i \in DOMAIN u /\ \A j \in 1 .. Len(w) : Len(w) + i > j
  BY <1>1
<1>4. \A i \in DOMAIN u : i \in 1 .. Len(w) \/ \E j \in 1 .. Len(r) : i = Len(w) + j
  <2>1. ASSUME NEW i \in DOMAIN u, i \notin 1 .. Len(w)
        PROVE  \E j \in 1 .. Len(r) : i = Len(w) + j
    <3>1. i - Len(w) \in 1 .. Len(r) /\ i = Len(w) + (i - Len(w))
      BY <1>1, <2>1
    <3> QED
      BY <3>1
  <2> QED
    BY <2>1
<1>5. ASSUME NEW i \in DOMAIN u, LastAbout(u, x, i)
      PROVE  u[i].op = "exclude" <=> x \in filed2
  <2>1. CASE i \in 1 .. Len(w)
    <3>1. \A j \in DOMAIN r : ~About(r[j], x)
      BY <1>1, <1>3, <1>5, <2>1 DEF LastAbout
    <3>2. LastAbout(w, x, i)
      BY <1>1, <1>2, <1>5, <2>1 DEF LastAbout
    <3> QED
      BY <1>1, <2>1, <3>1, <3>2 DEF Replays
  <2>2. CASE i \notin 1 .. Len(w)
    <3>1. PICK j \in 1 .. Len(r) : i = Len(w) + j
      BY <1>4, <2>2
    <3>2. About(r[j], x)
      BY <1>1, <1>5, <3>1 DEF LastAbout
    <3> QED
      BY <1>1, <3>1, <3>2
  <2> QED
    BY <2>1, <2>2
<1>6. ASSUME \A i \in DOMAIN u : ~About(u[i], x) PROVE x \in known <=> x \in filed2
  <2>1. \A i \in DOMAIN w : ~About(w[i], x)
    BY <1>1, <1>2, <1>6
  <2>2. \A i \in DOMAIN r : ~About(r[i], x)
    BY <1>1, <1>3, <1>6
  <2> QED
    BY <2>1, <2>2 DEF Replays
<1> QED
  BY <1>5, <1>6 DEF Replays, u

-----------------------------------------------------------------------------
\* Calls: what each connection is told and files.
LEMMA PatternCall ==
  ASSUME TypeOK, NEW a \in Sub, NEW p \in Pattern, Subscribe(a, p) \/ Unsubscribe(a, p),
         NEW c \in Conn
  PROVE  /\ \/ wire'[c] = wire[c]
            \/ subEnd[c] # "new" /\ \E m \in Opt : /\ m.op \in {"subscribe", "unsubscribe"}
                                                   /\ wire'[c] = Append(wire[c], m)
         /\ UNCHANGED <<excl, subEnd, exkeys, pubEnd, pubExcl>>
<1>1. UNCHANGED <<excl, subEnd, exkeys, pubEnd, pubExcl>>
  BY DEF Subscribe, Unsubscribe, pubSock
<1>2. PICK who \in SUBSET Socks(a), op \in {"subscribe", "unsubscribe"} : Tell(who, op, p)
  BY DEF Subscribe, Unsubscribe, SockSubscribe, SockUnsubscribe
<1>3. PICK m : m = [op |-> op, arg |-> p]
  OBVIOUS
<1>4. m \in Opt /\ m.op = op
  BY <1>3 DEF Opt
<1>5. wire'[c] = IF c \in who THEN Append(wire[c], m) ELSE wire[c]
  BY <1>2, <1>3 DEF Tell
<1>6. c \in who => subEnd[c] # "new"
  BY <1>2 DEF Socks
<1> QED
  BY <1>1, <1>4, <1>5, <1>6

LEMMA ExcludeCall ==
  ASSUME TypeOK, NEW a \in Sub, NEW x \in Source, Exclude(a, x), NEW c \in Conn
  PROVE  /\ \/ c \in Socks(a) /\ x \notin exkeys[c] /\ \E m \in Opt :
                 m.op = "exclude" /\ m.arg = x /\ wire'[c] = Append(wire[c], m)
            \/ (c \in Socks(a) => x \in exkeys[c]) /\ wire'[c] = wire[c]
         /\ exkeys'[c] = (IF c \in Socks(a) THEN exkeys[c] \cup {x} ELSE exkeys[c])
         /\ excl'[Owner[c]] = (IF Owner[c] = a THEN excl[Owner[c]] \cup {x} ELSE excl[Owner[c]])
         /\ UNCHANGED <<subEnd, pubEnd, pubExcl>>
<1>1. UNCHANGED <<subEnd, pubEnd, pubExcl>> /\ excl' = [excl EXCEPT ![a] = @ \cup {x}]
      /\ SockExclude(Socks(a), x)
  BY DEF Exclude, pubSock
<1>2. PICK m : m = [op |-> "exclude", arg |-> x]
  OBVIOUS
<1>3. m \in Opt /\ m.op = "exclude" /\ m.arg = x
  BY <1>2 DEF Opt
<1>4. wire'[c] = IF c \in Socks(a) /\ x \notin exkeys[c] THEN Append(wire[c], m) ELSE wire[c]
  BY <1>1, <1>2 DEF SockExclude, Tell
<1>5. exkeys'[c] = (IF c \in Socks(a) THEN exkeys[c] \cup {x} ELSE exkeys[c])
  BY <1>1 DEF SockExclude
<1>6. excl'[Owner[c]] = (IF Owner[c] = a THEN excl[Owner[c]] \cup {x} ELSE excl[Owner[c]])
  BY <1>1, OwnerAssumption DEF TypeOK
<1> QED
  BY <1>1, <1>3, <1>4, <1>5, <1>6

LEMMA IncludeCall ==
  ASSUME TypeOK, NEW a \in Sub, NEW x \in Source, Include(a, x), NEW c \in Conn
  PROVE  /\ \/ c \in Socks(a) /\ x \in exkeys[c] /\ \E m \in Opt :
                 m.op = "include" /\ m.arg = x /\ wire'[c] = Append(wire[c], m)
            \/ (c \in Socks(a) => x \notin exkeys[c]) /\ wire'[c] = wire[c]
         /\ exkeys'[c] = (IF c \in Socks(a) THEN exkeys[c] \ {x} ELSE exkeys[c])
         /\ excl'[Owner[c]] = (IF Owner[c] = a THEN excl[Owner[c]] \ {x} ELSE excl[Owner[c]])
         /\ UNCHANGED <<subEnd, pubEnd, pubExcl>>
<1>1. UNCHANGED <<subEnd, pubEnd, pubExcl>> /\ excl' = [excl EXCEPT ![a] = @ \ {x}]
      /\ SockInclude(Socks(a), x)
  BY DEF Include, pubSock
<1>2. PICK m : m = [op |-> "include", arg |-> x]
  OBVIOUS
<1>3. m \in Opt /\ m.op = "include" /\ m.arg = x
  BY <1>2 DEF Opt
<1>4. wire'[c] = IF c \in Socks(a) /\ x \in exkeys[c] THEN Append(wire[c], m) ELSE wire[c]
  BY <1>1, <1>2 DEF SockInclude, Tell
<1>5. exkeys'[c] = (IF c \in Socks(a) THEN exkeys[c] \ {x} ELSE exkeys[c])
  BY <1>1 DEF SockInclude
<1>6. excl'[Owner[c]] = (IF Owner[c] = a THEN excl[Owner[c]] \ {x} ELSE excl[Owner[c]])
  BY <1>1, OwnerAssumption DEF TypeOK
<1> QED
  BY <1>1, <1>3, <1>4, <1>5, <1>6

\* Known depends on the publisher's end alone.
LEMMA KnownSame ==
  ASSUME NEW c \in Conn, pubExcl'[c] = pubExcl[c]
  PROVE  Known(c)' = Known(c)
BY DEF Known

LEMMA CallStep ==
  ASSUME StepInv, NEW a \in Sub, Call(a)
  PROVE  FiledInv' /\ ReplayInv'
<1> USE DEF StepInv, ListInv
<1>1. wire \in [Conn -> Seq(Opt)]
  BY DEF TypeOK, Opt
<1>2. ASSUME NEW p \in Pattern, Subscribe(a, p) \/ Unsubscribe(a, p)
      PROVE  FiledInv' /\ ReplayInv'
  <2>1. FiledInv'
    BY <1>2, PatternCall DEF FiledInv
  <2>2. ASSUME NEW c \in Conn, NEW y \in Source, Alone(y), Live(c)'
        PROVE  Replays(wire'[c], y, exkeys'[c], Known(c)')
    <3>1. UNCHANGED <<excl, subEnd, exkeys, pubEnd, pubExcl>>
      BY <1>2, PatternCall
    <3>2. Replays(wire[c], y, exkeys[c], Known(c))
      BY <2>2, <3>1 DEF Live, ReplayInv
    <3>3. CASE wire'[c] = wire[c]
      BY KnownSame, <3>1, <3>2, <3>3
    <3>4. CASE wire'[c] # wire[c]
      <4>1. PICK m \in Opt : m.op \in {"subscribe", "unsubscribe"} /\ wire'[c] = Append(wire[c], m)
        BY <1>2, <3>4, PatternCall
      <4>2. ~About(m, y)
        BY <4>1 DEF About
      <4> QED
        BY KnownSame, <1>1, <3>1, <3>2, <4>1, <4>2, ReplaysAppend
    <3> QED
      BY <3>3, <3>4
  <2> QED
    BY <2>1, <2>2 DEF ReplayInv
<1>3. ASSUME NEW x \in Source, Exclude(a, x) PROVE FiledInv' /\ ReplayInv'
  <2>1. FiledInv'
    <3>1. ASSUME NEW c \in Conn
          PROVE  /\ UNCHANGED <<subEnd, pubEnd, pubExcl>>
                 /\ exkeys'[c] = (IF c \in Socks(a) THEN exkeys[c] \cup {x} ELSE exkeys[c])
                 /\ excl'[Owner[c]] =
                      (IF Owner[c] = a THEN excl[Owner[c]] \cup {x} ELSE excl[Owner[c]])
                 /\ c \notin Socks(a) => wire'[c] = wire[c]
                 /\ c \in Socks(a) <=> Owner[c] = a /\ subEnd[c] \in {"connecting", "open"}
      BY <1>3, ExcludeCall DEF Socks
    <3>2. ASSUME NEW c \in Conn
          PROVE  /\ subEnd'[c] = "new" =>
                      exkeys'[c] = {} /\ wire'[c] = <<>> /\ pubEnd'[c] = "new"
                 /\ subEnd'[c] = "connecting" => exkeys'[c] \subseteq excl'[Owner[c]]
                 /\ subEnd'[c] = "open" => exkeys'[c] = excl'[Owner[c]]
                 /\ pubEnd'[c] = "new" => pubExcl'[c] = {}
      <4>1. /\ subEnd[c] = "new" => exkeys[c] = {} /\ wire[c] = <<>> /\ pubEnd[c] = "new"
            /\ subEnd[c] = "connecting" => exkeys[c] \subseteq excl[Owner[c]]
            /\ subEnd[c] = "open" => exkeys[c] = excl[Owner[c]]
            /\ pubEnd[c] = "new" => pubExcl[c] = {}
        BY DEF FiledInv
      <4>2. CASE c \in Socks(a)
        BY <3>1, <4>1, <4>2
      <4>3. CASE c \notin Socks(a)
        BY <3>1, <4>1, <4>3
      <4> QED
        BY <4>2, <4>3
    <3> QED
      BY <3>2 DEF FiledInv
  <2>2. ASSUME NEW c \in Conn, NEW y \in Source, Alone(y), Live(c)'
        PROVE  Replays(wire'[c], y, exkeys'[c], Known(c)')
    <3>1. UNCHANGED <<subEnd, pubEnd, pubExcl>>
          /\ exkeys'[c] = (IF c \in Socks(a) THEN exkeys[c] \cup {x} ELSE exkeys[c])
      BY <1>3, ExcludeCall
    <3>2. Replays(wire[c], y, exkeys[c], Known(c))
      BY <2>2, <3>1 DEF Live, ReplayInv
    <3>3. CASE c \in Socks(a) /\ x \notin exkeys[c]
      <4>1. PICK m \in Opt : m.op = "exclude" /\ m.arg = x /\ wire'[c] = Append(wire[c], m)
        BY <1>3, <3>3, ExcludeCall
      <4>2. \/ ~About(m, y) /\ (y \in exkeys'[c] <=> y \in exkeys[c])
            \/ About(m, y) /\ (m.op = "exclude" <=> y \in exkeys'[c])
        BY <3>1, <3>3, <4>1 DEF About
      <4> QED
        BY KnownSame, <1>1, <3>1, <3>2, <4>1, <4>2, ReplaysAppend
    <3>4. CASE c \in Socks(a) => x \in exkeys[c]
      <4>1. wire'[c] = wire[c]
        BY <1>3, <3>4, ExcludeCall
      <4>2. exkeys'[c] = exkeys[c]
        BY <3>1, <3>4
      <4> QED
        BY KnownSame, <3>1, <3>2, <4>1, <4>2
    <3> QED
      BY <3>3, <3>4
  <2> QED
    BY <2>1, <2>2 DEF ReplayInv
<1>4. ASSUME NEW x \in Source, Include(a, x) PROVE FiledInv' /\ ReplayInv'
  <2>1. FiledInv'
    <3>1. ASSUME NEW c \in Conn
          PROVE  /\ UNCHANGED <<subEnd, pubEnd, pubExcl>>
                 /\ exkeys'[c] = (IF c \in Socks(a) THEN exkeys[c] \ {x} ELSE exkeys[c])
                 /\ excl'[Owner[c]] =
                      (IF Owner[c] = a THEN excl[Owner[c]] \ {x} ELSE excl[Owner[c]])
                 /\ c \notin Socks(a) => wire'[c] = wire[c]
                 /\ c \in Socks(a) <=> Owner[c] = a /\ subEnd[c] \in {"connecting", "open"}
      BY <1>4, IncludeCall DEF Socks
    <3>2. ASSUME NEW c \in Conn
          PROVE  /\ subEnd'[c] = "new" =>
                      exkeys'[c] = {} /\ wire'[c] = <<>> /\ pubEnd'[c] = "new"
                 /\ subEnd'[c] = "connecting" => exkeys'[c] \subseteq excl'[Owner[c]]
                 /\ subEnd'[c] = "open" => exkeys'[c] = excl'[Owner[c]]
                 /\ pubEnd'[c] = "new" => pubExcl'[c] = {}
      <4>1. /\ subEnd[c] = "new" => exkeys[c] = {} /\ wire[c] = <<>> /\ pubEnd[c] = "new"
            /\ subEnd[c] = "connecting" => exkeys[c] \subseteq excl[Owner[c]]
            /\ subEnd[c] = "open" => exkeys[c] = excl[Owner[c]]
            /\ pubEnd[c] = "new" => pubExcl[c] = {}
        BY DEF FiledInv
      <4>2. CASE c \in Socks(a)
        BY <3>1, <4>1, <4>2
      <4>3. CASE c \notin Socks(a)
        BY <3>1, <4>1, <4>3
      <4> QED
        BY <4>2, <4>3
    <3> QED
      BY <3>2 DEF FiledInv
  <2>2. ASSUME NEW c \in Conn, NEW y \in Source, Alone(y), Live(c)'
        PROVE  Replays(wire'[c], y, exkeys'[c], Known(c)')
    <3>1. UNCHANGED <<subEnd, pubEnd, pubExcl>>
          /\ exkeys'[c] = (IF c \in Socks(a) THEN exkeys[c] \ {x} ELSE exkeys[c])
      BY <1>4, IncludeCall
    <3>2. Replays(wire[c], y, exkeys[c], Known(c))
      BY <2>2, <3>1 DEF Live, ReplayInv
    <3>3. CASE c \in Socks(a) /\ x \in exkeys[c]
      <4>1. PICK m \in Opt : m.op = "include" /\ m.arg = x /\ wire'[c] = Append(wire[c], m)
        BY <1>4, <3>3, IncludeCall
      <4>2. \/ ~About(m, y) /\ (y \in exkeys'[c] <=> y \in exkeys[c])
            \/ About(m, y) /\ (m.op = "exclude" <=> y \in exkeys'[c])
        BY <3>1, <3>3, <4>1 DEF About
      <4> QED
        BY KnownSame, <1>1, <3>1, <3>2, <4>1, <4>2, ReplaysAppend
    <3>4. CASE c \in Socks(a) => x \notin exkeys[c]
      <4>1. wire'[c] = wire[c]
        BY <1>4, <3>4, IncludeCall
      <4>2. exkeys'[c] = exkeys[c]
        BY <3>1, <3>4
      <4> QED
        BY KnownSame, <3>1, <3>2, <4>1, <4>2
    <3> QED
      BY <3>3, <3>4
  <2> QED
    BY <2>1, <2>2 DEF ReplayInv
<1> QED
  BY <1>2, <1>3, <1>4 DEF Call

LEMMA OnConnectStep ==
  ASSUME StepInv, NEW c \in Conn, OnConnect(c)
  PROVE  FiledInv' /\ ReplayInv'
<1> USE DEF StepInv
<1>1. /\ subEnd[c] = "connecting" /\ subEnd' = [subEnd EXCEPT ![c] = "open"]
      /\ exkeys' = [exkeys EXCEPT ![c] = @ \cup Untold(c)]
      /\ UNCHANGED <<excl, pubEnd, pubExcl>>
  BY DEF OnConnect, subChan, pubSock
<1>2. PICK f \in Seq(Opt), r \in Seq(Opt) :
           /\ wire' = [wire EXCEPT ![c] = (@ \o f) \o r]
           /\ \A i \in DOMAIN f : f[i].op = "subscribe"
           /\ \A i \in DOMAIN r : r[i].op = "exclude" /\ r[i].arg \in Untold(c)
           /\ \A x \in Untold(c) : \E i \in DOMAIN r : r[i].arg = x
  BY OnConnectSends
<1>3. /\ wire \in [Conn -> Seq(Opt)] /\ exkeys \in [Conn -> SUBSET Source]
      /\ subEnd \in [Conn -> {"new", "connecting", "open", "closed"}]
  BY DEF ListInv, TypeOK, Opt
<1>4. exkeys'[c] = excl[Owner[c]] /\ exkeys'[c] = exkeys[c] \cup Untold(c)
  BY <1>1, <1>3 DEF FiledInv, Untold
<1>5. FiledInv'
  BY <1>1, <1>2, <1>3, <1>4 DEF FiledInv
<1>6. ASSUME NEW y \in Source, Alone(y), Live(c)' PROVE Replays(wire'[c], y, exkeys'[c], Known(c)')
  <2>1. Replays(wire[c], y, exkeys[c], Known(c))
    BY <1>1, <1>6 DEF Live, ReplayInv
  <2>2. Replays(wire[c] \o f, y, exkeys[c], Known(c))
    <3>1. \A i \in DOMAIN f : ~About(f[i], y)
      BY <1>2 DEF About
    <3> QED
      BY <1>3, <2>1, <3>1, ReplaysConcat
  <2>3. wire[c] \o f \in Seq(Opt)
    BY <1>3
  <2>4. \A i \in DOMAIN r : About(r[i], y) => r[i].op = "exclude" /\ y \in exkeys'[c]
    BY <1>2, <1>4 DEF About
  <2>5. (\A i \in DOMAIN r : ~About(r[i], y)) => (y \in exkeys'[c] <=> y \in exkeys[c])
    BY <1>2, <1>4 DEF About
  <2>6. PICK w \in Seq(Opt) : w = wire[c] \o f
    BY <2>3
  <2>7. Replays(w \o r, y, exkeys'[c], Known(c))
    BY <2>2, <2>4, <2>5, <2>6, ReplaysConcat
  <2> QED
    BY KnownSame, <1>1, <1>2, <1>3, <2>6, <2>7
<1>7. ASSUME NEW d \in Conn, d # c, NEW y \in Source, Alone(y), Live(d)'
      PROVE  Replays(wire'[d], y, exkeys'[d], Known(d)')
  BY KnownSame, <1>1, <1>2, <1>3, <1>7 DEF Live, ReplayInv
<1>8. ReplayInv'
  BY <1>6, <1>7 DEF ReplayInv
<1> QED
  BY <1>5, <1>8

\* The steps of a connection, but for OnConnect.
LEMMA ConnStep ==
  ASSUME StepInv, NEW c \in Conn,
         Connect(c) \/ SubClose(c) \/ Accept(c) \/ PubDestroy(c) \/ PubGone(c)
  PROVE  FiledInv' /\ ReplayInv'
<1>1. /\ UNCHANGED <<excl, exkeys, pubExcl>>
      /\ \A d \in Conn \ {c} : /\ wire'[d] = wire[d] /\ subEnd'[d] = subEnd[d]
                               /\ pubEnd'[d] = pubEnd[d]
  BY DEF StepInv, ListInv, TypeOK, Connect, SubClose, Accept, PubDestroy, PubGone,
         subChan, subSock, pubSock
<1>2. \/ /\ subEnd[c] = "new" /\ subEnd'[c] = "connecting"
         /\ wire'[c] = wire[c] /\ pubEnd'[c] = pubEnd[c]
      \/ /\ subEnd[c] \in {"connecting", "open"} /\ subEnd'[c] = "closed"
         /\ pubEnd'[c] = pubEnd[c]
      \/ /\ subEnd[c] # "new" /\ subEnd'[c] = subEnd[c]
         /\ pubEnd[c] = "new" /\ pubEnd'[c] = "open" /\ wire'[c] = wire[c]
      \/ /\ pubEnd[c] \in {"open", "closing"} /\ pubEnd'[c] \in {"closing", "closed"}
         /\ subEnd'[c] = subEnd[c]
  BY DEF StepInv, ListInv, TypeOK, Connect, SubClose, Accept, PubDestroy, PubGone, subSock
<1>3. FiledInv'
  BY <1>1, <1>2 DEF StepInv, FiledInv
<1>4. ASSUME NEW x \in Source, Alone(x), Live(c)' PROVE Replays(wire'[c], x, exkeys'[c], Known(c)')
  <2>1. CASE subEnd[c] = "new"
    <3>1. exkeys'[c] = {} /\ pubExcl'[c] = {} /\ wire'[c] = <<>>
      BY <1>1, <1>2, <1>4, <2>1 DEF StepInv, FiledInv, Live
    <3>2. Known(c)' = {}
      BY <3>1 DEF Known
    <3> QED
      BY <3>1, <3>2 DEF Replays
  <2>2. CASE subEnd[c] # "new"
    BY KnownSame, <1>1, <1>2, <1>4, <2>2 DEF StepInv, ReplayInv, Live
  <2> QED
    BY <2>1, <2>2
<1>5. ASSUME NEW d \in Conn \ {c}, NEW x \in Source, Alone(x), Live(d)'
      PROVE  Replays(wire'[d], x, exkeys'[d], Known(d)')
  BY KnownSame, <1>1, <1>5 DEF StepInv, ReplayInv, Live
<1> QED
  BY <1>3, <1>4, <1>5 DEF ReplayInv

LEMMA ProcessStep ==
  ASSUME StepInv, NEW c \in Conn, Process(c)
  PROVE  FiledInv' /\ ReplayInv'
<1>1. wire \in [Conn -> Seq(Opt)] /\ pubExcl \in [Conn -> SUBSET {Ascii[z] : z \in Source}]
  BY DEF StepInv, ListInv, TypeOK, Opt
<1>2. PICK op, arg : Takes(c, op, arg)
  BY DEF Process, OnSubscribe, OnUnsubscribe, OnIgnored, OnExclude, OnInclude
<1>3. /\ pubEnd[c] = "open" /\ subEnd[c] \in {"open", "closed"} /\ wire[c] # <<>>
      /\ wire' = [wire EXCEPT ![c] = Tail(@)]
      /\ UNCHANGED <<excl, subEnd, exkeys, pubEnd>>
  BY <1>2 DEF Takes, subChan, subSock
<1>4. PICK m : m = Head(wire[c])
  OBVIOUS
<1>5. \/ /\ pubExcl' = pubExcl /\ m.op \in {"subscribe", "unsubscribe"}
      \/ /\ m.op = "exclude" /\ m.arg \in Source
         /\ pubExcl' = [pubExcl EXCEPT ![c] = @ \cup {Ascii[m.arg]}]
      \/ /\ m.op = "include" /\ m.arg \in Source
         /\ pubExcl' = [pubExcl EXCEPT ![c] = @ \ {Ascii[m.arg]}]
  BY <1>4 DEF Process, OnSubscribe, OnUnsubscribe, OnIgnored, OnExclude, OnInclude, Takes,
             Option, pubSock
<1>6. FiledInv'
  <2>1. \A d \in Conn \ {c} : wire'[d] = wire[d] /\ pubExcl'[d] = pubExcl[d]
    BY <1>1, <1>3, <1>5
  <2> QED
    BY <1>3, <2>1 DEF StepInv, FiledInv
<1>7. ASSUME NEW x \in Source, Alone(x), Live(c)' PROVE Replays(wire'[c], x, exkeys'[c], Known(c)')
  <2>1. Replays(wire[c], x, exkeys[c], Known(c))
    BY <1>3, <1>7 DEF StepInv, ReplayInv, Live
  <2>2. \/ ~About(m, x) /\ (x \in Known(c)' <=> x \in Known(c))
        \/ About(m, x) /\ (m.op = "exclude" <=> x \in Known(c)')
    <3>1. x \in Known(c) <=> Ascii[x] \in pubExcl[c]
      BY DEF Known
    <3>2. x \in Known(c)' <=> Ascii[x] \in pubExcl'[c]
      BY DEF Known
    <3>3. CASE m.op \in {"subscribe", "unsubscribe"}
      BY <1>5, <3>1, <3>2, <3>3 DEF About
    <3>4. CASE m.op \in {"exclude", "include"}
      <4>1. m.arg \in Source
        BY <1>5, <3>4
      <4>2. m.arg = x <=> Ascii[m.arg] = Ascii[x]
        BY <1>7, <4>1 DEF Alone
      <4>3. CASE m.op = "exclude"
        <5>1. pubExcl'[c] = pubExcl[c] \cup {Ascii[m.arg]}
          BY <1>1, <1>5, <4>3
        <5> QED
          BY <3>1, <3>2, <4>2, <4>3, <5>1 DEF About
      <4>4. CASE m.op = "include"
        <5>1. pubExcl'[c] = pubExcl[c] \ {Ascii[m.arg]}
          BY <1>1, <1>5, <4>4
        <5> QED
          BY <3>1, <3>2, <4>2, <4>4, <5>1 DEF About
      <4> QED
        BY <3>4, <4>3, <4>4
    <3> QED
      BY <1>5, <3>3, <3>4
  <2>3. wire'[c] = Tail(wire[c]) /\ exkeys'[c] = exkeys[c]
    BY <1>1, <1>3
  <2> QED
    BY <1>1, <1>3, <1>4, <2>1, <2>2, <2>3, ReplaysTail
<1>8. ASSUME NEW d \in Conn \ {c}, NEW x \in Source, Alone(x), Live(d)'
      PROVE  Replays(wire'[d], x, exkeys'[d], Known(d)')
  <2>1. UNCHANGED <<wire[d], exkeys[d], pubExcl[d], subEnd[d], pubEnd[d]>>
    BY <1>1, <1>3, <1>5
  <2> QED
    BY KnownSame, <1>8, <2>1 DEF StepInv, ReplayInv, Live
<1> QED
  BY <1>6, <1>7, <1>8 DEF ReplayInv

\* Once a connection has nothing under way, the publisher's end has the key of a
\* source that shares it with no other exactly when the sub channel excludes it:
\* the messages of exclude and include, and those of _onconnectSubChannel
\* (lib/sub.js), leave none out and arrive in an order that ends in the channel's
\* own state.
THEOREM ExclusionsInStepCorrect == Spec => []ExclusionsInStep
<1>1. Init => StepInv
  <2> SUFFICES ASSUME Init PROVE StepInv
    OBVIOUS
  <2>1. FiledInv /\ ReplayInv
    BY DEF Init, SubSocket, PubSocket, FiledInv, ReplayInv, Live
  <2> QED
    BY <2>1, ListInit DEF StepInv
<1>2. StepInv /\ [Next]_vars => StepInv'
  <2> SUFFICES ASSUME StepInv, [Next]_vars PROVE StepInv'
    OBVIOUS
  <2>1. ListInv'
    BY ListStep DEF StepInv
  <2>2. ASSUME NEW a \in Sub, Call(a) PROVE FiledInv' /\ ReplayInv'
    BY <2>2, CallStep
  <2>3. ASSUME NEW c \in Conn, OnConnect(c) PROVE FiledInv' /\ ReplayInv'
    BY <2>3, OnConnectStep
  <2>4. ASSUME NEW c \in Conn,
               Connect(c) \/ SubClose(c) \/ Accept(c) \/ PubDestroy(c) \/ PubGone(c)
        PROVE  FiledInv' /\ ReplayInv'
    BY <2>4, ConnStep
  <2>5. ASSUME NEW c \in Conn, Process(c) PROVE FiledInv' /\ ReplayInv'
    BY <2>5, ProcessStep
  <2>6. ASSUME UNCHANGED vars PROVE FiledInv' /\ ReplayInv'
    <3>1. UNCHANGED <<excl, exkeys, wire, subEnd, pubEnd, pubExcl>>
      BY <2>6 DEF vars, subChan, subSock, pubSock
    <3>2. FiledInv'
      BY <3>1 DEF StepInv, FiledInv
    <3>3. ReplayInv'
      BY <3>1 DEF StepInv, ReplayInv, Live, Known
    <3> QED
      BY <3>2, <3>3
  <2>7. FiledInv' /\ ReplayInv'
    BY <2>2, <2>3, <2>4, <2>5, <2>6 DEF Next
  <2> QED
    BY <2>1, <2>7 DEF StepInv
<1>3. StepInv => ExclusionsInStep
  <2> SUFFICES ASSUME StepInv, NEW c \in Conn, NEW x \in Source, Settled(c), Alone(x)
               PROVE  Ascii[x] \in pubExcl[c] <=> x \in excl[Owner[c]]
    BY DEF ExclusionsInStep
  <2>1. Live(c) /\ wire[c] = <<>> /\ exkeys[c] = excl[Owner[c]]
    BY DEF StepInv, FiledInv, Live, Settled
  <2>2. x \in Known(c) <=> x \in exkeys[c]
    BY <2>1 DEF StepInv, ReplayInv, Replays
  <2> QED
    BY <2>1, <2>2 DEF Known
<1> QED
  BY <1>1, <1>2, <1>3, PTL DEF Spec

-----------------------------------------------------------------------------
(* The filter                                                              *)

\* A slice of the message that covers a pattern agrees with the message on it.
LEMMA SliceAgrees ==
  ASSUME NEW m \in Seq(Nat), NEW p \in Seq(Nat), NEW k \in 0 .. Len(m),
         Len(p) <= k \/ k = Len(m), NEW s, s = SubSeq(m, 1, k)
  PROVE  (IsPrefix(p, s) \/ IsPrefix(s, p)) <=> (IsPrefix(p, m) \/ IsPrefix(m, p))
<1>1. /\ s \in Seq(Nat) /\ Len(s) = k /\ k \in Nat /\ k <= Len(m) /\ Len(m) \in Nat
      /\ Len(p) \in Nat /\ \A i \in 1 .. k : s[i] = m[i]
  OBVIOUS
<1>2. CASE k = Len(m)
  <2>1. s = m
    BY <1>1, <1>2
  <2> QED
    BY <2>1
<1>3. CASE k # Len(m)
  <2>1. Len(p) <= k /\ ~IsPrefix(m, p)
    BY <1>1, <1>3 DEF IsPrefix
  <2>2. SubSeq(s, 1, Len(p)) = SubSeq(m, 1, Len(p))
    BY <1>1, <2>1
  <2>3. IsPrefix(p, s) <=> IsPrefix(p, m)
    BY <1>1, <2>1, <2>2 DEF IsPrefix
  <2>4. ASSUME IsPrefix(s, p) PROVE IsPrefix(p, s)
    BY <1>1, <2>1, <2>4 DEF IsPrefix
  <2> QED
    BY <2>1, <2>3, <2>4
<1> QED
  BY <1>2, <1>3

\* The slice a socket's patterns are compared with covers them.
LEMMA SliceCovers ==
  ASSUME LongestCovers, TypeOK, NEW m \in Seq(Nat), NEW c \in Conn, list[c] # <<>>,
         NEW j \in 0 .. Len(m)
  PROVE  \E k \in 0 .. Len(m) :
           /\ Slice(c, m, SubSeq(m, 1, j)) = SubSeq(m, 1, k)
           /\ \A i \in DOMAIN list[c] : Len(list[c][i]) <= k \/ k = Len(m)
<1>1. /\ list[c] \in Seq(Pattern) /\ longest[c] \in Nat \cup {-1} /\ Len(m) \in Nat /\ j \in Nat
      /\ \A i \in DOMAIN list[c] : Len(list[c][i]) \in Nat /\ Len(list[c][i]) <= longest[c]
  BY BytesAssumption DEF TypeOK, LongestCovers
<1>2. longest[c] \in Nat
  <2>1. 1 \in DOMAIN list[c]
    BY <1>1
  <2> QED
    BY <1>1, <2>1
<1>3. PICK s : s = SubSeq(m, 1, j)
  OBVIOUS
<1>4. Len(s) = j
  BY <1>3
<1>5. CASE s = <<>> \/ longest[c] > Len(s)
  <2>1. PICK k \in 0 .. Len(m) : k = IF longest[c] < Len(m) THEN longest[c] ELSE Len(m)
    BY <1>1, <1>2
  <2>2. Slice(c, m, s) = SubSeq(m, 1, k)
    BY <1>5, <2>1 DEF Slice
  <2>3. \A i \in DOMAIN list[c] : Len(list[c][i]) <= k \/ k = Len(m)
    BY <1>1, <1>2, <2>1
  <2> QED
    BY <1>3, <2>2, <2>3
<1>6. CASE ~(s = <<>> \/ longest[c] > Len(s))
  <2>1. Slice(c, m, s) = SubSeq(m, 1, j)
    BY <1>3, <1>6 DEF Slice
  <2>2. \A i \in DOMAIN list[c] : Len(list[c][i]) <= j
    BY <1>1, <1>2, <1>4, <1>6
  <2> QED
    BY <1>3, <2>1, <2>2
<1> QED
  BY <1>5, <1>6

\* A socket with patterns that did not ask for all is picked as often as it
\* should be.
LEMMA HitsAsked ==
  ASSUME TypeOK, NEW m \in Seq(Nat), NEW c \in Conn, pubEnd[c] = "open", ~null[c],
         NEW k \in 0 .. Len(m), NEW s, s = SubSeq(m, 1, k),
         \A i \in DOMAIN list[c] : Len(list[c][i]) <= k \/ k = Len(m)
  PROVE  Hits(c, s) = Asked(c, m)
<1>1. \A i \in DOMAIN list[c] : list[c][i] \in Seq(Nat)
  BY BytesAssumption DEF TypeOK
<1>2. ASSUME NEW i \in DOMAIN list[c]
      PROVE  (IsPrefix(list[c][i], s) \/ IsPrefix(s, list[c][i]))
               <=> (IsPrefix(list[c][i], m) \/ IsPrefix(m, list[c][i]))
  <2>1. PICK p \in Seq(Nat) : p = list[c][i]
    BY <1>1
  <2>2. Len(p) <= k \/ k = Len(m)
    BY <2>1
  <2>3. (IsPrefix(p, s) \/ IsPrefix(s, p)) <=> (IsPrefix(p, m) \/ IsPrefix(m, p))
    <3>1. m \in Seq(Nat) /\ p \in Seq(Nat) /\ k \in 0 .. Len(m) /\ s = SubSeq(m, 1, k)
      BY <2>1
    <3> QED
      BY <2>2, <3>1, SliceAgrees, Zenon
  <2> QED
    BY <2>1, <2>3
<1>3. {i \in DOMAIN list[c] : IsPrefix(list[c][i], s) \/ IsPrefix(s, list[c][i])}
        = {i \in DOMAIN list[c] : IsPrefix(list[c][i], m) \/ IsPrefix(m, list[c][i])}
  BY <1>2
<1> QED
  BY <1>3 DEF Hits, Asked

\* The slice and the counts before each pass of the loop, and after the last.
Filters(m, f, k) == \A i \in 0 .. k :
  f[i] = IF i = 0 THEN [slice |-> <<>>, times |-> [c \in Conn |-> 0]]
         ELSE FilterStep(f[i - 1], conns[Len(conns) + 1 - i], m)

LEMMA FiltersExtended ==
  ASSUME NEW m, NEW k \in Nat \ {0}, NEW f, Filters(m, f, k - 1)
  PROVE  \E g : g = [i \in 0 .. k |-> g[i]] /\ Filters(m, g, k)
<1> DEFINE Start == [slice |-> <<>>, times |-> [c \in Conn |-> 0]]
           Pass(a, i) == FilterStep(a, conns[Len(conns) + 1 - i], m)
<1>0. \A i \in 0 .. k - 1 : f[i] = IF i = 0 THEN Start ELSE Pass(f[i - 1], i)
  BY DEF Filters
<1> HIDE DEF Start, Pass
<1>1. PICK g : g = [i \in 0 .. k |-> IF i = k THEN Pass(f[k - 1], k) ELSE f[i]]
  OBVIOUS
<1>2. g = [i \in 0 .. k |-> g[i]]
  BY <1>1
<1>3. \A i \in 0 .. k - 1 : g[i] = f[i]
  <2>1. \A i \in 0 .. k - 1 : i \in 0 .. k /\ i # k
    OBVIOUS
  <2> QED
    BY <1>1, <2>1
<1>4. g[k] = Pass(f[k - 1], k)
  BY <1>1
<1>5. ASSUME NEW i \in 0 .. k
      PROVE  g[i] = IF i = 0 THEN Start ELSE Pass(g[i - 1], i)
  <2>1. CASE i = k
    <3>1. k - 1 \in 0 .. k - 1
      OBVIOUS
    <3> QED
      BY <2>1, <3>1, <1>3, <1>4
  <2>2. CASE i # k
    <3>1. i \in 0 .. k - 1 /\ (i # 0 => i - 1 \in 0 .. k - 1)
      BY <2>2
    <3>2. f[i] = IF i = 0 THEN Start ELSE Pass(f[i - 1], i)
      BY <1>0, <3>1
    <3> QED
      BY <3>1, <3>2, <1>3
  <2> QED
    BY <2>1, <2>2
<1>6. Filters(m, g, k)
  BY <1>5 DEF Filters, Start, Pass
<1> QED
  BY <1>2, <1>6

\* The function that Filter chooses exists.
LEMMA FiltersExists ==
  ASSUME NEW m, NEW n \in Nat
  PROVE  \E f : f = [i \in 0 .. n |-> f[i]] /\ Filters(m, f, n)
<1> DEFINE Run(k) == \E f : f = [i \in 0 .. k |-> f[i]] /\ Filters(m, f, k)
           T == {k \in Nat : ~Run(k)}
<1>1. Run(0)
  <2>1. PICK f : f = [i \in 0 .. 0 |-> [slice |-> <<>>, times |-> [c \in Conn |-> 0]]]
    OBVIOUS
  <2>2. /\ f = [i \in 0 .. 0 |-> f[i]]
        /\ \A i \in 0 .. 0 : i = 0 /\ f[i] = [slice |-> <<>>, times |-> [c \in Conn |-> 0]]
    BY <2>1
  <2> QED
    BY <2>2 DEF Filters
<1>2. ASSUME NEW k \in Nat \ {0}, Run(k - 1) PROVE Run(k)
  BY <1>2, FiltersExtended
<1> HIDE DEF Run
<1>3. ASSUME T # {} PROVE FALSE
  <2>1. T \in SUBSET Nat
    OBVIOUS
  <2> HIDE DEF T
  <2>2. PICK k \in T : \A y \in T : k <= y
    BY <1>3, <2>1, LeastNatural
  <2>3. k \in Nat /\ ~Run(k)
    BY <2>2 DEF T
  <2>4. k # 0
    BY <1>1, <2>3
  <2>5. k - 1 \notin T /\ k - 1 \in Nat
    BY <2>2, <2>3, <2>4
  <2>6. Run(k - 1)
    BY <2>5 DEF T
  <2> QED
    BY <1>2, <2>3, <2>4, <2>6
<1>4. Run(n)
  BY <1>3
<1> QED
  BY <1>4 DEF Run

LEMMA FilterRuns ==
  ASSUME NEW m, Len(conns) \in Nat
  PROVE  \E f : Filters(m, f, Len(conns)) /\ Filter(m) = f[Len(conns)].times
<1> DEFINE J(f) == f = [i \in 0 .. Len(conns) |->
                          IF i = 0 THEN [slice |-> <<>>, times |-> [c \in Conn |-> 0]]
                          ELSE FilterStep(f[i - 1], conns[Len(conns) + 1 - i], m)]
<1>1. PICK g : g = [i \in 0 .. Len(conns) |-> g[i]] /\ Filters(m, g, Len(conns))
  BY FiltersExists
<1>2. J(g)
  BY <1>1 DEF Filters
<1>3. PICK f : f = CHOOSE h : J(h)
  OBVIOUS
<1>4. J(f)
  <2> HIDE DEF J
  <2> QED BY <1>2, <1>3
<1>5. Filter(m) = f[Len(conns)].times
  BY <1>3 DEF Filter
<1>6. Filters(m, f, Len(conns))
  <2>1. \A i \in 0 .. Len(conns) :
          f[i] = IF i = 0 THEN [slice |-> <<>>, times |-> [c \in Conn |-> 0]]
                 ELSE FilterStep(f[i - 1], conns[Len(conns) + 1 - i], m)
    BY <1>4, Zenon
  <2> QED
    BY <2>1 DEF Filters
<1> QED
  BY <1>5, <1>6

\* The loop so far: the slice is the first bytes of the message, and the sockets
\* in seen are picked as often as they should be, the others not yet.
Picked(m, seen, acc) ==
  /\ acc = [slice |-> acc.slice, times |-> acc.times]
  /\ \E j \in 0 .. Len(m) : acc.slice = SubSeq(m, 1, j)
  /\ acc.times = [c \in Conn |-> IF c \in seen THEN Asked(c, m) ELSE 0]

LEMMA PickedStep ==
  ASSUME LongestCovers, TypeOK, NEW m \in Seq(Nat), NEW seen, NEW acc, Picked(m, seen, acc),
         NEW c \in Conn \ seen
  PROVE  Picked(m, seen \cup {c}, FilterStep(acc, c, m))
<1>1. PICK j \in 0 .. Len(m) : acc.slice = SubSeq(m, 1, j)
  BY DEF Picked
<1>2. PICK s, t : s = acc.slice /\ t = acc.times /\ acc = [slice |-> s, times |-> t]
  BY DEF Picked
<1>3. t = [d \in Conn |-> IF d \in seen THEN Asked(d, m) ELSE 0] /\ t[c] = 0
  BY <1>2 DEF Picked
<1>4. ASSUME NEW u, u = [t EXCEPT ![c] = Asked(c, m)]
      PROVE  u = [d \in Conn |-> IF d \in seen \cup {c} THEN Asked(d, m) ELSE 0]
  BY <1>3, <1>4
<1>5. CASE pubEnd[c] # "open" \/ (~null[c] /\ list[c] = <<>>)
  <2>1. Asked(c, m) = 0
    <3>1. list[c] = <<>> => {i \in DOMAIN list[c] : IsPrefix(list[c][i], m)
                                                    \/ IsPrefix(m, list[c][i])} = {}
      OBVIOUS
    <3> QED
      BY <1>5, <3>1, FS_EmptySet DEF Asked
  <2>2. FilterStep(acc, c, m) = acc
    BY <1>5 DEF FilterStep
  <2>3. t = [t EXCEPT ![c] = Asked(c, m)]
    BY <1>3, <2>1
  <2>4. t = [d \in Conn |-> IF d \in seen \cup {c} THEN Asked(d, m) ELSE 0]
    BY <1>4, <2>3
  <2> QED
    BY <1>1, <1>2, <2>2, <2>4 DEF Picked
<1>6. CASE pubEnd[c] = "open" /\ null[c]
  <2>1. Asked(c, m) = 1
    BY <1>6 DEF Asked
  <2>2. FilterStep(acc, c, m) = [acc EXCEPT !.times[c] = @ + 1]
    BY <1>6 DEF FilterStep
  <2>3. FilterStep(acc, c, m) = [slice |-> s, times |-> [t EXCEPT ![c] = Asked(c, m)]]
    <3>1. t[c] + 1 = Asked(c, m)
      BY <1>3, <2>1
    <3>2. [acc EXCEPT !.times[c] = @ + 1] = [slice |-> s, times |-> [t EXCEPT ![c] = t[c] + 1]]
      BY <1>2
    <3> QED
      BY <2>2, <3>1, <3>2, Zenon
  <2>4. [t EXCEPT ![c] = Asked(c, m)]
          = [d \in Conn |-> IF d \in seen \cup {c} THEN Asked(d, m) ELSE 0]
    BY <1>4
  <2>5. PICK r : r = FilterStep(acc, c, m)
    OBVIOUS
  <2>6. r.slice = s /\ r.times = [t EXCEPT ![c] = Asked(c, m)]
        /\ r = [slice |-> r.slice, times |-> r.times]
    BY <2>3, <2>5
  <2>7. Picked(m, seen \cup {c}, r)
    BY <1>1, <1>2, <2>4, <2>6 DEF Picked
  <2> QED
    BY <2>5, <2>7
<1>7. CASE pubEnd[c] = "open" /\ ~null[c] /\ list[c] # <<>>
  <2>1. PICK k \in 0 .. Len(m) :
           /\ Slice(c, m, SubSeq(m, 1, j)) = SubSeq(m, 1, k)
           /\ \A i \in DOMAIN list[c] : Len(list[c][i]) <= k \/ k = Len(m)
    BY <1>7, SliceCovers
  <2>2. PICK z : z = SubSeq(m, 1, k)
    OBVIOUS
  <2>3. Hits(c, z) = Asked(c, m)
    BY <1>7, <2>1, <2>2, HitsAsked
  <2>4. Hits(c, z) \in Nat
    <3>1. IsFiniteSet(DOMAIN list[c])
      <4>1. DOMAIN list[c] = 1 .. Len(list[c]) /\ Len(list[c]) \in Int /\ 1 \in Int
        BY DEF TypeOK
      <4> QED
        BY <4>1, FS_Interval
    <3>2. IsFiniteSet({i \in DOMAIN list[c] : IsPrefix(list[c][i], z) \/ IsPrefix(z, list[c][i])})
      BY <3>1, FS_Subset
    <3> QED
      BY <3>2, FS_CardinalityType DEF Hits
  <2>5. FilterStep(acc, c, m) = [slice |-> z, times |-> [t EXCEPT ![c] = @ + Hits(c, z)]]
    BY <1>1, <1>2, <1>7, <2>1, <2>2 DEF FilterStep
  <2>6. FilterStep(acc, c, m) = [slice |-> z, times |-> [t EXCEPT ![c] = Asked(c, m)]]
    BY <1>3, <2>3, <2>4, <2>5
  <2>7. [t EXCEPT ![c] = Asked(c, m)]
          = [d \in Conn |-> IF d \in seen \cup {c} THEN Asked(d, m) ELSE 0]
    BY <1>4
  <2> QED
    BY <2>2, <2>6, <2>7 DEF Picked
<1>8. null[c] \in BOOLEAN
  BY DEF TypeOK
<1> QED
  BY <1>5, <1>6, <1>7, <1>8

\* The sockets of the first k passes.
Seen(k) == {conns[Len(conns) + 1 - i] : i \in 1 .. k}

LEMMA FilterPicks ==
  ASSUME ListInv, NEW m \in Seq(Nat)
  PROVE  Filter(m) = [c \in Conn |-> IF c \in ToSet(conns) THEN Asked(c, m) ELSE 0]
<1>1. /\ conns \in Seq(Conn) /\ Len(conns) \in Nat /\ DOMAIN conns = 1 .. Len(conns)
      /\ \A i, j \in 1 .. Len(conns) : conns[i] = conns[j] => i = j
  BY DEF ListInv, TypeOK, ConnsInv, IsInjective
<1>2. PICK f : Filters(m, f, Len(conns)) /\ Filter(m) = f[Len(conns)].times
  BY <1>1, FilterRuns
<1> DEFINE Done(k) == Picked(m, Seen(k), f[k])
           T == {k \in 0 .. Len(conns) : ~Done(k)}
<1>3. Done(0)
  <2>1. f[0] = [slice |-> <<>>, times |-> [c \in Conn |-> 0]]
    BY <1>1, <1>2 DEF Filters
  <2>2. Seen(0) = {}
    BY DEF Seen
  <2>3. 0 \in 0 .. Len(m) /\ SubSeq(m, 1, 0) = <<>>
    OBVIOUS
  <2> QED
    BY <2>1, <2>2, <2>3 DEF Picked
<1>4. ASSUME NEW k \in 1 .. Len(conns), Done(k - 1) PROVE Done(k)
  <2>1. k \in 0 .. Len(conns) /\ k # 0 /\ k \in Nat
    BY <1>1
  <2>2. PICK c : c = conns[Len(conns) + 1 - k]
    OBVIOUS
  <2>3. f[k] = FilterStep(f[k - 1], c, m)
    BY <1>2, <2>1, <2>2 DEF Filters
  <2>4. \A i \in 1 .. k : Len(conns) + 1 - i \in 1 .. Len(conns)
    BY <1>1
  <2>5. c \in Conn
    BY <1>1, <2>1, <2>2, <2>4
  <2>6. c \notin Seen(k - 1)
    <3>1. SUFFICES ASSUME NEW i \in 1 .. k - 1, conns[Len(conns) + 1 - i] = c PROVE FALSE
      BY DEF Seen
    <3>2. Len(conns) + 1 - i = Len(conns) + 1 - k
      BY <1>1, <2>1, <2>2, <2>4, <3>1
    <3> QED
      BY <1>1, <2>1, <3>2
  <2>7. Seen(k) = Seen(k - 1) \cup {c}
    <3>1. 1 .. k = (1 .. k - 1) \cup {k}
      BY <2>1
    <3> QED
      BY <2>2, <3>1 DEF Seen
  <2>8. LongestCovers /\ TypeOK
    BY DEF ListInv
  <2>9. PICK seen, acc : seen = Seen(k - 1) /\ acc = f[k - 1]
    OBVIOUS
  <2>10. Picked(m, seen \cup {c}, FilterStep(acc, c, m))
    BY <1>4, <2>5, <2>6, <2>8, <2>9, PickedStep
  <2> QED
    BY <2>3, <2>7, <2>9, <2>10
<1> HIDE DEF Done
<1>5. ASSUME T # {} PROVE FALSE
  <2>1. T \in SUBSET Nat
    OBVIOUS
  <2> HIDE DEF T
  <2>2. PICK k \in T : \A y \in T : k <= y
    BY <1>5, <2>1, LeastNatural
  <2>3. k \in 0 .. Len(conns) /\ ~Done(k)
    BY <2>2 DEF T
  <2>4. k # 0
    BY <1>3, <2>3
  <2>5. k - 1 \notin T /\ k - 1 \in 0 .. Len(conns) /\ k \in 1 .. Len(conns)
    BY <1>1, <2>2, <2>3, <2>4
  <2>6. Done(k - 1)
    BY <2>5 DEF T
  <2> QED
    BY <1>4, <2>3, <2>5, <2>6
<1>6. Done(Len(conns))
  <2>1. Len(conns) \in 0 .. Len(conns)
    BY <1>1
  <2> QED
    BY <1>5, <2>1
<1>7. Seen(Len(conns)) = ToSet(conns)
  <2>1. ToSet(conns) = {conns[i] : i \in 1 .. Len(conns)}
    BY <1>1 DEF ToSet
  <2>2. \A i \in 1 .. Len(conns) : /\ Len(conns) + 1 - i \in 1 .. Len(conns)
                                   /\ Len(conns) + 1 - (Len(conns) + 1 - i) = i
    BY <1>1
  <2> QED
    BY <2>1, <2>2 DEF Seen
<1> QED
  BY <1>2, <1>6, <1>7 DEF Done, Picked

\* rawPatternFilter (lib/pub.js) picks each socket for the patterns it asked for
\* that the message begins with or that begin with the message, although one
\* slice of the message serves all sockets and the lists it is cut by are
\* recalculated at every unsubscribe.
THEOREM FilterExactCorrect == Spec => []FilterExact
<1>1. ASSUME ListInv, NEW m \in Msg, NEW c \in Conn PROVE Filter(m)[c] = Asked(c, m)
  <2>1. m \in Seq(Nat)
    BY BytesAssumption
  <2>2. Filter(m) = [d \in Conn |-> IF d \in ToSet(conns) THEN Asked(d, m) ELSE 0]
    BY <1>1, <2>1, FilterPicks
  <2>3. CASE c \in ToSet(conns)
    BY <2>2, <2>3
  <2>4. CASE c \notin ToSet(conns)
    <3>1. pubEnd[c] # "open"
      BY <1>1, <2>4 DEF ListInv, ConnsInv
    <3> QED
      BY <2>2, <2>4, <3>1 DEF Asked
  <2> QED
    BY <2>3, <2>4
<1>2. ListInv => FilterExact
  BY <1>1 DEF FilterExact
<1> QED
  BY <1>2, ListHolds, PTL
=============================================================================
