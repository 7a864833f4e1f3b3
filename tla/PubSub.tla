-------------------------------- MODULE PubSub --------------------------------
(***************************************************************************)
(* Subscriptions: the patterns and exclusions of `sub' channels            *)
(* (lib/sub.js), the option messages that carry them over each connection, *)
(* and what a `pub' channel (lib/pub.js) makes of them: the pattern list   *)
(* of each of its sockets, its routing table, and rawPatternFilter, which  *)
(* picks the sockets a message goes to.                                    *)
(*                                                                         *)
(* Patterns and messages are sequences of bytes.  No message that reaches  *)
(* the filter has an origin (pipe() throws), so exclusions are kept in     *)
(* step but take no part in it.                                            *)
(***************************************************************************)
EXTENDS Integers, FiniteSets, SequencesExt

CONSTANTS
  Sub,       \* the sub channels
  Conn,      \* connections of sub channels to the pub channel, each used once
  Owner,     \* the sub channel of each connection
  Pattern,   \* what may be subscribed to
  Source,    \* what may be excluded
  Ascii,     \* what pub reads back of each source: it is sent as "binary" and
             \* decoded as "ascii", so two sources with bytes above 127 may be one
  Msg,       \* the messages that may be sent
  MaxWire,   \* bound: option messages under way when a call is made
  MaxCalls   \* bound: calls of the four operations, by the number of connections used

ASSUME OwnerAssumption == Owner \in [Conn -> Sub]
ASSUME AsciiAssumption == DOMAIN Ascii = Source
ASSUME BytesAssumption == Pattern \subseteq Seq(Nat) /\ Msg \subseteq Seq(Nat)
ASSUME BoundsAssumption == MaxWire \in Nat /\ MaxCalls \in [0 .. Cardinality(Conn) -> Nat]

VARIABLES
  \* SubChannel
  subs,      \* _rawsubscriptions
  excl,      \* _exclusions
  calls,     \* how many calls were made
  \* SubSocket
  subEnd,    \* "new", "connecting", "open", "closed"
  keys,      \* _rawsubscriptions: the keys, not the patterns
  exkeys,    \* _exclusions
  wire,      \* option messages sent and not processed, the oldest first
  \* PubSocket
  pubEnd,    \* "new", "open", "closing" (destroyed), "closed"
  list,      \* _rawsubscriptions
  longest,   \* _rawpatternlongest
  variants,  \* _rawpatternvariants
  null,      \* _nullsubscriptions
  pubExcl,   \* _exclusions: the keys, not the sources
  \* PubChannel
  conns,     \* _sockets
  routes     \* _rawsubscriptions: the sockets listed under each pattern

subChan == <<subs, excl, calls>>
subSock == <<subEnd, keys, exkeys>>
pubSock == <<list, longest, variants, null, pubExcl>>
vars == <<subChan, subSock, wire, pubEnd, pubSock, conns, routes>>

\* The key SubSocket files a pattern under: Buffer.toString("binary"), the text
\* of the class and not of the pattern.
Key(p) == "Buffer"

\* Every variable has its type, and no socket lists a pattern twice.
TypeOK ==
  /\ subs \in [Sub -> SUBSET Pattern] /\ excl \in [Sub -> SUBSET Source]
  /\ calls \in Nat
  /\ subEnd \in [Conn -> {"new", "connecting", "open", "closed"}]
  /\ pubEnd \in [Conn -> {"new", "open", "closing", "closed"}]
  /\ keys \in [Conn -> SUBSET {Key(p) : p \in Pattern}]
  /\ exkeys \in [Conn -> SUBSET Source]
  /\ pubExcl \in [Conn -> SUBSET {Ascii[x] : x \in Source}]
  /\ wire \in [Conn -> Seq([op : {"subscribe", "unsubscribe"}, arg : Pattern]
                           \cup [op : {"exclude", "include"}, arg : Source])]
  /\ list \in [Conn -> Seq(Pattern)] /\ \A c \in Conn : IsInjective(list[c])
  /\ longest \in [Conn -> Nat \cup {-1}]
  /\ variants \in [Conn -> {"null", "false", "true"}]
  /\ null \in [Conn -> BOOLEAN]
  /\ conns \in Seq(Conn)
  /\ routes \in [Pattern -> Seq(Conn)]

SubChannel == subs = [a \in Sub |-> {}] /\ excl = [a \in Sub |-> {}]
SubSocket  == keys = [c \in Conn |-> {}] /\ exkeys = [c \in Conn |-> {}]
PubSocket ==
  /\ list = [c \in Conn |-> <<>>] /\ longest = [c \in Conn |-> -1]
  /\ variants = [c \in Conn |-> "null"] /\ null = [c \in Conn |-> FALSE]
  /\ pubExcl = [c \in Conn |-> {}]
PubChannel == conns = <<>> /\ routes = [p \in Pattern |-> <<>>]

Init ==
  /\ SubChannel /\ SubSocket /\ PubSocket /\ PubChannel
  /\ subEnd = [c \in Conn |-> "new"] /\ pubEnd = [c \in Conn |-> "new"]
  /\ wire = [c \in Conn |-> <<>>] /\ calls = 0

-----------------------------------------------------------------------------
Socks(a) == {c \in Conn : Owner[c] = a /\ subEnd[c] \in {"connecting", "open"}}

\* The sockets of who each send an option message.
Tell(who, op, arg) ==
  wire' = [c \in Conn |->
             IF c \in who THEN Append(wire[c], [op |-> op, arg |-> arg]) ELSE wire[c]]

Used == Cardinality({c \in Conn : subEnd[c] # "new"})

Calls(a) ==
  /\ calls < MaxCalls[Used] /\ calls' = calls + 1
  /\ \A c \in Socks(a) : Len(wire[c]) < MaxWire

\* SubSocket.subscribe, of each of the sockets: one that has the key sends
\* nothing.
SockSubscribe(who, p) ==
  LET new == {c \in who : Key(p) \notin keys[c]}
  IN /\ keys' = [c \in Conn |-> IF c \in new THEN keys[c] \cup {Key(p)} ELSE keys[c]]
     /\ Tell(new, "subscribe", p)

SockUnsubscribe(who, p) ==
  LET old == {c \in who : Key(p) \in keys[c]}
  IN /\ keys' = [c \in Conn |-> IF c \in old THEN keys[c] \ {Key(p)} ELSE keys[c]]
     /\ Tell(old, "unsubscribe", p)

SockExclude(who, x) ==
  LET new == {c \in who : x \notin exkeys[c]}
  IN /\ exkeys' = [c \in Conn |-> IF c \in new THEN exkeys[c] \cup {x} ELSE exkeys[c]]
     /\ Tell(new, "exclude", x)

SockInclude(who, x) ==
  LET old == {c \in who : x \in exkeys[c]}
  IN /\ exkeys' = [c \in Conn |-> IF c \in old THEN exkeys[c] \ {x} ELSE exkeys[c]]
     /\ Tell(old, "include", x)

\* The calls on the channel, which makes each socket's.
Subscribe(a, p) ==
  /\ Calls(a) /\ p \notin subs[a]
  /\ subs' = [subs EXCEPT ![a] = @ \cup {p}]
  /\ SockSubscribe(Socks(a), p)
  /\ UNCHANGED <<excl, subEnd, exkeys, pubEnd, pubSock, conns, routes>>

Unsubscribe(a, p) ==
  /\ Calls(a) /\ p \in subs[a]
  /\ subs' = [subs EXCEPT ![a] = @ \ {p}]
  /\ SockUnsubscribe(Socks(a), p)
  /\ UNCHANGED <<excl, subEnd, exkeys, pubEnd, pubSock, conns, routes>>

Exclude(a, x) ==
  /\ Calls(a) /\ x \notin excl[a]
  /\ excl' = [excl EXCEPT ![a] = @ \cup {x}]
  /\ SockExclude(Socks(a), x)
  /\ UNCHANGED <<subs, subEnd, keys, pubEnd, pubSock, conns, routes>>

Include(a, x) ==
  /\ Calls(a) /\ x \in excl[a]
  /\ excl' = [excl EXCEPT ![a] = @ \ {x}]
  /\ SockInclude(Socks(a), x)
  /\ UNCHANGED <<subs, subEnd, keys, pubEnd, pubSock, conns, routes>>

\* Channel.connect; the bound on calls is then that of one more connection.
Connect(c) ==
  /\ subEnd[c] = "new" /\ calls <= MaxCalls[Used + 1]
  /\ subEnd' = [subEnd EXCEPT ![c] = "connecting"]
  /\ UNCHANGED <<subChan, keys, exkeys, wire, pubEnd, pubSock, conns, routes>>

\* Mutant of Untold: a new connection is not told of earlier exclusions.
UntoldNot(c) == {}

\* The exclusions socket c has not sent yet.
Untold(c) == excl[Owner[c]] \ exkeys[c]

\* _onconnectSubChannel: the channel's patterns and exclusions are sent over a
\* new connection.  Once a pattern is filed, no other has a key of its own.
OnConnect(c) ==
  LET fresh == {p \in subs[Owner[c]] : Key(p) \notin keys[c]}
  IN /\ subEnd[c] = "connecting"
     /\ subEnd' = [subEnd EXCEPT ![c] = "open"]
     /\ keys' = [keys EXCEPT ![c] = @ \cup {Key(p) : p \in fresh}]
     /\ exkeys' = [exkeys EXCEPT ![c] = @ \cup Untold(c)]
     /\ \E first \in {<<p>> : p \in fresh} \cup {<<>>}, rest \in SetToSeqs(Untold(c)) :
          /\ first = <<>> => fresh = {}
          /\ wire' = [wire EXCEPT ![c] = @
                        \o [i \in DOMAIN first |-> [op |-> "subscribe", arg |-> first[i]]]
                        \o [i \in DOMAIN rest |-> [op |-> "exclude", arg |-> rest[i]]]]
     /\ UNCHANGED <<subChan, pubEnd, pubSock, conns, routes>>

\* The subscriber's end is gone.  What it did not write yet is lost.
SubClose(c) ==
  /\ subEnd[c] \in {"connecting", "open"}
  /\ subEnd' = [subEnd EXCEPT ![c] = "closed"]
  /\ \E n \in 0 .. Len(wire[c]) :
       /\ subEnd[c] = "connecting" => n = 0
       /\ wire' = [wire EXCEPT ![c] = SubSeq(@, 1, n)]
  /\ UNCHANGED <<subChan, keys, exkeys, pubEnd, pubSock, conns, routes>>

-----------------------------------------------------------------------------
\* splice(indexOf(e), 1): e is taken out of q where it stands first.
Spliced(q, e) ==
  RemoveAt(q, CHOOSE i \in DOMAIN q : q[i] = e /\ \A j \in DOMAIN q : j < i => q[j] # e)

\* The pub channel accepts the connection.  Its connect handler listens to the
\* socket from the first option message on: there are none yet to look at.
Accept(c) ==
  /\ pubEnd[c] = "new" /\ subEnd[c] # "new"
  /\ pubEnd' = [pubEnd EXCEPT ![c] = "open"]
  /\ conns' = Append(conns, c)
  /\ UNCHANGED <<subChan, subSock, wire, pubSock, routes>>

\* Its socket is destroyed: end of stream, an error, or the application.
PubDestroy(c) ==
  /\ pubEnd[c] = "open"
  /\ pubEnd' = [pubEnd EXCEPT ![c] = "closing"]
  /\ wire' = [wire EXCEPT ![c] = <<>>]
  /\ UNCHANGED <<subChan, subSock, pubSock, conns, routes>>

\* `disconnect': the channel forgets the socket.  Its handler removes the
\* listeners of the socket, and no entry of the routing table.
PubGone(c) ==
  /\ pubEnd[c] = "closing"
  /\ pubEnd' = [pubEnd EXCEPT ![c] = "closed"]
  /\ conns' = Spliced(conns, c)
  /\ UNCHANGED <<subChan, subSock, wire, pubSock, routes>>

\* msg.option
Option(c) == Head(wire[c]).op

\* PubSocket._processMessage takes option message o of connection c.
Takes(c, op, arg) ==
  /\ pubEnd[c] = "open" /\ subEnd[c] \in {"open", "closed"}
  /\ wire[c] # <<>> /\ Option(c) = op /\ Head(wire[c]).arg = arg
  /\ wire' = [wire EXCEPT ![c] = Tail(@)]
  /\ UNCHANGED <<subChan, subSock, pubEnd, conns>>

OnExclude(c, x) ==
  /\ Takes(c, "exclude", x)
  /\ pubExcl' = [pubExcl EXCEPT ![c] = @ \cup {Ascii[x]}]
  /\ UNCHANGED <<list, longest, variants, null, routes>>

OnInclude(c, x) ==
  /\ Takes(c, "include", x)
  /\ pubExcl' = [pubExcl EXCEPT ![c] = @ \ {Ascii[x]}]
  /\ UNCHANGED <<list, longest, variants, null, routes>>

\* Mutant of Listed: a pattern is never found in the list.
ListedNot(c, p) == p \notin Pattern

Listed(c, p) == p \in ToSet(list[c])

\* A pattern that is in the list, or is not, needs no change.
OnIgnored(c, op, p) ==
  /\ op \in {"subscribe", "unsubscribe"} /\ Takes(c, op, p)
  /\ (op = "subscribe") <=> Listed(c, p)
  /\ UNCHANGED <<pubSock, routes>>

Longer(c, p) == IF Len(p) > longest[c] THEN Len(p) ELSE longest[c]

\* onsubscribe of the channel adds the socket to the pattern's entry.
OnSubscribe(c, p) ==
  LET n == Len(p)
      v == variants[c]
  IN /\ Takes(c, "subscribe", p) /\ ~Listed(c, p)
     /\ list' = [list EXCEPT ![c] = Append(@, p)]
     /\ null' = [null EXCEPT ![c] = @ \/ n = 0]
     /\ variants' = [variants EXCEPT ![c] =
          IF n = 0 THEN IF longest[c] # 0 THEN "true" ELSE v
          ELSE IF n <= longest[c] THEN v
          ELSE IF v = "null" THEN "false" ELSE "true"]
     /\ longest' = [longest EXCEPT ![c] = Longer(c, p)]
     /\ routes' = [routes EXCEPT ![p] = Append(@, c)]
     /\ UNCHANGED pubExcl

\* Mutant of MaxLen: the length of the last pattern.
MaxLenLast(q) == IF q = <<>> THEN -1 ELSE Len(Last(q))

MaxLen(q) == IF q = <<>> THEN -1 ELSE CHOOSE n \in {Len(q[i]) : i \in DOMAIN q} :
                                        \A i \in DOMAIN q : Len(q[i]) <= n

\* Mutant of Unrouted: the entry of a pattern that keeps other sockets stays.
UnroutedLast(c, p) == IF Len(routes[p]) = 1 THEN <<>> ELSE routes[p]

\* onunsubscribe of the channel takes the socket out of the pattern's entry.
Unrouted(c, p) == Spliced(routes[p], c)

\* The recalculation of the longest pattern, from the last pattern to the
\* first, reuses the variable `length': afterwards it is the first pattern's,
\* and when that is empty _nullsubscriptions is reset with it in the list.
OnUnsubscribe(c, p) ==
  LET rest == Spliced(list[c], p)
      recalc == Len(p) = longest[c] /\ variants[c] = "true"
      length == IF recalc /\ rest # <<>> THEN Len(rest[1]) ELSE Len(p)
      vary == \E i \in DOMAIN rest : \E j \in DOMAIN rest :
                i < j /\ Len(rest[i]) < Len(rest[j])
  IN /\ Takes(c, "unsubscribe", p) /\ Listed(c, p)
     /\ list' = [list EXCEPT ![c] = rest]
     /\ longest' = [longest EXCEPT ![c] = IF recalc THEN MaxLen(rest) ELSE @]
     /\ variants' = [variants EXCEPT ![c] =
          IF ~recalc THEN @ ELSE IF vary THEN "true" ELSE "false"]
     /\ null' = [null EXCEPT ![c] = @ /\ length # 0]
     /\ routes' = [routes EXCEPT ![p] = Unrouted(c, p)]
     /\ UNCHANGED pubExcl

-----------------------------------------------------------------------------
\* Mutant of Slice: a longer pattern list does not slice the message again.
SliceOnce(c, m, slice) ==
  IF slice = <<>> THEN SubSeq(m, 1, IF longest[c] < Len(m) THEN longest[c] ELSE Len(m))
  ELSE slice

\* The part of m the patterns of socket c are compared with, when slice is what
\* was used for the sockets before it.
Slice(c, m, slice) ==
  IF slice = <<>> \/ longest[c] > Len(slice)
  THEN SubSeq(m, 1, IF longest[c] < Len(m) THEN longest[c] ELSE Len(m))
  ELSE slice

\* How often the patterns of socket c put it in the result.
Hits(c, slice) ==
  Cardinality({i \in DOMAIN list[c] :
                 IsPrefix(list[c][i], slice) \/ IsPrefix(slice, list[c][i])})

\* One pass of rawPatternFilter's loop over the sockets.
FilterStep(acc, c, m) ==
  IF pubEnd[c] # "open" \/ (~null[c] /\ list[c] = <<>>) THEN acc
  ELSE IF null[c] THEN [acc EXCEPT !.times[c] = @ + 1]
  ELSE LET slice == Slice(c, m, acc.slice)
       IN [slice |-> slice, times |-> [acc.times EXCEPT ![c] = @ + Hits(c, slice)]]

\* rawPatternFilter: how often each socket is in the result for message m, once
\* the loop went from the last socket to the first.
Filter(m) ==
  LET after[i \in 0 .. Len(conns)] ==
        IF i = 0 THEN [slice |-> <<>>, times |-> [c \in Conn |-> 0]]
        ELSE FilterStep(after[i - 1], conns[Len(conns) + 1 - i], m)
  IN after[Len(conns)].times

-----------------------------------------------------------------------------
Call(a) ==
  \/ \E p \in Pattern : Subscribe(a, p) \/ Unsubscribe(a, p)
  \/ \E x \in Source : Exclude(a, x) \/ Include(a, x)

Process(c) ==
  \/ \E p \in Pattern :
       \/ OnSubscribe(c, p) \/ OnUnsubscribe(c, p)
       \/ \E op \in {"subscribe", "unsubscribe"} : OnIgnored(c, op, p)
  \/ \E x \in Source : OnExclude(c, x) \/ OnInclude(c, x)

Next ==
  \/ \E a \in Sub : Call(a)
  \/ \E c \in Conn :
       \/ Connect(c) \/ OnConnect(c) \/ SubClose(c)
       \/ Accept(c) \/ PubDestroy(c) \/ PubGone(c) \/ Process(c)

Spec == Init /\ [][Next]_vars
-----------------------------------------------------------------------------
Times(c, q) == Cardinality({i \in DOMAIN q : q[i] = c})

\* The pattern lists of the sockets and the routing table of the channel, two
\* copies kept by different handlers, agree for every open socket, so that the
\* assertions of onsubscribe and onunsubscribe hold.
RoutesAgree ==
  \A c \in Conn, p \in Pattern : pubEnd[c] = "open" =>
    Times(c, routes[p]) = (IF Listed(c, p) THEN 1 ELSE 0)

\* The length a message is cut to before it is compared covers every pattern of
\* the socket, and the shortcut for "all messages" is taken only for a socket
\* that asked for all.
LongestCovers ==
  \A c \in Conn :
    /\ \A i \in DOMAIN list[c] : Len(list[c][i]) <= longest[c]
    /\ null[c] => <<>> \in ToSet(list[c])

\* How often rawPatternFilter should pick socket c: once for each pattern the
\* message begins with or that begins with the message.
Asked(c, m) ==
  LET asked == {i \in DOMAIN list[c] : IsPrefix(list[c][i], m) \/ IsPrefix(m, list[c][i])}
  IN IF pubEnd[c] # "open" THEN 0 ELSE IF null[c] THEN 1 ELSE Cardinality(asked)

\* Sharing one slice of the message among all sockets does not change what is
\* picked: a socket is picked for its own patterns, whatever the other sockets
\* listen to, and one that is gone is not picked.
FilterExact == \A m \in Msg, c \in Conn : Filter(m)[c] = Asked(c, m)

\* No other source is read back as x is.
Alone(x) == \A y \in Source \ {x} : Ascii[y] # Ascii[x]

\* Once a connection has nothing under way, the publisher's end has the key of a
\* source exactly when the sub channel excludes it.  Sources that share a key
\* are beyond it: include of one takes away the exclusion of the other.
Settled(c) == subEnd[c] = "open" /\ pubEnd[c] = "open" /\ wire[c] = <<>>
ExclusionsInStep ==
  \A c \in Conn, x \in Source : Settled(c) /\ Alone(x) =>
    (Ascii[x] \in pubExcl[c] <=> x \in excl[Owner[c]])

\* "Subscribes to a specific message pattern": once a connection has nothing
\* under way, the publisher knows every pattern of the sub channel.
SubscriptionsInStep == \A c \in Conn : Settled(c) => subs[Owner[c]] \subseteq ToSet(list[c])
=============================================================================
