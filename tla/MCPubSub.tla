------------------------------- MODULE MCPubSub -------------------------------
(* Small instances of PubSub for TLC. *)
EXTENDS PubSub

CONSTANTS a, c1, c2, x, y, z, kx, kyz

OneSub    == {a}
TwoConns  == {c1, c2}
OwnerA    == [c \in Conn |-> a]
Lengths   == {<<>>, <<1>>, <<1, 2>>, <<2>>}
CallBound == [n \in 0 .. 2 |-> IF n = 2 THEN 3 ELSE 9]
Messages  == {<<1>>, <<1, 2, 1>>, <<1, 1>>, <<2>>}

\* Three sources, two of which are read back as one.
ThreeSources == {x, y, z}
AsciiOf      == [s \in Source |-> IF s = x THEN kx ELSE kyz]

\* No behaviour goes on with both patterns and exclusions: no handler looks at
\* the ones to change the others.
Told(ops)    == \E c \in Conn : \E i \in DOMAIN wire[c] : wire[c][i].op \in ops
NoPatterns   == /\ \A s \in Sub : subs[s] = {}
                /\ \A c \in Conn : keys[c] = {} /\ list[c] = <<>>
                /\ ~Told({"subscribe", "unsubscribe"})
NoExclusions == /\ \A s \in Sub : excl[s] = {}
                /\ \A c \in Conn : exkeys[c] = {} /\ pubExcl[c] = {}
                /\ ~Told({"exclude", "include"})
Apart        == NoPatterns \/ NoExclusions

\* The connections are interchangeable, and so are the sources of one key.
Interchange == Permutations(TwoConns) \cup Permutations({y, z})
=============================================================================
