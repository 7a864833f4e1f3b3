----------------------------- MODULE MCReqChannel -----------------------------
(* Small instances of ReqChannel for TLC. *)
EXTENDS ReqChannel, TLC

CONSTANTS r1, r2, r3, s1, s2

TwoReqs   == {r1, r2}
ThreeReqs == {r1, r2, r3}
TwoSocks  == {s1, s2}

\* Requests are interchangeable, and so are connections, when no request
\* carries a descriptor.
Interchange == Permutations(Req) \cup Permutations(Sock)

\* Explores no further once something is blurred: the properties of the run that
\* say "while nothing is blurred" promise nothing of the states beyond.
Clear == ~blurred

\* At most two rejects in a behaviour: both of one request (the last reject), or
\* one each of two (the side queue with two requests).
TwoRejects == MapThenSumSet(LAMBDA r : rejects[r], Req) <= 2
=============================================================================
