------------------------------ MODULE MCPubQueue ------------------------------
(* A small instance of PubQueue for TLC: one of two sockets may be picked     *)
(* twice by the filter.                                                       *)
EXTENDS PubQueue
CONSTANTS s1, s2

Sockets == {s1, s2}
Hits    == s1 :> 2 @@ s2 :> 1
=============================================================================
