------------------------------- MODULE MCChannel -------------------------------
(* A small instance of Channel for TLC. *)
EXTENDS Channel

CONSTANTS s1, s2, l1, l2, l3

TwoSocks == {s1, s2}
NoFdSocks  == {s1}
MemSocks == {s2}
WatchedSocks == {s2}
Listeners == {l1, l2, l3}
UnixListeners == {l1}
MemListeners == {l2}
HeardListeners == {l1, l2}
=============================================================================
