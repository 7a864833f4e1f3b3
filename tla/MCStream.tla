------------------------------- MODULE MCStream -------------------------------
(* Small instances of Stream for TLC: with Base = 3 a frame has at most 8     *)
(* bytes, 4 of them payload.                                                  *)
EXTENDS Stream, TLC
CONSTANTS small, large

Messages == {small, large}
Payloads == small :> 0 @@ large :> 8
WithFd   == {large}
Senders  == [t \in Types |-> small :> (IF t = "mem" THEN "b" ELSE "a") @@ large :> "a"]
=============================================================================
