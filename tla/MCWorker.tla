------------------------------- MODULE MCWorker -------------------------------
(* A small instance of Worker for TLC: one request handles all it may be      *)
(* told, one has no handler for an ERROR.                                     *)
EXTENDS Worker
CONSTANTS r1, r2, r3

Requests == {r1, r2, r3}
Ok       == <<"add", <<"ok", 1>>>>
Failed   == <<"add", <<"ERROR", 0>>>>
Recvs    == [r \in Req |->
  IF r = r2 THEN << Failed, <<"clear">>, <<"add", <<"ok", 0>>>>, <<"add", <<"REJECT", 0>>>> >>
  ELSE << <<"add", <<"", 0>>>>, Ok, Failed, <<"remove", <<"", 0>>>> >>]
Kinds    == {<<"ok", 1>>, <<"ERROR", 2>>}
=============================================================================
