SPECIFICATION LiveSpec
CONSTANTS
  r1 = r1
  r2 = r2
  r3 = r3
  Nil = Nil
  Req <- Requests
  MaxOut = 2
  Setup <- Recvs
  Answers <- Kinds
  Options = {"none", "keepalive", "join"}
  MaxPid = 2
INVARIANTS TypeOK SettledOnce
PROPERTIES NoWaitForDead KilledForGood
CHECK_DEADLOCK FALSE
