SPECIFICATION LiveSpec
CONSTANTS
  s1 = s1
  s2 = s2
  MaxMsg = 3
  Sock <- Sockets
  Size = 2
  MaxHits <- Hits
INVARIANTS TypeOK InOrder
PROPERTY EventuallyProcessed
CHECK_DEADLOCK FALSE
