SPECIFICATION LiveSpec
CONSTANTS
  s1 = s1
  s2 = s2
  MaxMsg = 2
  Sock <- Sockets
  Size = 2
  MaxHits <- Hits
PROPERTY SentToAll
CHECK_DEADLOCK FALSE
