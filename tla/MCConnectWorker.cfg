SPECIFICATION LiveSpec
CONSTANTS
  s1 = s1
  s2 = s2
  s3 = s3
  Sock <- ThreeSocks
  Tcp <- TcpSocks
  Slots = 2
  AttemptsPerSlot = 1
  MaxAttempts = 2
INVARIANTS TypeOK OneAttempt LoopForWaiting FreshDescriptor
PROPERTIES EventuallyDecided
CHECK_DEADLOCK FALSE
