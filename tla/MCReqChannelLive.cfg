SPECIFICATION LiveSpec
CONSTANTS
  r1 = r1
  r2 = r2
  r3 = r3
  s1 = s1
  s2 = s2
  Nil = Nil
  AckRange = 256
  Req <- TwoReqs
  Sock <- TwoSocks
  MaxOut = 2
  MaxRejects = 2
  Units = 2
  Fd = {r1}
  Unix = {s1}
  Kinds = {"reply", "reject"}
  Faults = {"peer", "write"}
PROPERTIES ImplementsRequests EventuallySettled SocketComesBack JobTerminates
CONSTRAINT Clear
CHECK_DEADLOCK FALSE
