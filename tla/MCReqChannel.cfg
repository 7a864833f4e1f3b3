SPECIFICATION Spec
CONSTANTS
  r1 = r1
  r2 = r2
  r3 = r3
  s1 = s1
  s2 = s2
  Nil = Nil
  AckRange = 256
  Req <- ThreeReqs
  Sock <- TwoSocks
  MaxOut = 2
  MaxRejects = 2
  Units = 2
  Fd = {}
  Unix = {}
  Kinds = {"reply", "reject"}
  Faults = {"peer"}
SYMMETRY Interchange
INVARIANTS TypeOK AckAccounting NoAckExhaustion SocketNotForgotten WakeupGuaranteed
  NoIdleBacklog HeldOnce NoRequestLost ReplyCorrelation
CONSTRAINTS Clear TwoRejects
CHECK_DEADLOCK FALSE
