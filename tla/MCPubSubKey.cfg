SPECIFICATION Spec
CONSTANTS
  a = a
  c1 = c1
  c2 = c2
  x = x
  y = y
  z = z
  kx = kx
  kyz = kyz
  Sub <- OneSub
  Conn <- TwoConns
  Owner <- OwnerA
  Pattern <- Lengths
  Source = {}
  Ascii <- AsciiOf
  Msg <- Messages
  MaxWire = 1
  MaxCalls <- CallBound
INVARIANT SubscriptionsInStep
CHECK_DEADLOCK FALSE
