SPECIFICATION Spec
CONSTANTS
  a = a
  c1 = c1
  c2 = c2
  x = x
  y = y
  z = z
  kx = kx
  kyz = kyz
  Sub <- OneSub
  Conn <- TwoConns
  Owner <- OwnerA
  Pattern <- Lengths
  Source <- ThreeSources
  Ascii <- AsciiOf
  Msg <- Messages
  MaxWire = 2
  MaxCalls <- CallBound
CONSTRAINT Apart
SYMMETRY Interchange
INVARIANTS TypeOK RoutesAgree LongestCovers FilterExact ExclusionsInStep
CHECK_DEADLOCK FALSE
