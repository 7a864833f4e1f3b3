SPECIFICATION LiveSpec
CONSTANTS
  small = small
  large = large
  Nil = Nil
  Msg <- Messages
  Size <- Payloads
  From <- Senders
  Carrying <- WithFd
  Base = 3
  Types = {"unix", "tcp", "mem"}
  Cap = 3

INVARIANTS TypeOK InOrder NoStall
PROPERTIES EventuallyDelivered EndsTogether
CHECK_DEADLOCK FALSE
