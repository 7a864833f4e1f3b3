SPECIFICATION Spec
CONSTANTS
  s1 = s1
  s2 = s2
  l1 = l1
  l2 = l2
  l3 = l3
  Sock <- TwoSocks
  NoFd <- NoFdSocks
  MemSock <- MemSocks
  Watched <- WatchedSocks
  Listener <- Listeners
  Unix <- UnixListeners
  Mem <- MemListeners
  Heard <- HeardListeners
INVARIANT CompletelyClosed
CHECK_DEADLOCK FALSE
