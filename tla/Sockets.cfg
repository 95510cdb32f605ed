SPECIFICATION Spec
CONSTANTS
  Co = {c1, c2}
  Fds = {0, 1}
  NoFd = NoFd
  NoCo = NoCo
  Senders = {c1}
  Receivers = {c2}
  Room = 1
  MsgLen = 3
  Watched = {0, 1}
  PeerEnds = {"fin", "rst"}
  Signals = TRUE
INVARIANTS SocketsConsistent StaysRegistered Contiguous ConnectTrue
CHECK_DEADLOCK FALSE
PROPERTIES CallReturns
