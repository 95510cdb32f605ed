SPECIFICATION Spec
CONSTANTS
  Server = Server
  Co = {Server, c1, c2}
  Fds = {0, 1, 2}
  NoFd = NoFd
  NoCo = NoCo
  Room = 1
  MsgLen = 2
  Watched = {}
  PeerEnds = {"rst"}
  Signals = FALSE
  SetKinds = {"big"}
  OnConnected = {"send", "close", "send_other", "close_other"}
  OnReceive = {"send", "close", "send_other", "close_other"}
  OnDisconnected = {"send", "close", "send_other", "close_other"}
SYMMETRY Symmetry
INVARIANTS ConnectionConsistent NoCrash StatusTrue
CHECK_DEADLOCK FALSE
