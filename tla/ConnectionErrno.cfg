SPECIFICATION FairSpec
CONSTANTS
  Server = Server
  Co = {Server, c1}
  Fds = {0, 1}
  NoFd = NoFd
  NoCo = NoCo
  Room = 1
  MsgLen = 2
  Watched = {}
  PeerEnds = {"fin"}
  Signals = FALSE
  SetKinds = {}
  OnConnected = {"send", "close"}
  OnReceive = {"send", "close"}
  OnDisconnected = {"send", "close"}
PROPERTIES DisconnectCalledBack
CHECK_DEADLOCK FALSE
