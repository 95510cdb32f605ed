SPECIFICATION FairSpec
CONSTANTS
  Server = Server
  Co = {Server, c1, c2}
  Fds = {0, 1, 2}
  NoFd = NoFd
  NoCo = NoCo
  Room = 1
  MsgLen = 2
  Watched = {}
  PeerEnds = {"fin"}
  Signals = TRUE
  SetKinds = {}
  OnConnected = {"send"}
  OnReceive = {"close", "close_other"}
  OnDisconnected = {"close_other"}
PROPERTIES ServerAccepts CloseSeen PeerCloseSeen
CHECK_DEADLOCK FALSE
