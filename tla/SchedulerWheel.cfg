SPECIFICATION FairSpec
CONSTANTS
  Co = {c1, c2}
  Fds = {f1}
  NoFd = NoFd
  NoCo = NoCo
  Leaked = Leaked
  Timeouts = {0, 1, 4, 5}
  SharedFd = FALSE
  CloseInUse = FALSE
  PlainYield = FALSE
  HasFunc = FALSE
  WSize = 4
  IntHalf = 8
  MaxLag = 1
  MaxBack = 0
  Epoch = 1
  MaxTime = 6
INVARIANTS Registered
PROPERTIES UsesWheel TimerResumes EndedFreed
CHECK_DEADLOCK FALSE
