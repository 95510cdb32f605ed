SPECIFICATION Spec
CONSTANTS
  Co = {c1, c2, c3}
  Fds = {f1}
  NoFd = NoFd
  NoCo = NoCo
  Leaked = Leaked
  Timeouts = {1, 2, 5}
  SharedFd = TRUE
  CloseInUse = TRUE
  PlainYield = TRUE
  HasFunc = TRUE
  WSize = 4
  IntHalf = 8
  MaxLag = 1
  MaxBack = 1
  Epoch = 2
  MaxTime = 4
SYMMETRY Symmetry
INVARIANTS SchedulerConsistent NoCrash TimeoutHonest
PROPERTIES IsEventLoop
