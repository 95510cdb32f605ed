SPECIFICATION FairSpec
CONSTANTS
  Latches = {"thread", "log"}
  ThreadL = "thread"
  LogL = "log"
  LatchUsers = {"caller", "made"}
  Caller = "caller"
  Made = "made"
  MaxSpurious = 1
  KSMALLBUFFER = 16
  kMaxNumericSize = 6
  IntHalf = 128
  Fronts = {f1, f2}
  Strings = {13}
  Numbers <- LoggedNumbers
  Doubles = {4}
  MaxMenu = 1
  MaxInserts = 1
  MaxBuffers = 2
  Every_n_flush = 6
  Null = Null
  MayStop = TRUE
  MaxLines = 3
INVARIANTS LogConsistent InOrder InBounds ConvertRight OnceStarted
PROPERTIES Written OutputReturns
CHECK_DEADLOCK FALSE
