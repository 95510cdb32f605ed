SPECIFICATION FairSpec
CONSTANTS
  Latches = {"thread", "log"}
  ThreadL = "thread"
  LogL = "log"
  LatchUsers = {"caller", "made"}
  Caller = "caller"
  Made = "made"
  MaxSpurious = 1
  KSMALLBUFFER = 16
  kMaxNumericSize = 6
  IntHalf = 128
  Fronts = {f1, f2}
  Strings = {13}
  Numbers <- LoggedNumbers
  Doubles = {4}
  MaxMenu = 0
  MaxInserts = 0
  MaxBuffers = 3
  Every_n_flush = 4
  Null = Null
  MayStop = FALSE
  MaxLines = 2
PROPERTIES AlwaysWritten
CHECK_DEADLOCK FALSE
