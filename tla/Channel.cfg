SPECIFICATION FairSpec
CONSTANTS
  Co = {c1, c2, c3}
  Cap = 1
  Values = {v1, v2}
  None = None
  Pending = Pending
  Closed = Closed
INVARIANTS ChannelConsistent NoLostWakeup
PROPERTIES RefinesFifo ReadyRuns CloseReturns
