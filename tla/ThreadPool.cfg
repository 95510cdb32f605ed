SPECIFICATION FairSpec
CONSTANTS
  Workers = {w1, w2}
  Producers = {p1, p2}
  Main = main
  Tasks = {k1, k2, k3}
  NoTask = NoTask
  NoThread = NoThread
  Queue_max_size = 2
  MayStop = TRUE
  MaxSpurious = 1
INVARIANTS PoolConsistent NoLostWakeup TaskOnce
PROPERTIES StopReturns TaskRuns
CHECK_DEADLOCK FALSE
