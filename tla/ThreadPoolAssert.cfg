SPECIFICATION Spec
CONSTANTS
  Workers = {w1}
  Producers = {p1}
  Main = main
  Tasks = {k1, k2}
  NoTask = NoTask
  NoThread = NoThread
  Queue_max_size = 1
  MayStop = TRUE
  MaxSpurious = 0
INVARIANTS WaitAssert
CHECK_DEADLOCK FALSE
