SPECIFICATION Spec
CONSTANTS
  Items = {i1, i2, i3}
  WSize = 5
  IsMs = TRUE
  TickMs = 2
  IntHalf = 4
  MinTimeout = 1
  MaxTimeout = 2
  MaxLag = 2
  MaxBack = 1
  Epoch = 2
  MaxTime = 10
SYMMETRY Symmetry
INVARIANTS WheelConsistent FiredDue NoDrop
PROPERTIES TakesAllDue
