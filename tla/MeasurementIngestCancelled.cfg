CONSTANTS
  r1 = r1
  r2 = r2
  w1 = w1
  w2 = w2
  Null = Null
  Report = {r1, r2}
  Window = {w1, w2}
  MaxLength = 2
SPECIFICATION Spec
INVARIANT CycleOutlivesCancellation
CHECK_DEADLOCK FALSE
