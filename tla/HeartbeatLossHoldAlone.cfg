CONSTANTS
  e1 = e1
  e2 = e2
  p1 = p1
  p2 = p2
  Null = Null
  Evaluator = {e1}
  Page = {p1, p2}
  HeartbeatTimeout = 1
  MaxDuration = 2
  MinDevices = 1
  ThresholdNum = 3
  ThresholdDen = 4
  MaxTime = 5
  MaxHolds = 2
SYMMETRY Symmetry
SPECIFICATION Spec
INVARIANTS
  TypeOK
  SilentPageDisconnected
  SuspicionHolds
  SuspectedPagesHeld
