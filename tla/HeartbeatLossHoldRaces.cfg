CONSTANTS
  e1 = e1
  e2 = e2
  p1 = p1
  p2 = p2
  Null = Null
  Evaluator = {e1, e2}
  Page = {p1}
  HeartbeatTimeout = 1
  MaxDuration = 1
  MinDevices = 1
  ThresholdNum = 1
  ThresholdDen = 1
  MaxTime = 4
  MaxHolds = 2
SYMMETRY Symmetry
SPECIFICATION Spec
PROPERTY HistorySpec
