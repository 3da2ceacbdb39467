CONSTANTS
  e1 = e1
  e2 = e2
  p1 = p1
  p2 = p2
  Null = Null
  Evaluator = {e1}
  Page = {p1}
  HeartbeatTimeout = 1
  MaxDuration = 4
  MinDevices = 1
  ThresholdNum = 1
  ThresholdDen = 1
  MaxTime = 6
  MaxHolds = 2
SYMMETRY Symmetry
SPECIFICATION Spec
INVARIANT HeldPagesFellSilentBeforeHold
