CONSTANTS
  c1 = c1
  c2 = c2
  q1 = q1
  r1 = r1
  p1 = p1
  p2 = p2
  Camera = {c1, c2}
  Qr = {q1}
  Point = {p1, p2}
  Node = {p1}
  Route = {r1}
  SensorsOf <- ThreeAnchors
  Window = 1
  MaxHold = 3
  OccupancyTrendSpan = 2
  MaxAhead = 1
  MaxMeasurements = 3
  MaxTime = 4
SYMMETRY Symmetry
SPECIFICATION Spec
INVARIANTS
  TypeOK
  ConfidenceTellsLastMeasurement
  ScoresHaveSubstance
  OccupancyDeltaIsCurrent
PROPERTIES
  OutageIsNoSensorChange
  ScoresOnlyAge
  LateReportDoesNotReplace
