CONSTANTS
  c1 = c1
  c2 = c2
  Null = Null
  Cycle = {c1, c2}
  Routes = 2
  Edge = {1}
  Composable <- Scores
  Changing = {1}
  Window = 1
  HourLength = 2
  BucketWidth = 2
  MinSamples = 2
  MinSpan = 2
  HighRank <- High
  LowerRank <- Lower
  UpperRank <- Upper
  MaxTime = 4
SYMMETRY Symmetry
SPECIFICATION Spec
INVARIANTS
  TypeOK
  RowsAggregateSnapshots
  SummaryIsOfSamples
  FreeFlowIsOfSamples
  EtaIsSlopeOfSamples
  EstablishedAfterChange
  NoDeadlock
CHECK_DEADLOCK FALSE
