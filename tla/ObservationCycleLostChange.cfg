CONSTANTS
  c1 = c1
  c2 = c2
  a1 = a1
  s1 = s1
  s2 = s2
  RequestProposalDelivery = RequestProposalDelivery
  RecordFeedbackValues = RecordFeedbackValues
  Null = Null
  Cycle = {c1, c2}
  Anchor = {a1}
  Sensors = {s1, s2}
  Procedure = {RequestProposalDelivery, RecordFeedbackValues}
  Window = 1
  HistoryWindow = 3
  MaxTime = 3
SYMMETRY Symmetry
SPECIFICATION Spec
INVARIANT ChangesReported
CHECK_DEADLOCK FALSE
