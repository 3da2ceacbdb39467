CONSTANTS
  r1 = r1
  r2 = r2
  r3 = r3
  p1 = p1
  q1 = q1
  q2 = q2
  e1 = e1
  e2 = e2
  Null = Null
  Request = {r1, r2}
  Page = {p1}
  Camera = {1, 2}
  Point = {q1}
  Event = {e1}
  OwnerOf <- OnePointOwnerOf
  EventOf <- OnePageEventOf
  MaxTime = 2
SYMMETRY RequestSymmetry
SPECIFICATION Spec
PROPERTY LastHeartbeatNeverGoesBack
