CONSTANTS
  r1 = r1
  r2 = r2
  r3 = r3
  p1 = p1
  q1 = q1
  q2 = q2
  e1 = e1
  e2 = e2
  Null = Null
  Request = {r1, r2}
  Page = {p1}
  Camera = {1, 2, 3}
  Point = {q1, q2}
  Event = {e1, e2}
  OwnerOf <- OnePageOwnerOf
  EventOf <- CascadeEventOf
  MaxTime = 1
SYMMETRY Symmetry
SPECIFICATION Spec
INVARIANT RegistrationsAgree
PROPERTY RegistrySpec
