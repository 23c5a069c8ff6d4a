SPECIFICATION Spec
CONSTANTS
  Nodes = {n1, n2, n3}
  NumSlots = 2
  MaxGen = 2
  Shapes = {sh1, sh2}
  None = None
  MaxRegistrations = 4
  Managers = {m1, m2}
  PlanIds = {p1, p2}
  Limits = {2, 3}
SYMMETRY Symmetry
INVARIANTS
  CommittedGenerationsHavePlans
  ReturnedIsCommitted
  QuarantineIsForever
PROPERTY
  ImplementsLog
CHECK_DEADLOCK FALSE
