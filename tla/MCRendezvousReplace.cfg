SPECIFICATION Spec
CONSTANTS
  Nodes = {n1, n2, n3}
  NumSlots = 2
  MaxGen = 1
  Shapes = {sh1}
  None = None
  MaxNodes = 3
  MaxRegistrations = 3
  Policies <- OneMayDiffer
SYMMETRY Symmetry
INVARIANTS
  NoMixedGenerations
  RunsAsAssigned
  ContextIsOwn
PROPERTY
  ImplementsLog
CHECK_DEADLOCK FALSE
