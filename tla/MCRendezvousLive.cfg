SPECIFICATION FairSpec
CONSTANTS
  Nodes = {n1, n2}
  Shapes = {sh1}
  None = None
PROPERTIES
  AssignedNodeSettles
  ClosedRunDrains
  OldWorkersStop
CHECK_DEADLOCK FALSE
