SPECIFICATION Spec
CONSTANTS
  Nodes = {n1}
  Sessions = {s1, s2}
  None = None
  MaxToken = 1
  MaxEpoch = 2
PROPERTIES
  OperationsFinish
  RetiredEnds
