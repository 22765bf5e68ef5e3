SPECIFICATION Spec
CONSTANTS
  Nodes = {n1, n2}
  Sessions = {s1, s2}
  None = None
  MaxToken = 2
  MaxEpoch = 2
SYMMETRY Symmetry
INVARIANTS
  ReportsStayEntitled
  OneReporterPerNode
  ServedMeansOnline
  OnlineMeansEntitled
