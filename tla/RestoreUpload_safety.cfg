SPECIFICATION Spec
CONSTANTS
  Uploads = {u1, u2}
  Files = {f1, f2}
  Original = Original
  None = None
  Total = 5
  CHUNK = 2
  MaxFaults = 2
SYMMETRY Symmetry
INVARIANTS
  CancelHolds
  RetryWorks
CHECK_DEADLOCK FALSE
