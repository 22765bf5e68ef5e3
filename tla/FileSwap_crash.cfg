SPECIFICATION Spec
CONSTANTS
  Readers = {r1}
  MaxVersion = 3
  MaxFaults = 0
  MaxCrashes = 1
SYMMETRY Symmetry
INVARIANTS
  ServedOnDisk
