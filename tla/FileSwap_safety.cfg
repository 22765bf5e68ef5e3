SPECIFICATION Spec
CONSTANTS
  Readers = {r1, r2}
  MaxVersion = 3
  MaxFaults = 2
  MaxCrashes = 2
SYMMETRY Symmetry
INVARIANTS
  ReadersSeeLive
  HandlesAgree
  FailureKeepsOriginal
  LockCoversHandles
  SwitchKeepsServed
