SPECIFICATION Spec
CONSTANTS
  MaxNode = 1
  MaxTask = 1
  MaxStamp = 2
  BATCH_OPS = 3
  MAX_PROBES_PER_NODE = 1
  Archives <- MCArchives
INVARIANTS
  NoOrphans
  IdsAreFresh
  TelemetryNeverClashes
