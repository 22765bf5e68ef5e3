SPECIFICATION Spec
CONSTANTS
  Jobs = {j1, j2}
  NoJob = NoJob
  WRITER_QUEUE = 1
  BATCH_OPS = 2
PROPERTIES
  EveryCallReturns
  CloseDrains
