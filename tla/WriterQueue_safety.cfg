SPECIFICATION Spec
CONSTANTS
  Jobs = {j1, j2, j3}
  NoJob = NoJob
  WRITER_QUEUE = 2
  BATCH_OPS = 2
SYMMETRY Symmetry
INVARIANTS
  TypeOK
  NoStraddle
  AnswerIsTruth
  CommitOrder
  Accounting
PROPERTIES
  ImplementsAtomicWrites
