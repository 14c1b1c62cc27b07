CONSTANTS
  NumFiles = 2
  Batches = {b1, b2}
  MaxBatches = 1
  None = none
SPECIFICATION Spec
INVARIANTS TypeOK NoClobber WholeOrNothing CancelIsFinal
CHECK_DEADLOCK FALSE
