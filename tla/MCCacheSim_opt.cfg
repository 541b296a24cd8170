CONSTANTS
  Numbers = {1, 2, 8}
  LineSizes = {2}
  MaxAssoc = 2
  MaxSize <- SmallSizes
  READ_BATCH_SIZE = 5
  INITIAL_TRACE_CAPACITY = 5
  Addresses = {0, 3, 4, 8}
  MaxTraces = 5
SPECIFICATION Spec
INVARIANT OptimalInEverySet
CHECK_DEADLOCK FALSE
