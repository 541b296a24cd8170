CONSTANTS
  Numbers = {0, 1, 2, 3, 4, 8}
  LineSizes = {2}
  MaxAssoc = 2
  MaxSize <- SmallSizes
  READ_BATCH_SIZE = 2
  INITIAL_TRACE_CAPACITY = 2
  Addresses = {0, 3, 5, 8}
  MaxTraces = 6
SPECIFICATION Spec
CONSTRAINT ShorterForThree
INVARIANTS AcceptedIsUsable TracesHaveNoGap ReportAddsUp SetsWellFormed LruKeepsRecent NoLevelBeatsOptimal OptimalInOneSet
CHECK_DEADLOCK FALSE
