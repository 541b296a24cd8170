CONSTANTS
  ByteBits = 6
  WordBytes = 2
  MMIO_START = 20
  MMIO_INPUT = 27
  MMIO_OUTPUT = 28
  MMIO_HALT = 29
  MEM_SIZE = 27
  INITIAL_CAPACITY = 2
  Files <- AnyFile
SPECIFICATION Spec
INVARIANTS ArraysHold OnlyBareOperationsCrash FetchesStored HandsOverProgram
           DecodesAsWritten BranchesReachLabels
CHECK_DEADLOCK FALSE
