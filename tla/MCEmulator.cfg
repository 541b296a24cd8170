CONSTANTS
  ByteBits = 6
  WordBytes = 2
  MEM_SIZE = 28
  MMIO_START = 24
  MMIO_INPUT = 25
  MMIO_OUTPUT = 26
  MMIO_HALT = 27
  Programs <- AllPrograms
  Inputs <- LevelsAndError
  MayFail = TRUE
  MaxIssued = 5
SPECIFICATION Spec
INVARIANTS TypeOK DriverClientAgree AccessInBounds BranchesFollowCompare
PROPERTY ImplementsMachine
CHECK_DEADLOCK FALSE
