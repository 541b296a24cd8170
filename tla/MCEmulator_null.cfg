CONSTANTS
  ByteBits = 6
  WordBytes = 2
  MEM_SIZE = 23
  MMIO_START = 19
  MMIO_INPUT = 20
  MMIO_OUTPUT = 21
  MMIO_HALT = 22
  Programs <- TwoInstructions
  Inputs <- Levels
  MayFail = FALSE
  MaxIssued = 5
SPECIFICATION Spec
INVARIANT NoNullRegister
CHECK_DEADLOCK FALSE
