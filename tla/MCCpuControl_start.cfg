CONSTANTS
  c1 = c1
  Clients = {c1}
  GpioErrors <- NoGpioErrors
  MaxEdges = 1
SPECIFICATION FairSpec
PROPERTY SwitchStartsExecution
