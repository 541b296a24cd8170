CONSTANTS
  c1 = c1
  c2 = c2
  Clients = {c1, c2}
  GpioErrors <- NoGpioErrors
  MaxEdges = 3
SPECIFICATION Spec
INVARIANT TotalStepBudget
