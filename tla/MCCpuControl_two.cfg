CONSTANTS
  c1 = c1
  c2 = c2
  Clients = {c1, c2}
  GpioErrors <- NoGpioErrors
  MaxEdges = 3
SYMMETRY Symmetry
SPECIFICATION Spec
INVARIANTS StepBudget BudgetInv PauseCoherent PauseInv SleepersHaveWaker
