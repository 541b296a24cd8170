CONSTANTS
  c1 = c1
  Clients = {c1}
  GpioErrors <- EIO
  MaxEdges = 4
SPECIFICATION FairSpec
INVARIANTS TypeOK StepBudget DelayMeansRunning
PROPERTY NoLostWakeup
