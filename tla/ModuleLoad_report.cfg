CONSTANTS MaxLoads = 3
SPECIFICATION Spec
INVARIANT InitReportsFailure
CHECK_DEADLOCK FALSE
