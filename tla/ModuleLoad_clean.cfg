CONSTANTS MaxLoads = 3
SPECIFICATION Spec
INVARIANT CleanWhenUnloaded
CHECK_DEADLOCK FALSE
