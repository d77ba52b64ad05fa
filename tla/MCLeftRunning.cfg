SPECIFICATION Spec
CONSTANTS
  Builds <- MCBuilds
  MaxRetries = 2
INVARIANTS StoppedBeforeStart
