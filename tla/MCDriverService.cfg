SPECIFICATION FairSpec
CONSTANTS
  Builds <- MCBuilds
  MaxRetries = 2
INVARIANTS ServiceTypeOK OpenDeviceIsOurs ConnectedUnlessInherited CleanExitLeavesNothing
PROPERTIES IpFilterLeftAlone OperationsEnd
