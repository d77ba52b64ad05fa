SPECIFICATION Spec
CONSTANTS
  V4 <- MCV4
  V6 <- MCV6
  BlockLists <- MCBlockLists
  AllowLists <- MCAllowLists
  DynamicLists <- MCBlockLists
  Contents <- MCContents
  Choices <- MCChoices
  Hosts <- MCHosts
  Limits <- MCLimits
  MaxTime = 2
  None = None
INVARIANTS DriverHasLists GrantHolds
