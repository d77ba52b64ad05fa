SPECIFICATION Spec
CONSTANTS
  MaxPort = 3
  HttpPorts <- MCHttpPorts
  Profiles <- MCProfiles
  MaxChoices = 2
  MaxDamage = 2
  None = None
INVARIANT BackupIsUsed
