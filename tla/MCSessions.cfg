SPECIFICATION FairDriverSpec
CONSTANTS
  s1 = s1  r1 = r1
  n1 = n1  n2 = n2  n3 = n3  n4 = n4
  x = x  y = y  z = z  p80 = p80  p1 = p1
  Senders <- MCSenders
  Irps <- SessionIrps
  Notes <- SessionNotes
  Capacity = 2
  None = None
  Conns <- SessionConns
  HttpPorts <- MCHttpPorts
  Contents <- SessionContents
  FlagChoices <- SessionFlags
  MaxSessions = 2
INVARIANTS DriverTypeOK NoUseAfterUnload FilterOffWithoutClient StaleBounded
PROPERTIES QueueSpec DeviceIsFreed
