SPECIFICATION DriverSpec
CONSTANTS
  s1 = s1  r1 = r1
  n1 = n1  n2 = n2  n3 = n3  n4 = n4
  x = x  y = y  z = z  p80 = p80  p1 = p1
  Senders <- MCSenders
  Irps <- VerdictIrps
  Notes <- VerdictNotes
  Capacity = 1
  None = None
  Conns <- VerdictConns
  HttpPorts <- MCHttpPorts
  Contents <- VerdictContents
  FlagChoices <- VerdictFlags
  MaxSessions = 1
SYMMETRY VerdictSymmetry
INVARIANTS AllowListWinsUnlessExempt
