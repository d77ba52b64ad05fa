SPECIFICATION FairSpec
CONSTANTS
  s1 = s1  s2 = s2
  r1 = r1  r2 = r2
  n1 = n1  n2 = n2  n3 = n3
  Senders <- MCSenders
  Irps <- MCIrps
  Notes <- MCNotes
  Capacity = 2
  None = None
INVARIANTS TypeOK QueueBounded IrpHeldOnce NoteHeldOnce BoundedOvertaking
PROPERTIES StoredIsRead CancelEnds ChannelSpec
