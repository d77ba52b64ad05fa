SPECIFICATION Spec
CONSTANTS
  allowed = allowed  blocked = blocked  sourceports = sourceports
  rangeslock = rangeslock  sourceportslock = sourceportslock
  t1 = t1  t2 = t2  k1 = k1  k2 = k2
  a1 = a1  a2 = a2  a3 = a3  a4 = a4
  w1 = w1  w2 = w2  q1 = q1  q2 = q2
  Lists <- MCLists
  RangeLists <- MCRangeLists
  Locks <- MCLocks
  LockOf <- MCLockOf
  After <- MCAfter
  Tables <- MCTables
  Length <- MCLength
  Covers <- MCCovers
  Keys <- MCKeys
  Arrays <- MCArrays
  Writers <- MCWriters
  Readers <- MCReaders
  None = None
SYMMETRY MCSymmetry
INVARIANTS TypeOK SearchInBounds ArrayHeldOnce LabelHasItsId
PROPERTIES StoreSpec
