SPECIFICATION PassSpec
CONSTANTS
  p = p
  a = a
  b = b
  v = v
  h = a
  g = b
  o = p
  Locals = {p, a, b, v}
  NBlocks = 3
  Bodies <- MCBodies
  FactBodies <- MCFactBodies
  LocalOrder <- MCOrder
  MaxAllocs = 4
  Unset = Unset
  PathBound = 24
INVARIANTS
  CheckTypeOK
  FactsOfAllPaths
  BorrowVerdict
  AcceptedFactsHold
  DropTypeOK
  FreesOnlyAssigned
  UnsharedFreedOnce
  LiveOwnersReleased
PROPERTY
  FactChecksEnd
CHECK_DEADLOCK FALSE
