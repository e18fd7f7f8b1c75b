SPECIFICATION RunSpec
CONSTANTS
  x = x
  y = y
  Locals = {x, y}
  NBlocks = 3
  Bodies <- MCBodies
  PathBound = 20
INVARIANTS
  TypeOK
  QueueMatchesFlags
  AcceptedRunsClean
PROPERTIES
  InStatesDescend
  Terminates
  DecidesExactly
CHECK_DEADLOCK FALSE
