SPECIFICATION DropSpec
CONSTANTS
  p = p
  v = v
  Unset = Unset
  a = a
  b = b
  Locals = {p, a, b, v}
  NBlocks = 3
  Bodies <- MCBodies
  LocalOrder <- MCOrder
  MaxAllocs = 4
  PathBound = 16
INVARIANT NoHeapFault
CHECK_DEADLOCK FALSE
