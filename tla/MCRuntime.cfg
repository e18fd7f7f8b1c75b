SPECIFICATION Spec
CONSTANTS
  Builders = {b1, b2, b3}
  MaxClock = 2
  Initial <- LeftBehind
  LongMax = 127
  SizeMax = 255
  ElemSize = 8
  Words = {1}
  Newline = 10
  Lengths = {1, 11, 12, 124}
  Inputs <- StandardInputs
  MaxHandles = 3
  MaxCalls = 4
SYMMETRY Symmetry
INVARIANTS
  RtTypeOK
  NeverLinksTornObject
  CurrentUnlessRacedOrTied
  LibTypeOK
  OneOwnerPerBlock
  SpareWordsZero
PROPERTIES
  IsArrayStore
CHECK_DEADLOCK FALSE
