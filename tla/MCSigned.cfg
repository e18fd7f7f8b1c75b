CONSTANTS
  WordBits = 7
  MaxLocals = 60
  Shapes <- MCShapes
  Actions <- MCActions
  Programs <- MCPrograms
SPECIFICATION ExprSpec
INVARIANT ComparisonsFollowTypes
CHECK_DEADLOCK FALSE
