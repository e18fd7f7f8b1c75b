SPECIFICATION Spec
CONSTANTS
  Programs <- MCPrograms
  WordBits = 7
  MaxLocals = 60
INVARIANTS
  LowTypeOK
  GraphFollowsSource
  AcceptedActionsReturn
  ExprTypeOK
  RunsAsWritten
  AcceptedIsSound
  SoundIsAccepted
PROPERTIES
  NothingClobbered
CHECK_DEADLOCK FALSE
