SPECIFICATION LowSpec
CONSTANTS
  Programs <- MCPrograms
INVARIANT CountedLoopsAdvance
CHECK_DEADLOCK FALSE
