SPECIFICATION LowSpec
CONSTANTS
  Programs <- MCPrograms
INVARIANT RejectedForAReason
CHECK_DEADLOCK FALSE
