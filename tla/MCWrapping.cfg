SPECIFICATION FmtSpec
CONSTANTS
  Names = {"a", "b", "f", "T", "Maybe", "Outcome", "as", "link", "module", "header", "cfg"}
  Ints = {"1"}
  Strings <- MCStrings
  Rounds = 1
  Originals <- Bindings
INVARIANT
  WrappingIsHarmless
CHECK_DEADLOCK FALSE
