SPECIFICATION LdSpec
CONSTANTS
  Cwd <- Root
  Disks <- Projects
  InputLists <- Commands
  Names = {"main", "f", "g"}
INVARIANT DuplicateExportsRejected
CHECK_DEADLOCK FALSE
