SPECIFICATION Spec
CONSTANTS
  Cwd <- Root
  Disks <- Projects
  InputLists <- Commands
  Names = {"main", "f", "g"}
  Procs = {"p", "q"}
  Stem <- MCStem
  Says <- MCSays
  Entries <- MCEntries
  Orders <- MCOrders
  Identifiers = {"a", "b", "f", "T", "Maybe", "Outcome", "as", "link", "module", "header", "cfg"}
  Ints = {"1"}
  Rounds = 2
INVARIANTS
  LdTypeOK
  NoFileTwice
  SourcesLoadedOrReported
  OneImplementation
  BuildTypeOK
  VerdictIsOfTheFile
  WritesWhatItRead
  OperatorsBindAsDeclared
  PartsStandAlone
  ListsMoveOn
CHECK_DEADLOCK FALSE
