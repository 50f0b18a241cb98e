CONSTANTS
  Names = {a, b}
  EmptyName = noname
  StackDepth = 16
  Sizes = {}
  Paths <- MCPaths
  MaxDirs = 3
  MaxFiles = 1
  MaxSymlinks = 2
  MaxDescriptors = 0
  MaxNodes = 5
  MaxFileSize = 0
  MaxPathLen = 2
  MaxRecording = 100
SPECIFICATION MCSpec
VIEW Tree
SYMMETRY Interchangeable
INVARIANTS
  NoDanglingEntry
  DirsFormForest
  FailedRenameChangesNothing
  RenameMovesOneEntry
