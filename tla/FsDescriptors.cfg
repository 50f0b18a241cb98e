CONSTANTS
  Names = {a, b}
  EmptyName = noname
  StackDepth = 20
  Sizes = {0, 1, 2}
  Paths <- MCPaths
  MaxDirs = 1
  MaxFiles = 2
  MaxSymlinks = 1
  MaxDescriptors = 3
  MaxNodes = 4
  MaxFileSize = 2
  MaxPathLen = 1
  MaxRecording = 100
SPECIFICATION MCSpec
VIEW Tree
SYMMETRY Interchangeable
INVARIANTS
  TypeOK
  DescriptorsConsistent
  NoCallPanics
  ReplayRebuildsTree
