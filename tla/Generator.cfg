CONSTANTS
  MaxName = 3
  Names <- MCNames
  EmptyName = noname
  StackDepth = 100
  Sizes = {0, 1}
  WeightsSet <- MCWeightsSet
  MaxDescriptors = 1
  MaxFileSize = 1
  MaxRecording = 100
SPECIFICATION MCSpec
VIEW Tree
CHECK_DEADLOCK FALSE
INVARIANTS
  UnwrapsFailOnlyWithoutWeights
  AlivePathsLeadToTheirNodes
PROPERTIES
  AppendsExactlyOne
