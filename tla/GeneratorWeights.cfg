CONSTANTS
  MaxName = 3
  Names <- MCNames
  EmptyName = noname
  StackDepth = 100
  Sizes = {0, 1}
  WeightsSet <- MCNoWriteWeights
  MaxDescriptors = 1
  MaxFileSize = 1
  MaxRecording = 100
SPECIFICATION MCSpec
CHECK_DEADLOCK FALSE
INVARIANTS
  WeightsAreRespected
