CONSTANTS
  Names = {0, 1, 2, 3, 4}
  EmptyName = noname
  StackDepth = 100
  Sizes = {1}
  Configurations <- MCConfigurations
SPECIFICATION Spec
CHECK_DEADLOCK FALSE
INVARIANTS
  WorkloadsReplayToThemselves
  PanicsOnlyWithoutWeights
  LinksNeverLoop
  SomeEditSucceeds
PROPERTIES
  EditsOneOperation
