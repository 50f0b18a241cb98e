CONSTANTS
  Names <- MCNames
  EmptyName = noname
  StackDepth = 16
  Sizes = {1}
  BufferSize = 2
  FirstFree = 3
  Responses <- MCResponses
  Testcases <- MCTestcases
  DashDiffs = {{}, {changed}}
  Crash = crash
SPECIFICATION Spec
INVARIANTS
  BugcaseIsPartOfOriginal
  ReducedShowsTheOriginalDifference
  DescriptorsActOnTheirFiles
  FirstDifferenceIsReal
PROPERTIES
  VariationsAreKept
