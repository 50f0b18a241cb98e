CONSTANTS
  States <- MCShapes
  Empty = empty
  Nothing = nothing
  Inputs = {w1, w2}
  Traces <- MCTraces
  ErrorTraces <- MCErrorTraces
  TestCount = 2
  DashSize = FALSE
SPECIFICATION Spec
INVARIANTS
  CleanStart
  ComparesOneTest
  PanicIsThisRuns
  RecoversFromPanics
PROPERTIES
  VerdictsAreSaved
  CampaignEnds
