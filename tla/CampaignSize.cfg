CONSTANTS
  States <- MCStates
  Empty = empty
  Nothing = nothing
  Inputs = {w1}
  Traces <- MCTraces
  ErrorTraces <- MCErrorTraces
  TestCount = 1
  DashSize = TRUE
SPECIFICATION Spec
PROPERTIES
  SizeIsConsidered
