CONSTANTS
  ShortFileHash <- MCShortFileHash
  NoFile = nofile
  FstReports <- MCReports
  FstAddrs <- MCFstAddrs
  SndAddrs = {c}
  Schedulers = {"Queue", "Fast"}
  InitialInputs = 1
  TestCount = 5
  Ms = {0, 3}
SPECIFICATION Spec
INVARIANTS
  TypeOK
  CountedIffInSeed
  SeedsCoverSomethingNew
  QueueIsFair
  CoverageIsOfExecutedLines
