CONSTANTS
  Instances = 2
  TestCount = 2
  Ports = {p1, p2}
  NoPort = noport
  MaxUnread = 3
SPECIFICATION MCSpec
INVARIANTS
  EndsForAReason
  SharedMachineIsDoomed
PROPERTIES
  StatsAreHonest
  EndsAfterAnInstance
