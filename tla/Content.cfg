CONSTANTS
  MaxFileSize = 4
  Offsets = {0, 1, 2, 3, 4, 5}
  Lengths = {0, 1, 3}
  SourceOffsets = {0, 3}
SPECIFICATION MCSpec
PROPERTIES
  ImplementsByteFile
