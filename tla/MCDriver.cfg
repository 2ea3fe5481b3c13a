SPECIFICATION MCSpec
CONSTANTS
  BASE_ADDRESS = 33554432
  TOP = 1073741824
  CodeSizes = {4, 508, 512, 516, 65532, 65536, 65540}
  DataSizes = {0, 1, 15, 16, 17, 512, 65535, 65537}
  NameSizes = {7, 12}
  EntryCounts = {1, 3}
  Programs <- MCPrograms
  Options <- MCOptions
INVARIANTS OffsetsRight SectionsApart ImportsLinked ProgramInXex ExitCodeTells
CHECK_DEADLOCK FALSE
