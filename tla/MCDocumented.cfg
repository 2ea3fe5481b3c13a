SPECIFICATION SessionSpec
CONSTANTS
  Tasks <- DocumentedTasks
  Entry = 1000
  MaxSteps = 60
INVARIANTS
  AsDocumented
CHECK_DEADLOCK FALSE
