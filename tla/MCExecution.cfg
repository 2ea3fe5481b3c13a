SPECIFICATION Spec
CONSTANTS
  Tasks <- MCTasks
  Entry = 1000
INVARIANTS
  CallerKept
  ResultRight
PROPERTIES
  Delivers
CHECK_DEADLOCK FALSE
