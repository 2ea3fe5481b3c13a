SPECIFICATION RunSpec
CONSTANTS
  Statement <- MCStatement
  main = main
  f = f
  v = v
  Name = {main, f, v}
  Programs <- MCPrograms
  Reach = 8192
INVARIANTS
  EveryBranchLands
  SameBehaviour
PROPERTIES
  LabelsStay
  Progress
CONSTRAINT UnitsExpected
CHECK_DEADLOCK FALSE
