SPECIFICATION MCSpec
CONSTANTS
  main = main
  h = h
  k = k
  missing = missing
  A = A
  B = B
  M = M
  N = N
  F = F
  G = G
  Path = {main, h, k, missing}
  Main = main
  Macro = {A, B, M, N, F, G}
  MaxDepth = 2
  Letter = {"A", "B", "M", "N", "F", "G", "x", "y", "__VA_ARGS__"}
  Digit = {"0", "1", "2"}
  NameOf <- MCNameOf
  DefinitionOf <- MCDefinitionOf
  TextOf <- MCTextOf
  Contents <- MCContents
  Predefined <- MCPredefined
INVARIANTS
  NestingSound
  PastedOnce
  SelectionIsRight
  ExpansionRight
PROPERTIES
  Terminates
CHECK_DEADLOCK FALSE
