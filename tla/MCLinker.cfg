SPECIFICATION FairSpec
CONSTANTS
  f = f
  g = g
  h = h
  Main = main
  Base = {f, g, h, main}
  Offset = {1, 2}
  MaxIterations = 100
  kernel = kernel
  xam = xam
  Dll = {kernel, xam}
  KernelDll = kernel
  XamDll = xam
  KernelOrdinals <- MCKernelOrdinals
  XamOrdinals <- MCXamOrdinals
  Programs <- MCPrograms
  LibraryLists <- AnyLibraries
  Targets = {"exe", "other"}
INVARIANTS FirstDefinitionWins FirstLibraryWins RegionsDisjoint UserDefinitionsStand UserImportsAccounted ReportIsRight ImportTableComplete
PROPERTIES Returns
CHECK_DEADLOCK FALSE
