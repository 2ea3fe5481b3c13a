SPECIFICATION ReaderSpec
CONSTANTS
  Base = {s1, s2, s3}
  first = s1
  second = s2
  outside = m3
  Offset = {m1, m2, m3}
  NoName = NoName
  ListedDecorations = {"", "_", "__imp_"}
  MaxEntries = 3
  MaxIterations = 2
  Symbol <- MCName
  Libraries <- AnyLibrary
  Archives = {}
  Requests <- AnyRequest
INVARIANTS MapIsFirstMatch EachMemberOnce ExtractedOnDemand NothingLost
PROPERTIES ImplementsClosure Terminates
CHECK_DEADLOCK FALSE
