SPECIFICATION ToolboxSpec
CONSTANTS
  Keys = {0, 1, 3}
  Values = {1, 2}
  MinSize = 1
  MaxSwap = 3
  Items = {i1, i2, i3}
  DlLists = {l1, l2}
  Null = Null
  Addresses = {a1, a2}
  MaxContexts = 2
  MaxMocks = 1
  MaxErrors = 1
  Conses = {c1, c2}
  Arrays = {a3}
  RootCells = {r1, r2}
  Nil = Nil
  MaxSize = 0
  Candidates <- ToolArguments
  Lines <- ToolLines
  Junk = 99
  IntMin <- LeastInt
  IntMax = 1
  MaxArguments = 2
  UnsignedSize = 8
  Ints <- SmallInts
  Pointers <- SmallPointers
  Strings <- SmallStrings
  SuiteNames = {"one", "two"}
  Bodies <- ToolBodies
  CommandLines <- ToolCommands
  MaxSuites = 2
  MaxTests = 1
SYMMETRY Symmetry
INVARIANTS
  ToolboxTypeOK OldBeforeNew CountsAgree RecyclingEnds
  BothWays ReportsLeaks RegularLinesAreMeant ReportAddsUp GraphIsCurrent
PROPERTIES ImplementsMap ImplementsLists
CHECK_DEADLOCK FALSE
