SPECIFICATION KernelSpec
CONSTANTS
  PageSize = 2  MaxPages = 3  Word = 64  Pointer = 1
  MaxSteps = 3  MaxGuards = 2
  Objects = {o1, o2, o3}  MaxRefs = 2
  Names = {"a", "b"}  Symbols = {1, 2, 3}  Cells = {"c", "d"}  NoSymbol = NoSymbol
  Nodes = {n1, n2, n3}
  NoNode = NoNode  Sizes = {0, 2}  NumBulkSteps = 1  NumEdgeRewireSteps = 1
SYMMETRY Symmetry
INVARIANTS
  KernelTypeOK SanityHolds EachConsOnce IteratorsAgree StepsAsAsked
  SymbolsCounted FoundAsDefined CompilesWhatItAccepts MeansWhatItSays
  GraphIsHeap StatisticsOfRunsSoFar
PROPERTY MovesAsSets
CHECK_DEADLOCK FALSE
