SPECIFICATION Spec
CONSTANTS
  Conses = {c1}
  Arrays = {a1}
  Handles = {h1, h2}
  Nil = Nil
  GarbageSteps = 3
  RecycleSteps = 2
  MaxSize = 2
SYMMETRY Symmetry
INVARIANTS TypeOK ScannedIsNotWhite SwapOnlyWhenScanned RootsCounted AssignsRoots IInv
PROPERTY ImplementsHeap
