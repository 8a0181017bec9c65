SPECIFICATION SpecAssignCell
CONSTANTS
  Conses = {c1, c2}
  Arrays = {a1}
  Handles = {h1}
  Nil = Nil
  GarbageSteps = 1
  RecycleSteps = 1
  MaxSize = 1
SYMMETRY Symmetry
INVARIANTS LiveClosed NoDangling AssignsLive
