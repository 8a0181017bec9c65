SPECIFICATION SpecCycleAnyTime
CONSTANTS
  Conses = {c1}
  Arrays = {a1}
  Handles = {h1}
  Nil = Nil
  GarbageSteps = 1
  RecycleSteps = 1
  MaxSize = 2
INVARIANT StepKeepsReachable
