SPECIFICATION SpecAssignCell
CONSTANTS
  Conses = {c1}
  Arrays = {a1}
  Handles = {h1}
  Nil = Nil
  GarbageSteps = 2
  RecycleSteps = 1
  MaxSize = 2
INVARIANT AssignsLive
