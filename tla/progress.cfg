SPECIFICATION LiveSpec
CONSTANTS
  Conses = {c1}
  Arrays = {a1}
  Handles = {h1}
  Nil = Nil
  GarbageSteps = 1
  RecycleSteps = 1
  MaxSize = 2
  MaxAge = 2
INVARIANT GarbageSurvivesOneSwap
PROPERTY GarbageIsRecycled
