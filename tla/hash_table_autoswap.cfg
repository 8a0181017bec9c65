SPECIFICATION SpecAutoswap
CONSTANTS
  Keys = {0, 1, 2, 3}
  Values = {1}
  MinSize = 1
  MaxSwap = 3
INVARIANT KeysOnce
