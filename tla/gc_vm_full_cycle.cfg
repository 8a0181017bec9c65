SPECIFICATION SpecFullCycle
CONSTANTS
  Conses = {c1, c2}
  Arrays = {a1}
  RootCells = {r1, r2}
  Nil = Nil
  MaxSize = 1
SYMMETRY Symmetry
INVARIANT ListsAgree
