SPECIFICATION Spec
CONSTANTS
  Handlers = {h1, h2}
  Files = {f1, f2}
  Contents = {v1, v2}
  Ids = {1}
  Ring = 3
  MaxRestarts = 0
  Absent = Absent
INVARIANTS
  EveryMessageAnswered
SYMMETRY Symmetry
