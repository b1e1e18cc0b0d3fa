SPECIFICATION Spec
CONSTANTS
  r1 = r1
  r2 = r2
  f1 = f1
  f2 = f2
  f3 = f3
  Cdns = {c1, c2}
  Files = {f1, f2}
  Reqs = {r1, r2}
  Reads <- Own
  Writes <- Own
  Versions = {v1, v2}
  Size <- SizesOf
  Measured <- SizesOf
  Capacity = 2
  MaxIds = 2
  MaxFaults = 0
  Absent = Absent
  Garbage = Garbage
INVARIANTS
  Coherent
  ServedIsStored
SYMMETRY Symmetry
CHECK_DEADLOCK FALSE
