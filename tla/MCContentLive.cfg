SPECIFICATION FairSpec
CONSTANTS
  r1 = r1
  r2 = r2
  f1 = f1
  f2 = f2
  f3 = f3
  Cdns = {c1}
  Files = {f1, f2}
  Reqs = {r1, r2}
  Reads <- SecondOnly
  Writes <- Own
  Versions = {v1}
  Size <- SizesOf
  Measured <- SizesOf
  Capacity = 2
  MaxIds = 3
  MaxFaults = 2
  Absent = Absent
  Garbage = Garbage
PROPERTIES
  RequestAnswered
CHECK_DEADLOCK FALSE
