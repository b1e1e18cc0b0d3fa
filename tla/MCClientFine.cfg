SPECIFICATION Spec
CONSTANTS
  Clients = {c1}
  Writers = {c1}
  Files = {f1, f2}
  Coarse = FALSE
  MaxActs = 5
  MaxFaults = 1
  Absent = Absent
PROPERTIES
  OwnFilesKept
CHECK_DEADLOCK FALSE
