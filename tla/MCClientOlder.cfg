SPECIFICATION FairSpec
CONSTANTS
  Clients = {c1, c2}
  Writers = {c1}
  Files = {f1}
  Coarse = FALSE
  MaxActs = 5
  MaxFaults = 0
  Absent = Absent
PROPERTIES
  UploadsNotOlder
CHECK_DEADLOCK FALSE
