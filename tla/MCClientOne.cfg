SPECIFICATION FairSpec
CONSTANTS
  Clients = {c1}
  Writers = {c1}
  Files = {f1, f2}
  Coarse = TRUE
  MaxActs = 5
  MaxFaults = 1
  Absent = Absent
INVARIANTS
  TypeOK
PROPERTIES
  UploadsNotOlder
  OwnFilesKept
  NoResurrection
  Converges
CHECK_DEADLOCK FALSE
