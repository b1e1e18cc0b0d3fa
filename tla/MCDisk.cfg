CONSTANTS
  t1 = t1
  t2 = t2
  f1 = f1
  f2 = f2
  v1 = v1
  v2 = v2
  Null = Null
  Hole = Hole
  Garbage = Garbage
  Keys <- MCFiles
  Threads <- MCThreads
  Jobs <- MCJobs
  Versions <- MCVersions
  Length <- MCLength
  Stored <- MCStored
  Capacity = 2
  MaxFaults = 1
SPECIFICATION Spec
CHECK_DEADLOCK FALSE
INVARIANTS
  TypeOK
  WellFormed
  WholeContents
  OrderlyExact
PROPERTIES
  ImplementsOrder
