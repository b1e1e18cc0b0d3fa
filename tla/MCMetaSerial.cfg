SPECIFICATION Spec
CONSTANTS
  Handlers = {h1}
  Files = {f1, f2}
  Contents = {v1, v2}
  Ids = {1, 2}
  Ring = 2
  MaxRestarts = 1
  Absent = Absent
INVARIANTS
  TypeOK
  RecordedStaysListed
  OneLinePerFile
  OneEntryPerCdn
  EveryMessageAnswered
PROPERTIES
  ImplementsTable
SYMMETRY Symmetry
