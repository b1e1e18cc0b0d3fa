SPECIFICATION Spec
CONSTANTS
  c1 = c1
  c2 = c2
  p1 = p1
  p2 = p2
  p3 = p3
  Cdns = {c1, c2}
  Places = {p1, p2, p3}
  Files = {f1}
  Handlers = {h1}
  Fss = Fss
  Nowhere = Nowhere
  Dist <- DistanceOf
  Unmeasured <- NearOrOpposite
  MaxIds = 3
  MaxRestarts = 1
  NoFile = NoFile
INVARIANTS
  TypeOK
  IdsExact
  HoldersRegistered
  LoopsReachAll
  NearestChosen
