SPECIFICATION Spec
CONSTANTS
  Order = {o1, o2}
  NoOrder = NoOrder
  u = u
  User = {u}
  OwnerOf <- AllOfOneUser
  eu = eu
  Market = {eu}
  EU = eu
  MoloniBlocked = FALSE
  MarketOf <- AllEu
  Request = {r1, r2}
  Watched = {o1}
  MaxVersion = 3
SYMMETRY Symmetric
INVARIANTS
  StaleCopiesAreDetectable
  NumbersAreNeverReused
  RevisionsFormChains
  EmailedDocumentIsTheOrder
  NoWaitCycle
PROPERTIES
  ClosedOrdersStayClosed
CHECK_DEADLOCK FALSE
