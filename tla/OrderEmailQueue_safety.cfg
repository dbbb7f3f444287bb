SPECIFICATION Spec
CONSTANTS
  Order = {o1}
  Delivery = {d1, d2}
  Address = {a1, a2}
  Allowed = {a1}
  Mode = "test"
  Pdf = {p1, p2}
  Worker = {w1, w2}
  Request = {r1}
  Svix = {s1, s2}
  EventType = {"delivered", "bounced"}
  Lease = 2
  Window = 2
  RetryWait = {1}
  KeyLife = 1
  MaxMessages = 2
  MaxCrashes = 1
  BoundedAttempts = TRUE
  NoAddress = NoAddress
  NoPdf = NoPdf
  NoRow = NoRow
SYMMETRY Symmetry
INVARIANTS
  AcceptedHasMessage
  SentOnlyWhereAllowed
  SentPdfIsStoredPdf
PROPERTIES
  FirstTerminalWins
