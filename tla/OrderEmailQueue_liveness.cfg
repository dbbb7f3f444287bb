SPECIFICATION FairSpec
CONSTANTS
  Order = {o1}
  Delivery = {d1, d2}
  Address = {a1}
  Allowed = {a1}
  Mode = "live"
  Pdf = {p1}
  Worker = {w1}
  Request = {r1}
  Svix = {s1, s2}
  EventType = {"delivered"}
  Lease = 2
  Window = 2
  RetryWait = {1}
  KeyLife = 1
  MaxMessages = 1
  MaxCrashes = 1
  BoundedAttempts = TRUE
  NoAddress = NoAddress
  NoPdf = NoPdf
  NoRow = NoRow
PROPERTIES
  QueuedDeliverySettles
  StoredEventIsApplied
