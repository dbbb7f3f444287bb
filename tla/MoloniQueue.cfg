\* Two runs share the queue of two orders, with one fault.
SPECIFICATION FairSpec
CONSTANTS
  o1 = o1
  o2 = o2
  c = c
  p = p
  r1 = r1
  r2 = r2
  Order = {o1, o2}
  Client = {c}
  Product = {p}
  Run = {r1, r2}
  ClientOf <- TheClientOf
  ItemsOf <- TheItemsOf
  MaxAttempts = 2
  Lease = 1
  Backoff = 1
  MaxDeleted = 1
  MaxFaults = 1
INVARIANTS
  DocumentsAreAccountedFor
PROPERTIES
  JobsSettle
CHECK_DEADLOCK FALSE
