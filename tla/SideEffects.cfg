\* Two events, two workers, three attempts; two files, two orders, two requests.
SPECIFICATION SpecBoth
CONSTANTS
  Event = {e1, e2}
  Worker = {w1, w2}
  BatchSize = 2
  RetryDelays <- Delays
  RetryAfter = {0, 2}
  MaxAttempts = 3
  MaxAborts = 2
  Attachment = {a1, a2}
  Order = {o1, o2}
  Pending = Pending
  Request = {r1, r2}
INVARIANTS
  PostsAreCounted
  FilesAreAccountedFor
PROPERTIES
  ImplementsAtLeastOnce
  SavedFilesStay
CHECK_DEADLOCK FALSE
