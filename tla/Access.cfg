\* Two requests at a time; an administrator, a client who may become one, and
\* three invitations; four tokens and changes together; five guesses.
SPECIFICATION SpecAny
CONSTANTS
  r1 = r1  r2 = r2
  ana = ana  caio = caio
  home = home  cafe = cafe
  BR = BR  EU = EU
  Market = {BR, EU}
  Home = BR
  Platform = platform
  Granted = {BR}
  MaxWork = 4
  Pair = {home, cafe}
  Ladder <- Waits
  Window = 3
  Retention = 4
  MaxClock = 6
  MaxGuesses = 5
  Request = {r1, r2}
  Person = {ana, caio}
  Client = {caio}
  Founder = {ana}
  Linked = {caio}
  MaxInvitations = 3
SYMMETRY Symmetry
INVARIANTS
  AdminRemains
  DeactivationHolds
  FamiliesDoNotFork
  OutlivesOnlyByRace
  GuessesAreRationed
CHECK_DEADLOCK FALSE
