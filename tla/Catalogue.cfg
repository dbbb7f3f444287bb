\* A product, a group, and two of everything else, with three changes after the
\* first; or two categories and codes, two optionals and a slot, with
\* two changes.
SPECIFICATION SpecEither
CONSTANTS
  Product = {p1}
  Type = {x1, x2}
  Group = {g1}
  Name = {y1, y2}
  Outro = Outro
  None = None
  Rate = {k1, k2}
  Price = {z1, z2}
  Request = {r1, r2}
  MaxCommits = 3
  Category = {x1, x2}
  Code = {y1, y2}
  Optional = {z1, z2}
  Slot = {a1}
  MaxEdits = 2
SYMMETRY Symmetry
INVARIANTS TrailTellsTheIpi OptionalsFitTheirSlots
PROPERTIES ChangesRaiseTheVersion
CHECK_DEADLOCK FALSE
