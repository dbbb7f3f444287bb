SPECIFICATION Spec
CONSTANTS
  ana = ana  rui = rui  o1 = o1  email = email  vat = vat
  r1 = r1  r2 = r2
  Request = {r1, r2}
  Client = {ana}
  Rep = {rui}
  Order = {o1}
  Detail = {email, vat}
  Email = email
  ClientOf <- ClientOfOrder
  RepOf <- RepOfOrder
  MaxSnapshot = 1
  MaxHolds = 1
  MaxWork = 1
SYMMETRY Symmetry
INVARIANTS HoldsProtect ApprovedReviewsAreWhole AnonymisedIsBlank
CHECK_DEADLOCK FALSE
