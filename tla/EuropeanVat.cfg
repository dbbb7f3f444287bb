SPECIFICATION SpecVat
CONSTANTS
  Untaxed = Untaxed
  p1 = p1  p2 = p2  g1 = g1  low = low  high = high
  u1 = u1  u2 = u2  r1 = r1
  TaxedProduct = {p1, p2}
  TaxGroup = {g1}
  VatRate = {low, high}
  Approver = {u1, u2}
  TaxRequest = {r1}
SYMMETRY Symmetry
INVARIANTS InvoicedRatesWereSigned
