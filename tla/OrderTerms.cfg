SPECIFICATION Spec
CONSTANTS
  chair = chair  table = table  rui = rui  home = home  garden = garden
  NoRep = NoRep  NoLine = NoLine  NoOrder = NoOrder  None = None
  Slot <- TwoLines
  Product = {chair, table}
  Rep = {rui}
  Catalog = {home, garden}
  Market = {"BR", "EU"}
  MaxDiscount = 1
  MaxChanges <- OneInBrazil
INVARIANTS DiscountsWereGranted RepSellsTheOrder
SYMMETRY Symmetry
