SPECIFICATION SpecPhotos
CONSTANTS
  NoPicture = NoPicture
  br = br  eu = eu
  b1 = b1   e1 = e1  e2 = e2
  r1 = r1  r2 = r2
  Article = {br, eu}
  European = {eu}
  Picture = {b1, e1, e2}
  EuPicture = {e1, e2}
  Present = {b1}
  Handler = {r1, r2}
SYMMETRY Symmetry
INVARIANTS PhotosInUseAreThere
PROPERTIES BrazilKeepsItsPhotos
CHECK_DEADLOCK FALSE
