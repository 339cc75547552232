SPECIFICATION Spec
CONSTANTS
  a = a
  b = b
  gap = gap
  i1 = i1
  i2 = i2
  i3 = i3
  i4 = i4
  Names <- TwoNames
  Gap <- gap
  Places <- ThreePlaces
  Ids <- FourIds
  MaxDepth = 2
  MaxDocs = 3
  MaxSeen = 1
SYMMETRY Symmetry
INVARIANTS
  TypeOK
  FolderHasDirectory
  OnlyCopiesDuplicate
PROPERTIES
  DeletesFoldersOnly
