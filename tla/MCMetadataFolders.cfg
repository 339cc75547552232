SPECIFICATION Spec
CONSTANTS
  r1 = r1
  r2 = r2
  i1 = i1
  i2 = i2
  w1 = w1
  w2 = w2
  a = a
  b = b
  root = root
  k = k
  v1 = v1
  v2 = v2
  Requests <- TwoRequests
  Ids <- TwoIds
  Spaces <- TwoSpaces
  Places <- TwoPlaces
  Root <- root
  Keys <- OneKey
  Vals <- TwoVals
  MaxDocs = 2
PROPERTIES
  FoldersStayFolders
